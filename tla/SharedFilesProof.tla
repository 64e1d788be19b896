-------------------------- MODULE SharedFilesProof --------------------------
(***************************************************************************)
(* Proofs about the three components whose files two processes share, the  *)
(* gateway and a command of tinyclaw: the scheduler of CronService         *)
(* (jobs.json), SkillInstall (the directory of a skill) and Credentials    *)
(* (auth.json and config.json), for every set of actors and every bound,   *)
(* with writes that fail or are cut short and processes that die.          *)
(***************************************************************************)
EXTENDS CronService, SkillInstall, Credentials, TLAPS

-----------------------------------------------------------------------------
\* The scheduler.

\* ComputeNextRun arms a one-time job for its own time and only while that
\* is in the future, and always arms a recurring one.
LEMMA NextRun ==
  ASSUME NEW s \in Stored, now \in 0 .. MaxTime
  PROVE  /\ ComputeNextRun(s, now) \in Nat \cup {Nil}
         /\ Recurring(s) => ComputeNextRun(s, now) # Nil
         /\ s.kind = "at" =>
              /\ ComputeNextRun(s, now) \in {Nil, s.t}
              /\ s.t <= now => ComputeNextRun(s, now) = Nil
<1>1. s.kind \in Kinds /\ s.t \in Nat
  BY BoundsAssumption DEF Stored, Schedule, Kinds
<1>2. CASE s.kind = "at"
  BY <1>1, <1>2 DEF ComputeNextRun, Nil, Recurring
<1>3. CASE s.kind = "every"
  BY <1>1, <1>3 DEF ComputeNextRun, Nil, Recurring
<1>4. CASE s.kind = "cron"
  <2>1. s \in Requests
    BY <1>4 DEF Stored
  <2>2. s.t > 0 => NextTickAfter(s.t, now) \in Nat
    BY <2>1, <1>4, TickAssumption
  <2>3. QED
    BY <1>1, <1>4, <2>2 DEF ComputeNextRun, Nil, Recurring
<1>5. QED
  BY <1>1, <1>2, <1>3, <1>4 DEF Kinds

\* What a rescheduled, an enabled and a new job look like.
LEMMA RescheduledJob ==
  ASSUME NEW j \in Job, now \in 0 .. MaxTime
  PROVE  /\ Rescheduled(j) \in Job
         /\ Rescheduled(j).sched = j.sched
         /\ Rescheduled(j).enabled = j.enabled
         /\ Rescheduled(j).next = ComputeNextRun(j.sched, now)
BY NextRun DEF Rescheduled, Job

\* What EnableJob makes of a job: only the flag and the next run change.
LEMMA EnabledJob ==
  ASSUME NEW j \in Job, NEW on \in BOOLEAN, now \in 0 .. MaxTime
  PROVE  /\ Enabled(j, on) \in Job
         /\ Enabled(j, on).sched = j.sched
         /\ Enabled(j, on).enabled = on
         /\ Enabled(j, on).next = IF on THEN ComputeNextRun(j.sched, now) ELSE Nil
BY NextRun DEF Enabled, Job

\* What AddJob stores: an enabled job whose next run is computed at the current time.
LEMMA NewlyAdded ==
  ASSUME NEW r \in Requests, now \in 0 .. MaxTime
  PROVE  /\ NewJob(r) \in Job
         /\ NewJob(r).enabled
         /\ NewJob(r).next = ComputeNextRun(NewJob(r).sched, now)
<1> DEFINE s == IF r.kind = "at" THEN [r EXCEPT !.t = now + @] ELSE r
<1>1. s \in Stored
  BY BoundsAssumption DEF Stored, Schedule
<1>2. QED
  BY <1>1, NextRun DEF NewJob, Job

\* The types of a job's fields, one by one, as the steps below use them.
LEMMA JobFields ==
  ASSUME NEW j \in Job
  PROVE  /\ j.sched \in Stored /\ j.sched.kind \in Kinds /\ j.sched.t \in Nat
         /\ j.enabled \in BOOLEAN /\ j.next \in Nat \cup {Nil}
BY BoundsAssumption DEF Job, Stored, Schedule, Kinds

\* An empty store satisfies everything that is asked of a store.
LEMMA EmptyStore ==
  /\ IsStore(Empty) /\ DOMAIN Empty = {}
  /\ \A s : SameSchedules(s, Empty) /\ SameSchedules(Empty, s)
BY DEF IsStore, Empty, SameSchedules

\* A failed save leaves what was there or nothing.
LEMMA SaveCases ==
  ASSUME NEW s, Save(s), file.whole \in BOOLEAN
  PROVE  /\ file'.whole \in BOOLEAN
         /\ file'.jobs = s \/ file'.jobs = file.jobs \/ file'.jobs = Empty
<1>1. CASE file' = Whole(s)
  BY <1>1 DEF Whole
<1>2. CASE file' = file
  BY <1>2
<1>3. CASE file' = Torn
  BY <1>3 DEF Torn
<1>4. QED
  BY <1>1, <1>2, <1>3 DEF Save

\* s has every job of r that it has, and otherwise only ids newly generated.
Inherits(s, r) ==
  \A id \in DOMAIN s :
    \/ id \in DOMAIN r /\ s[id].sched = r[id].sched
    \/ id > used /\ id <= used'

\* The whole file side of the invariant follows once the store in memory is
\* good: a save writes that store, or keeps or loses the old one.
LEMMA SaveKeeps ==
  ASSUME IndInv, Save(jobs'), IsStore(jobs'), OneTimeSane(jobs)',
         Inherits(jobs', jobs), used' \in {used, used + 1},
         now' = now, runs' = runs, cli' = cli
  PROVE  /\ IsStore(file'.jobs) /\ file'.whole \in BOOLEAN
         /\ OneTimeSane(file.jobs)' /\ OneTimeSane(cli.jobs)'
         /\ CopiesAgree'
         /\ \A id \in DOMAIN jobs' \cup DOMAIN file'.jobs \cup DOMAIN cli'.jobs : id <= used'
<1> DEFINE F == file'.jobs  J == jobs'  C == cli.jobs
<1>0. used \in Nat /\ used' \in Nat /\ used <= used'
  BY BoundsAssumption DEF IndInv, TypeOK
<1>1. /\ file'.whole \in BOOLEAN
      /\ F = J \/ F = file.jobs \/ F = Empty
  BY SaveCases DEF IndInv, TypeOK
<1>2. IsStore(F)
  BY <1>1, EmptyStore DEF IndInv, TypeOK
<1>3. OneTimeSane(cli.jobs)'
  BY DEF IndInv, OneTimeSane
<1>4. OneTimeSane(file.jobs)'
  BY <1>1, EmptyStore DEF IndInv, OneTimeSane
<1>5. \A id \in DOMAIN J \cup DOMAIN F \cup DOMAIN C : id <= used'
  <2>1. \A id \in DOMAIN J : id <= used'
    BY <1>0, IsStore(jobs') DEF IndInv, Inherits, FreshIds, IsStore, Ids
  <2>2. \A id \in DOMAIN file.jobs \cup DOMAIN C : id <= used'
    BY <1>0 DEF IndInv, FreshIds, TypeOK, IsStore, Ids
  <2>3. QED
    BY <1>1, <2>1, <2>2, EmptyStore
<1>6. SameSchedules(J, J) /\ SameSchedules(J, C) /\ SameSchedules(J, file.jobs)
  <2>1. \A id \in DOMAIN file.jobs \cup DOMAIN C : id \in Nat /\ id <= used
    BY BoundsAssumption DEF IndInv, FreshIds, TypeOK, IsStore, Ids
  <2>2. \A id \in DOMAIN file.jobs \cup DOMAIN C :
          id \in DOMAIN J => id \in DOMAIN jobs /\ J[id].sched = jobs[id].sched
    BY <2>1, <1>0 DEF Inherits
  <2>3. QED
    BY <2>2 DEF IndInv, CopiesAgree, SameSchedules
<1>7. CopiesAgree'
  <2>1. SameSchedules(J, F) /\ SameSchedules(F, C)
    BY <1>1, <1>6, EmptyStore DEF IndInv, CopiesAgree
  <2>2. QED
    BY <1>6, <2>1 DEF CopiesAgree, SameSchedules
<1>8. QED
  BY <1>1, <1>2, <1>3, <1>4, <1>5, <1>7

\* The actions that leave every store alone.
LEMMA QuietKeeps ==
  ASSUME IndInv, Tick \/ Stop \/ UNCHANGED vars
  PROVE  IndInv'
<1> USE DEF loop, offline
<1>1. UNCHANGED <<up, jobs, file, due, calling, draft, cli, used, boots, runs, last, acked>>
  BY DEF Tick, Stop, vars
<1>2. now \in Nat /\ now' \in 0 .. MaxTime /\ now <= now'
  BY BoundsAssumption DEF IndInv, TypeOK, Tick, Stop, vars
<1>0. running' \in BOOLEAN /\ (running' => up)
  <2>1. CASE running' = FALSE
    BY <2>1
  <2>2. CASE running' = running
    BY <2>2 DEF IndInv, TypeOK
  <2>3. QED
    BY <2>1, <2>2 DEF Tick, Stop, vars
<1>3. \A j \in Job : j.sched.t <= now => j.sched.t <= now'
  BY <1>2, JobFields
<1>4. TypeOK'
  BY <1>0, <1>1, <1>2 DEF IndInv, TypeOK, IsStore
<1>5. OneTimeSane(jobs)' /\ OneTimeSane(file.jobs)' /\ OneTimeSane(cli.jobs)'
  BY <1>1, <1>3 DEF IndInv, TypeOK, IsStore, OneTimeSane
<1>6. NotYetRun'
  BY <1>1, <1>3 DEF IndInv, TypeOK, IsStore, NotYetRun
<1>7. CopiesAgree' /\ FreshIds' /\ DownIsIdle'
  BY <1>1 DEF IndInv, CopiesAgree, SameSchedules, FreshIds, DownIsIdle
<1>8. NeverForgotten' /\ DraftIsStale'
  BY <1>1 DEF IndInv, NeverForgotten, DraftIsStale
<1>9. QED
  BY <1>4, <1>5, <1>6, <1>7, <1>8 DEF IndInv

\* A crash keeps the invariant: memory is lost, the file is left as a write in
\* progress may have torn it.
LEMMA CrashKeeps ==
  ASSUME IndInv, Crash
  PROVE  IndInv'
<1> USE DEF offline
<1>1. /\ jobs' = Empty /\ due' = {} /\ calling' = 0 /\ draft' = NoDraft
      /\ up' = FALSE /\ running' = FALSE
      /\ UNCHANGED <<now, used, boots, runs, last, cli, acked>>
  BY DEF Crash
<1>2. file'.whole \in BOOLEAN /\ (file'.jobs = file.jobs \/ file'.jobs = Empty)
  <2>1. CASE file' = file
    BY <2>1 DEF IndInv, TypeOK
  <2>2. CASE file' = Torn
    BY <2>2 DEF Torn
  <2>3. QED
    BY <2>1, <2>2 DEF Crash
<1>3. TypeOK'
  BY <1>1, <1>2, EmptyStore DEF IndInv, TypeOK
<1>4. OneTimeSane(jobs)' /\ OneTimeSane(file.jobs)' /\ OneTimeSane(cli.jobs)'
  BY <1>1, <1>2, EmptyStore DEF IndInv, OneTimeSane
<1>5. CopiesAgree'
  <2>1. SameSchedules(jobs', file'.jobs) /\ SameSchedules(jobs', cli.jobs)
    BY <1>1, EmptyStore
  <2>2. SameSchedules(file'.jobs, cli.jobs)
    BY <1>2, EmptyStore DEF IndInv, CopiesAgree
  <2>3. QED
    BY <1>1, <2>1, <2>2 DEF CopiesAgree, SameSchedules
<1>6. FreshIds' /\ NeverForgotten' /\ NotYetRun' /\ DownIsIdle'
  BY <1>1, <1>2, EmptyStore, BoundsAssumption
     DEF IndInv, TypeOK, FreshIds, NeverForgotten, NotYetRun, DownIsIdle
<1>7. DraftIsStale'
  BY <1>1 DEF DraftIsStale
<1>8. QED
  BY <1>3, <1>4, <1>5, <1>6, <1>7 DEF IndInv

\* Start keeps the invariant: the loaded jobs have a past they agree with, and
\* recomputing the next runs arms no one-time job whose time has passed.
LEMMA StartKeeps ==
  ASSUME IndInv, Start
  PROVE  IndInv'
<1> USE DEF loop, offline
<1> DEFINE F == file.jobs
<1>1. /\ UNCHANGED <<now, due, calling, draft, used, cli, acked, runs, last>>
      /\ due = {} /\ calling = 0 /\ draft = NoDraft
      /\ up' = TRUE /\ boots' = boots + 1 /\ jobs' = RecomputeNextRuns(F)
  BY DEF IndInv, DownIsIdle, Start
<1>2. /\ file'.whole \in BOOLEAN /\ running' \in BOOLEAN
      /\ file'.jobs = jobs' \/ file'.jobs = F \/ file'.jobs = Empty
  <2>1. CASE file.whole
    BY <2>1, SaveCases DEF Start, IndInv, TypeOK
  <2>2. CASE ~file.whole
    BY <2>2 DEF Start, IndInv, TypeOK
  <2>3. QED
    BY <2>1, <2>2
<1>3. /\ DOMAIN jobs' = DOMAIN F
      /\ \A i \in DOMAIN F : jobs'[i] = IF F[i].enabled THEN Rescheduled(F[i]) ELSE F[i]
  BY <1>1 DEF RecomputeNextRuns
<1>4. \A i \in DOMAIN F : F[i] \in Job
  BY DEF IndInv, TypeOK, IsStore
<1>5. now \in 0 .. MaxTime
  BY DEF IndInv, TypeOK
<1>6. \A i \in DOMAIN F :
        /\ jobs'[i] \in Job
        /\ jobs'[i].sched = F[i].sched
        /\ jobs'[i].enabled = F[i].enabled
        /\ jobs'[i].next = IF F[i].enabled THEN ComputeNextRun(F[i].sched, now) ELSE F[i].next
  BY <1>3, <1>4, <1>5, RescheduledJob
<1>7. IsStore(jobs')
  BY <1>3, <1>6 DEF IndInv, TypeOK, IsStore
<1>8. \A i \in DOMAIN F :
        /\ Recurring(F[i].sched) => ComputeNextRun(F[i].sched, now) # Nil
        /\ F[i].sched.kind = "at" =>
              /\ ComputeNextRun(F[i].sched, now) \in {Nil, F[i].sched.t}
              /\ F[i].sched.t <= now => ComputeNextRun(F[i].sched, now) = Nil
  BY <1>4, <1>5, JobFields, NextRun
<1>9. OneTimeSane(jobs)' /\ OneTimeSane(cli.jobs)'
  BY <1>1, <1>3, <1>6, <1>8 DEF IndInv, OneTimeSane
<1>10. OneTimeSane(file.jobs)'
  BY <1>1, <1>2, <1>9, EmptyStore DEF IndInv, OneTimeSane
<1>11. NeverForgotten'
  BY <1>3, <1>6, <1>8 DEF NeverForgotten
<1>12. NotYetRun'
  <2>1. \A i \in DOMAIN F :
          F[i].sched.kind = "at" /\ runs[i] > 0 => jobs'[i].next = Nil
    BY <1>6, <1>8 DEF IndInv, OneTimeSane
  <2>2. \A i \in DOMAIN F : i # 0
    BY DEF IndInv, TypeOK, IsStore, Ids
  <2>3. QED
    BY <1>1, <1>3, <1>6, <2>1, <2>2 DEF NotYetRun
<1>13. TypeOK'
  BY <1>1, <1>2, <1>7, EmptyStore DEF IndInv, TypeOK, IsStore
<1>14. FreshIds'
  BY <1>1, <1>2, <1>3, EmptyStore DEF IndInv, FreshIds
<1>15. CopiesAgree'
  <2>1. SameSchedules(jobs', jobs') /\ SameSchedules(jobs', F) /\ SameSchedules(jobs', cli.jobs)
    BY <1>3, <1>6 DEF IndInv, CopiesAgree, SameSchedules
  <2>2. SameSchedules(jobs', file'.jobs) /\ SameSchedules(file'.jobs, cli.jobs)
    BY <1>2, <2>1, EmptyStore DEF IndInv, CopiesAgree
  <2>3. QED
    BY <1>1, <2>1, <2>2 DEF CopiesAgree, SameSchedules
<1>16. DownIsIdle' /\ DraftIsStale'
  BY <1>1 DEF DownIsIdle, DraftIsStale
<1>17. QED
  BY <1>7, <1>9, <1>10, <1>11, <1>12, <1>13, <1>14, <1>15, <1>16 DEF IndInv

\* The second critical section of the loop keeps the invariant: the callback of a
\* one-time job starts only where NotYetRun says that it has not run.
LEMMA FetchKeeps ==
  ASSUME IndInv, NEW id \in Ids, Fetch(id)
  PROVE  IndInv'
<1> USE DEF offline
<1>1. /\ UNCHANGED <<now, up, jobs, file, running, draft, used, boots, cli, acked>>
      /\ id \in due /\ calling = 0 /\ due' = due \ {id}
  BY DEF Fetch
<1>2. up
  BY <1>1 DEF IndInv, DownIsIdle
<1>3. CASE id \notin DOMAIN jobs
  <2>1. UNCHANGED <<calling, runs, last>>
    BY <1>3 DEF Fetch
  <2>2. TypeOK' /\ DownIsIdle'
    BY <1>1, <1>2, <2>1 DEF IndInv, TypeOK, IsStore, DownIsIdle
  <2>3. OneTimeSane(jobs)' /\ OneTimeSane(file.jobs)' /\ OneTimeSane(cli.jobs)'
    BY <1>1, <2>1 DEF IndInv, OneTimeSane
  <2>4. CopiesAgree' /\ FreshIds' /\ NotYetRun' /\ DraftIsStale'
    BY <1>1, <2>1 DEF IndInv, CopiesAgree, SameSchedules, FreshIds, NotYetRun, DraftIsStale
  <2>5. NeverForgotten'
    BY <1>1, <1>3, <2>1 DEF IndInv, NeverForgotten
  <2>6. QED
    BY <2>2, <2>3, <2>4, <2>5 DEF IndInv
<1>4. CASE id \in DOMAIN jobs
  <2>1. /\ calling' = id
        /\ runs' = [runs EXCEPT ![id] = @ + 1]
        /\ last' = [last EXCEPT ![id] = now]
    BY <1>4 DEF Fetch
  <2>2. /\ runs \in [Ids -> Nat] /\ runs' \in [Ids -> Nat]
        /\ \A i \in Ids : runs'[i] = IF i = id THEN runs[id] + 1 ELSE runs[i]
    BY <2>1 DEF IndInv, TypeOK
  <2>3. TypeOK' /\ DownIsIdle'
    BY <1>1, <1>2, <2>1, <2>2 DEF IndInv, TypeOK, IsStore, DownIsIdle
  <2>4. jobs[id].sched.kind = "at" => runs[id] = 0 /\ jobs[id].sched.t <= now
    BY <1>1, <1>4 DEF IndInv, NotYetRun
  <2>5. /\ id \in DOMAIN file.jobs => file.jobs[id].sched = jobs[id].sched
        /\ id \in DOMAIN cli.jobs => cli.jobs[id].sched = jobs[id].sched
    BY <1>4 DEF IndInv, CopiesAgree, SameSchedules
  <2>0. 0 \notin Ids
    BY DEF Ids
  <2>6. DOMAIN jobs \subseteq Ids /\ DOMAIN file.jobs \subseteq Ids /\ DOMAIN cli.jobs \subseteq Ids
    BY DEF IndInv, TypeOK, IsStore
  <2>7. OneTimeSane(jobs)'
    BY <1>1, <2>2, <2>4, <2>6 DEF IndInv, OneTimeSane
  <2>8. OneTimeSane(file.jobs)'
    BY <1>1, <2>2, <2>4, <2>5, <2>6 DEF IndInv, OneTimeSane
  <2>9. OneTimeSane(cli.jobs)'
    BY <1>1, <2>2, <2>4, <2>5, <2>6 DEF IndInv, OneTimeSane
  <2>10. CopiesAgree'
    BY <1>1 DEF IndInv, CopiesAgree, SameSchedules
  <2>11. FreshIds'
    BY <1>1, <2>1, <2>2, BoundsAssumption DEF IndInv, FreshIds, TypeOK, Ids
  <2>12. NotYetRun'
    BY <1>1, <2>0, <2>1, <2>2, <2>4, <2>6 DEF IndInv, NotYetRun
  <2>13. DraftIsStale'
    BY <1>1, <2>0, <2>1, <2>2, <2>6 DEF IndInv, DraftIsStale, TypeOK, NoDraft
  <2>14. NeverForgotten'
    BY <1>1, <2>0, <2>1, <2>6 DEF IndInv, NeverForgotten
  <2>15. QED
    BY <2>3, <2>7, <2>8, <2>9, <2>10, <2>11, <2>12, <2>13, <2>14 DEF IndInv
<1>5. QED
  BY <1>3, <1>4

\* The first critical section keeps the invariant: the jobs it takes lose their
\* next run before the store is saved.
LEMMA CheckKeeps ==
  ASSUME IndInv, Check
  PROVE  IndInv'
<1> USE DEF offline
<1> DEFINE D == {i \in DOMAIN jobs : IsDue(jobs[i])}
<1>1. /\ UNCHANGED <<now, up, running, calling, draft, used, boots, runs, last, cli, acked>>
      /\ running /\ due = {} /\ calling = 0 /\ due' = D /\ Save(jobs')
  BY DEF Check
<1>2. /\ DOMAIN jobs' = DOMAIN jobs
      /\ \A i \in DOMAIN jobs :
           jobs'[i] = IF i \in D THEN [jobs[i] EXCEPT !.next = Nil] ELSE jobs[i]
  BY <1>1 DEF Check
<1>3. \A i \in DOMAIN jobs : jobs[i] \in Job /\ i \in Ids
  BY DEF IndInv, TypeOK, IsStore
<1>4. \A i \in DOMAIN jobs :
        /\ jobs'[i] \in Job
        /\ jobs'[i].sched = jobs[i].sched
        /\ jobs'[i].enabled = jobs[i].enabled
        /\ jobs'[i].next = IF i \in D THEN Nil ELSE jobs[i].next
  BY <1>2, <1>3 DEF Job
<1>5. IsStore(jobs') /\ Inherits(jobs', jobs)
  BY <1>2, <1>3, <1>4 DEF IsStore, Inherits
<1>6. OneTimeSane(jobs)'
  BY <1>1, <1>2, <1>4 DEF IndInv, OneTimeSane
<1>7. /\ IsStore(file'.jobs) /\ file'.whole \in BOOLEAN
      /\ OneTimeSane(file.jobs)' /\ OneTimeSane(cli.jobs)'
      /\ CopiesAgree'
      /\ \A i \in DOMAIN jobs' \cup DOMAIN file'.jobs \cup DOMAIN cli'.jobs : i <= used'
  BY <1>1, <1>5, <1>6, SaveKeeps
<1>8. up
  BY <1>1 DEF IndInv, TypeOK
<1>9. TypeOK' /\ DownIsIdle'
  BY <1>1, <1>3, <1>5, <1>7, <1>8 DEF IndInv, TypeOK, DownIsIdle
<1>10. NeverForgotten'
  BY <1>1, <1>2, <1>4 DEF IndInv, NeverForgotten
<1>11. FreshIds'
  BY <1>1, <1>2, <1>7 DEF IndInv, FreshIds
<1>12. NotYetRun'
  <2>1. \A i \in D : jobs[i].sched.kind = "at" => runs[i] = 0 /\ jobs[i].sched.t <= now
    <3>1. \A i \in D : jobs[i].next # Nil /\ jobs[i].next <= now /\ i # calling
      BY <1>1, <1>3 DEF IsDue, Ids
    <3>2. runs \in [Ids -> Nat]
      BY DEF IndInv, TypeOK
    <3>3. QED
      BY <1>3, <3>1, <3>2 DEF IndInv, NotYetRun, OneTimeSane
  <2>2. QED
    BY <1>1, <1>2, <1>4, <2>1 DEF IndInv, NotYetRun
<1>13. DraftIsStale'
  BY <1>1, <1>2, <1>4 DEF IndInv, DraftIsStale
<1>14. QED
  BY <1>6, <1>7, <1>9, <1>10, <1>11, <1>12, <1>13 DEF IndInv

\* The third critical section keeps the invariant: a recurring job gets its next
\* run back, a one-time job is removed or disabled.
LEMMA SettleKeeps ==
  ASSUME IndInv, Settle
  PROVE  IndInv'
<1> USE DEF offline
<1>1. /\ UNCHANGED <<now, up, running, due, draft, used, boots, runs, last, cli, acked>>
      /\ calling # 0 /\ calling' = 0
  BY DEF Settle
<1>2. \A i \in DOMAIN jobs : jobs[i] \in Job /\ i \in Ids /\ i # 0
  BY DEF IndInv, TypeOK, IsStore, Ids
<1>3. up
  BY <1>1 DEF IndInv, DownIsIdle
<1>4. now \in 0 .. MaxTime
  BY DEF IndInv, TypeOK
<1>5. CASE calling \notin DOMAIN jobs
  <2>1. jobs' = jobs /\ file' = file
    BY <1>5 DEF Settle
  <2>2. TypeOK' /\ DownIsIdle'
    BY <1>1, <1>3, <2>1 DEF IndInv, TypeOK, IsStore, DownIsIdle
  <2>3. OneTimeSane(jobs)' /\ OneTimeSane(file.jobs)' /\ OneTimeSane(cli.jobs)'
    BY <1>1, <2>1 DEF IndInv, OneTimeSane
  <2>4. CopiesAgree' /\ FreshIds'
    BY <1>1, <2>1, BoundsAssumption DEF IndInv, CopiesAgree, SameSchedules, FreshIds, TypeOK
  <2>5. NotYetRun' /\ DraftIsStale' /\ NeverForgotten'
    BY <1>1, <1>2, <1>5, <2>1 DEF IndInv, NotYetRun, DraftIsStale, NeverForgotten
  <2>6. QED
    BY <2>2, <2>3, <2>4, <2>5 DEF IndInv
<1>6. CASE calling \in DOMAIN jobs
  <2>1. /\ \A i \in DOMAIN jobs' :
             /\ i \in DOMAIN jobs /\ jobs'[i] \in Job
             /\ jobs'[i].sched = jobs[i].sched /\ jobs'[i].enabled = jobs[i].enabled
             /\ i # calling => jobs'[i].next = jobs[i].next
             /\ i = calling => /\ jobs[i].sched.kind # "at"
                               /\ Recurring(jobs[i].sched) => jobs'[i].next # Nil
        /\ Save(jobs')
    <3>1. CASE jobs[calling].sched.kind = "at"
      <4>1. jobs' = Without(jobs, calling) /\ Save(jobs')
        BY <1>6, <3>1 DEF Settle
      <4>2. QED
        BY <1>2, <4>1 DEF Without
    <3>2. CASE jobs[calling].sched.kind # "at"
      <4>1. jobs' = [jobs EXCEPT ![calling] = Rescheduled(jobs[calling])] /\ Save(jobs')
        BY <1>6, <3>2 DEF Settle
      <4>2. /\ Rescheduled(jobs[calling]) \in Job
            /\ Rescheduled(jobs[calling]).sched = jobs[calling].sched
            /\ Rescheduled(jobs[calling]).enabled = jobs[calling].enabled
            /\ Recurring(jobs[calling].sched) => Rescheduled(jobs[calling]).next # Nil
        BY <1>2, <1>4, <1>6, RescheduledJob, NextRun, JobFields
      <4>3. QED
        BY <1>2, <1>6, <3>2, <4>1, <4>2
    <3>3. QED
      BY <3>1, <3>2
  <2>2. IsStore(jobs') /\ Inherits(jobs', jobs)
    BY <1>2, <2>1 DEF IsStore, Inherits
  <2>3. OneTimeSane(jobs)'
    BY <1>1, <2>1 DEF IndInv, OneTimeSane
  <2>4. /\ IsStore(file'.jobs) /\ file'.whole \in BOOLEAN
        /\ OneTimeSane(file.jobs)' /\ OneTimeSane(cli.jobs)'
        /\ CopiesAgree'
        /\ \A i \in DOMAIN jobs' \cup DOMAIN file'.jobs \cup DOMAIN cli'.jobs : i <= used'
    BY <1>1, <2>1, <2>2, <2>3, SaveKeeps
  <2>5. TypeOK' /\ DownIsIdle'
    BY <1>1, <1>3, <2>2, <2>4 DEF IndInv, TypeOK, DownIsIdle
  <2>6. NeverForgotten'
    BY <1>1, <2>1 DEF IndInv, NeverForgotten
  <2>7. FreshIds'
    BY <1>1, <2>4, BoundsAssumption DEF IndInv, FreshIds, TypeOK
  <2>8. NotYetRun'
    BY <1>1, <1>2, <2>1 DEF IndInv, NotYetRun
  <2>9. DraftIsStale'
    BY <1>1, <2>1 DEF IndInv, DraftIsStale
  <2>10. QED
    BY <2>3, <2>4, <2>5, <2>6, <2>7, <2>8, <2>9 DEF IndInv
<1>7. QED
  BY <1>5, <1>6

\* RemoveJob keeps the invariant.
LEMMA RemoveJobKeeps ==
  ASSUME IndInv, NEW id \in Ids, RemoveJob(id)
  PROVE  IndInv'
<1> USE DEF loop
<1>1. /\ UNCHANGED <<now, up, running, due, calling, runs, last, draft, used, boots, cli>>
      /\ up /\ Save(jobs') /\ acked' \subseteq acked /\ jobs' = Without(jobs, id)
  BY DEF RemoveJob
<1>2. \A i \in DOMAIN jobs' : i \in DOMAIN jobs /\ jobs'[i] = jobs[i]
  BY <1>1 DEF Without
<1>3. IsStore(jobs') /\ Inherits(jobs', jobs)
  BY <1>2 DEF IndInv, TypeOK, IsStore, Inherits
<1>4. OneTimeSane(jobs)'
  BY <1>1, <1>2 DEF IndInv, OneTimeSane
<1>5. /\ IsStore(file'.jobs) /\ file'.whole \in BOOLEAN
      /\ OneTimeSane(file.jobs)' /\ OneTimeSane(cli.jobs)'
      /\ CopiesAgree'
      /\ \A i \in DOMAIN jobs' \cup DOMAIN file'.jobs \cup DOMAIN cli'.jobs : i <= used'
  BY <1>1, <1>3, <1>4, SaveKeeps
<1>6. TypeOK' /\ DownIsIdle'
  BY <1>1, <1>3, <1>5 DEF IndInv, TypeOK, DownIsIdle
<1>7. NeverForgotten' /\ FreshIds' /\ NotYetRun' /\ DraftIsStale'
  BY <1>1, <1>2, <1>5 DEF IndInv, NeverForgotten, FreshIds, NotYetRun, DraftIsStale
<1>8. QED
  BY <1>4, <1>5, <1>6, <1>7 DEF IndInv

\* EnableJob keeps the invariant: a one-time job that has run is in the past, so
\* enabling it computes no next run.
LEMMA EnableJobKeeps ==
  ASSUME IndInv, NEW id \in Ids, NEW on \in BOOLEAN, EnableJob(id, on)
  PROVE  IndInv'
<1> USE DEF loop, offline
<1>1. /\ UNCHANGED <<now, up, running, due, calling, runs, last, draft, used, boots, cli, acked>>
      /\ up /\ Save(jobs') /\ id \in DOMAIN jobs
      /\ jobs' = [jobs EXCEPT ![id] = Enabled(jobs[id], on)]
  BY DEF EnableJob
<1>2. \A i \in DOMAIN jobs : jobs[i] \in Job /\ i \in Ids
  BY DEF IndInv, TypeOK, IsStore
<1>3. now \in 0 .. MaxTime
  BY DEF IndInv, TypeOK
<1>4. /\ Enabled(jobs[id], on) \in Job
      /\ Enabled(jobs[id], on).sched = jobs[id].sched
      /\ Enabled(jobs[id], on).enabled = on
      /\ Enabled(jobs[id], on).next = IF on THEN ComputeNextRun(jobs[id].sched, now) ELSE Nil
  BY <1>1, <1>2, <1>3, EnabledJob
<1>5. /\ Recurring(jobs[id].sched) => ComputeNextRun(jobs[id].sched, now) # Nil
      /\ jobs[id].sched.kind = "at" =>
              /\ ComputeNextRun(jobs[id].sched, now) \in {Nil, jobs[id].sched.t}
              /\ jobs[id].sched.t <= now => ComputeNextRun(jobs[id].sched, now) = Nil
  BY <1>1, <1>2, <1>3, JobFields, NextRun
<1>6. /\ DOMAIN jobs' = DOMAIN jobs
      /\ \A i \in DOMAIN jobs : i # id => jobs'[i] = jobs[i]
      /\ jobs'[id] = Enabled(jobs[id], on)
  BY <1>1
<1>7. IsStore(jobs') /\ Inherits(jobs', jobs)
  BY <1>2, <1>4, <1>6 DEF IsStore, Inherits
<1>8. OneTimeSane(jobs)'
  BY <1>1, <1>4, <1>5, <1>6 DEF IndInv, OneTimeSane
<1>9. /\ IsStore(file'.jobs) /\ file'.whole \in BOOLEAN
      /\ OneTimeSane(file.jobs)' /\ OneTimeSane(cli.jobs)'
      /\ CopiesAgree'
      /\ \A i \in DOMAIN jobs' \cup DOMAIN file'.jobs \cup DOMAIN cli'.jobs : i <= used'
  BY <1>1, <1>7, <1>8, SaveKeeps
<1>10. TypeOK' /\ DownIsIdle'
  BY <1>1, <1>7, <1>9 DEF IndInv, TypeOK, DownIsIdle
<1>11. NeverForgotten'
  BY <1>1, <1>4, <1>5, <1>6 DEF IndInv, NeverForgotten
<1>12. FreshIds'
  BY <1>1, <1>9 DEF IndInv, FreshIds
<1>13. NotYetRun'
  BY <1>1, <1>4, <1>5, <1>6 DEF IndInv, NotYetRun, OneTimeSane
<1>14. DraftIsStale'
  BY <1>1, <1>4, <1>6 DEF IndInv, DraftIsStale
<1>15. QED
  BY <1>8, <1>9, <1>10, <1>11, <1>12, <1>13, <1>14 DEF IndInv

\* AddJob keeps the invariant: the identifier is fresh, so no copy of the job and
\* no run of it exists anywhere.
LEMMA AddJobKeeps ==
  ASSUME IndInv, NEW r \in Requests, NEW command \in BOOLEAN, AddJob(r, command)
  PROVE  IndInv'
<1> USE DEF loop, offline
<1> DEFINE n == used + 1
           j == NewJob(r)
<1>1. /\ UNCHANGED <<now, up, running, due, calling, runs, last, boots, cli, acked>>
      /\ up /\ Save(jobs') /\ used < MaxJobs /\ used' = n
      /\ jobs' = With(jobs, n, j)
      /\ draft' = NoDraft \/ draft' = [id |-> n, job |-> j]
  BY DEF AddJob
<1>2. now \in 0 .. MaxTime /\ used \in Nat /\ n \in Ids /\ 0 \notin Ids
  BY <1>1, BoundsAssumption DEF IndInv, TypeOK, Ids
<1>3. j \in Job /\ j.enabled /\ j.next = ComputeNextRun(j.sched, now)
  BY <1>2, NewlyAdded
<1>4. /\ Recurring(j.sched) => j.next # Nil
      /\ j.sched.kind = "at" => j.next \in {Nil, j.sched.t}
  BY <1>2, <1>3, JobFields, NextRun
<1>5. \A i \in DOMAIN jobs \cup due : i \in Ids /\ i # n
  <2>1. \A i \in DOMAIN jobs \cup due : i \in Ids /\ i <= used
    BY DEF IndInv, FreshIds, TypeOK, IsStore
  <2>2. \A i \in Ids : i <= used => i # n
    BY <1>2, BoundsAssumption DEF Ids
  <2>3. QED
    BY <2>1, <2>2
<1>6. /\ DOMAIN jobs' = DOMAIN jobs \cup {n}
      /\ jobs'[n] = j
      /\ \A i \in DOMAIN jobs : jobs'[i] = jobs[i]
  BY <1>1, <1>5 DEF With
<1>7. runs[n] = 0 /\ n # calling
  BY <1>2, BoundsAssumption DEF IndInv, FreshIds, TypeOK
<1>8. IsStore(jobs') /\ Inherits(jobs', jobs)
  BY <1>1, <1>2, <1>3, <1>6 DEF IndInv, TypeOK, IsStore, Inherits
<1>9. OneTimeSane(jobs)'
  BY <1>1, <1>3, <1>4, <1>6, <1>7 DEF IndInv, OneTimeSane
<1>10. /\ IsStore(file'.jobs) /\ file'.whole \in BOOLEAN
       /\ OneTimeSane(file.jobs)' /\ OneTimeSane(cli.jobs)'
       /\ CopiesAgree'
       /\ \A i \in DOMAIN jobs' \cup DOMAIN file'.jobs \cup DOMAIN cli'.jobs : i <= used'
  BY <1>1, <1>8, <1>9, SaveKeeps
<1>11. /\ used' \in 0 .. MaxJobs
       /\ draft' = NoDraft \/ (draft'.id \in Ids /\ draft'.job \in Job)
  BY <1>1, <1>2, <1>3, BoundsAssumption
<1>12. TypeOK' /\ DownIsIdle'
  BY <1>1, <1>8, <1>10, <1>11 DEF IndInv, TypeOK, DownIsIdle
<1>13. NeverForgotten'
  BY <1>1, <1>4, <1>6 DEF IndInv, NeverForgotten
<1>14. FreshIds'
  BY <1>1, <1>2, <1>5, <1>10, BoundsAssumption DEF IndInv, FreshIds, TypeOK, Ids
<1>15. NotYetRun'
  BY <1>1, <1>5, <1>6, <1>7 DEF IndInv, NotYetRun
<1>16. DraftIsStale'
  <2>1. CASE draft' = NoDraft
    BY <2>1 DEF DraftIsStale
  <2>2. CASE draft' = [id |-> n, job |-> j]
    <3>1. draft'.id = n /\ draft'.job = j
      BY <2>2
    <3>2. QED
      BY <1>1, <1>2, <1>3, <1>4, <1>6, <1>7, <3>1 DEF DraftIsStale
  <2>3. QED
    BY <1>1, <2>1, <2>2
<1>17. QED
  BY <1>9, <1>10, <1>12, <1>13, <1>14, <1>15, <1>16 DEF IndInv

\* UpdateJob keeps the invariant although it writes back a copy that may be stale.
LEMMA UpdateJobKeeps ==
  ASSUME IndInv, UpdateJob
  PROVE  IndInv'
<1> USE DEF loop, offline
<1> DEFINE d == draft.id
           j == draft.job
<1>1. /\ UNCHANGED <<now, up, running, due, calling, runs, last, used, boots, cli, acked>>
      /\ draft # NoDraft /\ draft' = NoDraft
  BY DEF UpdateJob
<1>2. up /\ d \in Ids /\ j \in Job
  BY <1>1 DEF IndInv, TypeOK, DownIsIdle
<1>3. DraftIsStale'
  BY <1>1 DEF DraftIsStale
<1>4. CASE d \notin DOMAIN jobs
  <2>1. jobs' = jobs /\ file' = file
    BY <1>4 DEF UpdateJob
  <2>2. TypeOK' /\ DownIsIdle'
    BY <1>1, <1>2, <2>1 DEF IndInv, TypeOK, IsStore, DownIsIdle
  <2>3. OneTimeSane(jobs)' /\ OneTimeSane(file.jobs)' /\ OneTimeSane(cli.jobs)'
    BY <1>1, <2>1 DEF IndInv, OneTimeSane
  <2>4. CopiesAgree' /\ FreshIds' /\ NotYetRun' /\ NeverForgotten'
    BY <1>1, <2>1 DEF IndInv, CopiesAgree, SameSchedules, FreshIds, NotYetRun, NeverForgotten
  <2>5. QED
    BY <1>3, <2>2, <2>3, <2>4 DEF IndInv
<1>5. CASE d \in DOMAIN jobs
  <2>1. jobs' = With(jobs, d, j) /\ Save(jobs')
    BY <1>5 DEF UpdateJob
  <2>2. /\ DOMAIN jobs' = DOMAIN jobs
        /\ jobs'[d] = j
        /\ \A i \in DOMAIN jobs : i # d => jobs'[i] = jobs[i]
    BY <1>5, <2>1 DEF With
  <2>3. /\ Recurring(j.sched) => j.next # Nil
        /\ j.enabled
        /\ j.sched.kind = "at" => j.next \in {Nil, j.sched.t}
        /\ jobs[d].sched = j.sched
        /\ j.sched.kind = "at" /\ runs[d] > 0 => d = calling
    BY <1>1, <1>5 DEF IndInv, DraftIsStale
  <2>4. IsStore(jobs') /\ Inherits(jobs', jobs)
    BY <1>2, <2>2, <2>3 DEF IndInv, TypeOK, IsStore, Inherits
  <2>5. OneTimeSane(jobs)'
    BY <1>1, <1>5, <2>2, <2>3 DEF IndInv, OneTimeSane
  <2>6. /\ IsStore(file'.jobs) /\ file'.whole \in BOOLEAN
        /\ OneTimeSane(file.jobs)' /\ OneTimeSane(cli.jobs)'
        /\ CopiesAgree'
        /\ \A i \in DOMAIN jobs' \cup DOMAIN file'.jobs \cup DOMAIN cli'.jobs : i <= used'
    BY <1>1, <2>1, <2>4, <2>5, SaveKeeps
  <2>7. TypeOK' /\ DownIsIdle'
    BY <1>1, <1>2, <2>4, <2>6 DEF IndInv, TypeOK, DownIsIdle
  <2>8. NeverForgotten'
    BY <1>1, <2>2, <2>3 DEF IndInv, NeverForgotten
  <2>9. FreshIds'
    BY <1>1, <2>6 DEF IndInv, FreshIds
  <2>10. NotYetRun'
    BY <1>1, <1>5, <2>2, <2>3 DEF IndInv, NotYetRun
  <2>11. QED
    BY <1>3, <2>5, <2>6, <2>7, <2>8, <2>9, <2>10 DEF IndInv
<1>6. QED
  BY <1>4, <1>5

\* What one `tinyclaw cron` command may leave in the file: the jobs it had
\* loaded, at most one of them enabled or disabled, and at most one new job,
\* which is not a one-time job.
CliWrote ==
  /\ cli' = NoCli /\ file'.whole = TRUE
  /\ used' \in {used, used + 1} /\ used' <= MaxJobs
  /\ acked' \subseteq acked \cup {used'}
  /\ used' = used => acked' \subseteq acked
  /\ \A i \in DOMAIN file'.jobs :
       /\ i \in Ids /\ file'.jobs[i] \in Job
       /\ file'.jobs[i].sched.kind = "at" =>
            /\ i \in DOMAIN cli.jobs
            /\ \/ file'.jobs[i] = cli.jobs[i]
               \/ \E on \in BOOLEAN : file'.jobs[i] = Enabled(cli.jobs[i], on)
       /\ \/ i \in DOMAIN cli.jobs /\ file'.jobs[i].sched = cli.jobs[i].sched
          \/ i > used /\ i = used'

\* Every write of the command-line process is one that CliWrote describes.
LEMMA CliWrites ==
  ASSUME IndInv, CliStep, ~CliLoad
  PROVE  CliWrote
<1>0. now \in 0 .. MaxTime /\ used \in Nat
  BY BoundsAssumption DEF IndInv, TypeOK
<1> USE <1>0
<1>1. \A i \in DOMAIN cli.jobs : cli.jobs[i] \in Job /\ i \in Ids
  BY DEF IndInv, TypeOK, IsStore
<1>2. used <= MaxJobs
  BY BoundsAssumption DEF IndInv, TypeOK
<1>3. ASSUME NEW r \in Requests, CliAdd(r) PROVE CliWrote
  <2> DEFINE n == used + 1
  <2>1. /\ file'.jobs = With(cli.jobs, n, NewJob(r)) /\ file'.whole = TRUE
        /\ cli' = NoCli /\ used' = n /\ used < MaxJobs /\ acked' = acked \cup {n}
    BY <1>3 DEF CliAdd, Whole
  <2>2. NewJob(r) \in Job /\ NewJob(r).sched = r
    BY <1>3, NewlyAdded DEF NewJob, CliAdd
  <2>3. r.kind # "at"
    BY <1>3 DEF CliAdd
  <2>4. n \in Ids /\ n > used
    BY <2>1, BoundsAssumption DEF Ids
  <2>5. /\ DOMAIN file'.jobs = DOMAIN cli.jobs \cup {n}
        /\ \A i \in DOMAIN file'.jobs :
             file'.jobs[i] = IF i = n THEN NewJob(r) ELSE cli.jobs[i]
    BY <2>1 DEF With
  <2>6. used' \in {used, used + 1} /\ used' <= MaxJobs
    BY <2>1, BoundsAssumption
  <2>7. QED
    BY <1>1, <2>1, <2>2, <2>3, <2>4, <2>5, <2>6 DEF CliWrote
<1>4. ASSUME NEW id \in Ids, CliRemove(id) PROVE CliWrote
  <2>1. /\ file'.jobs = Without(cli.jobs, id) /\ file'.whole = TRUE
        /\ cli' = NoCli /\ used' = used /\ acked' \subseteq acked
    BY <1>4 DEF CliRemove, Whole
  <2>2. \A i \in DOMAIN file'.jobs : i \in DOMAIN cli.jobs /\ file'.jobs[i] = cli.jobs[i]
    BY <2>1 DEF Without
  <2>3. QED
    BY <1>1, <1>2, <2>1, <2>2 DEF CliWrote
<1>5. ASSUME NEW id \in Ids, NEW on \in BOOLEAN, CliEnable(id, on) PROVE CliWrote
  <2>1. /\ file'.jobs = [cli.jobs EXCEPT ![id] = Enabled(cli.jobs[id], on)]
        /\ file'.whole = TRUE /\ id \in DOMAIN cli.jobs
        /\ cli' = NoCli /\ used' = used /\ acked' = acked
    BY <1>5 DEF CliEnable, Whole
  <2>2. /\ DOMAIN file'.jobs = DOMAIN cli.jobs
        /\ \A i \in DOMAIN cli.jobs :
             file'.jobs[i] = IF i = id THEN Enabled(cli.jobs[i], on) ELSE cli.jobs[i]
    BY <2>1
  <2>3. Enabled(cli.jobs[id], on) \in Job /\ Enabled(cli.jobs[id], on).sched = cli.jobs[id].sched
    BY <1>1, <2>1, EnabledJob
  <2>4. QED
    BY <1>1, <1>2, <2>1, <2>2, <2>3 DEF CliWrote
<1>6. QED
  BY <1>3, <1>4, <1>5 DEF CliStep

\* The other process writes the file and nothing else.
LEMMA CliKeeps ==
  ASSUME IndInv, CliStep
  PROVE  IndInv'
<1> USE DEF loop
<1>1. UNCHANGED <<now, up, jobs, running, due, calling, runs, last, draft, boots>>
  BY DEF CliStep, CliLoad, CliAdd, CliRemove, CliEnable
<1>2. now \in 0 .. MaxTime /\ used \in Nat
  BY BoundsAssumption DEF IndInv, TypeOK
<1>3. CASE CliLoad
  <2>1. UNCHANGED <<file, used, acked>> /\ cli'.jobs = file.jobs /\ cli'.loaded = TRUE
    BY <1>3 DEF CliLoad
  <2>2. TypeOK' /\ DownIsIdle'
    BY <1>1, <2>1 DEF IndInv, TypeOK, IsStore, DownIsIdle
  <2>3. OneTimeSane(jobs)' /\ OneTimeSane(file.jobs)' /\ OneTimeSane(cli.jobs)'
    BY <1>1, <2>1 DEF IndInv, OneTimeSane
  <2>4. CopiesAgree' /\ FreshIds' /\ NotYetRun' /\ NeverForgotten' /\ DraftIsStale'
    BY <1>1, <2>1 DEF IndInv, CopiesAgree, SameSchedules, FreshIds, NotYetRun,
                      NeverForgotten, DraftIsStale
  <2>5. QED
    BY <2>2, <2>3, <2>4 DEF IndInv
<1>5. CASE ~CliLoad
  <2> USE <1>1, <1>2
  <2>0. CliWrote
    BY <1>5, CliWrites
  <2>1. used' \in {used, used + 1} /\ used' <= MaxJobs /\ file'.whole = TRUE /\ cli' = NoCli
    BY <2>0 DEF CliWrote
  <2>2. cli'.jobs = Empty /\ cli'.loaded = FALSE /\ DOMAIN Empty = {}
    BY <2>1, EmptyStore DEF NoCli
  <2>3. IsStore(file'.jobs) /\ IsStore(cli'.jobs)
    BY <2>0, <2>1, <2>2, EmptyStore DEF IsStore, CliWrote
  <2>4. /\ used' \in 0 .. MaxJobs /\ acked' \subseteq Ids
    BY <2>0, <2>1, BoundsAssumption DEF IndInv, TypeOK, Ids, CliWrote
  <2>5. TypeOK' /\ DownIsIdle'
    BY <2>1, <2>2, <2>3, <2>4 DEF IndInv, TypeOK, DownIsIdle
  <2>6. OneTimeSane(jobs)' /\ OneTimeSane(cli.jobs)'
    BY <2>2 DEF IndInv, OneTimeSane
  <2>7. OneTimeSane(file.jobs)'
    <3> DEFINE Good(j, i) == /\ j.next \in {Nil, j.sched.t}
                             /\ j.enabled \/ j.next = Nil
                             /\ runs[i] > 0 => j.sched.t <= now
                             /\ runs[i] <= 1
    <3>1. ASSUME NEW i \in DOMAIN file'.jobs, file'.jobs[i].sched.kind = "at"
          PROVE  Good(file'.jobs[i], i)
      <4>1. i \in DOMAIN cli.jobs /\ cli.jobs[i] \in Job
        BY <2>0, <2>1, <3>1 DEF IndInv, TypeOK, IsStore, CliWrote
      <4>2. CASE file'.jobs[i] = cli.jobs[i]
        BY <3>1, <4>1, <4>2 DEF IndInv, OneTimeSane
      <4>3. ASSUME NEW on \in BOOLEAN, file'.jobs[i] = Enabled(cli.jobs[i], on)
            PROVE  Good(file'.jobs[i], i)
        <5>1. /\ file'.jobs[i].sched = cli.jobs[i].sched /\ file'.jobs[i].enabled = on
              /\ file'.jobs[i].next = IF on THEN ComputeNextRun(cli.jobs[i].sched, now) ELSE Nil
          BY <4>1, <4>3, EnabledJob
        <5>2. ComputeNextRun(cli.jobs[i].sched, now) \in {Nil, cli.jobs[i].sched.t}
          BY <3>1, <4>1, <5>1, JobFields, NextRun
        <5>3. QED
          BY <3>1, <4>1, <5>1, <5>2 DEF IndInv, OneTimeSane
      <4>4. QED
        <5>1. \/ file'.jobs[i] = cli.jobs[i]
              \/ \E on \in BOOLEAN : file'.jobs[i] = Enabled(cli.jobs[i], on)
          BY <2>0, <3>1 DEF CliWrote
        <5>2. QED
          BY <4>2, <4>3, <5>1
    <3>2. QED
      BY <3>1 DEF OneTimeSane
  <2>8. CopiesAgree'
    <3>1. \A i \in DOMAIN jobs : i \in Nat /\ i <= used
      BY DEF IndInv, FreshIds, TypeOK, IsStore, Ids
    <3>2. SameSchedules(jobs, file'.jobs)
      BY <2>0, <2>1, <3>1 DEF IndInv, CopiesAgree, SameSchedules, CliWrote
    <3>3. QED
      BY <2>2, <3>2, EmptyStore DEF CopiesAgree, SameSchedules
  <2>9. FreshIds'
    <3>1. \A i \in DOMAIN jobs \cup DOMAIN cli.jobs \cup due : i \in Int /\ i <= used
      <4>1. \A i \in DOMAIN jobs \cup DOMAIN cli.jobs \cup due : i \in Ids /\ i <= used
        BY DEF IndInv, FreshIds, TypeOK, IsStore
      <4>2. QED
        BY <4>1, BoundsAssumption DEF Ids
    <3>2. used' \in Int /\ used <= used'
      BY <2>1
    <3>3. \A i \in DOMAIN jobs \cup due : i <= used'
      BY <3>1, <3>2
    <3>4. \A i \in DOMAIN file'.jobs : i <= used'
      BY <2>0, <3>1, <3>2 DEF CliWrote
    <3>5. \A i \in Ids : i > used' => i > used
      BY <3>2 DEF Ids
    <3>6. calling \in Int /\ calling <= used
      BY BoundsAssumption DEF IndInv, FreshIds, TypeOK, Ids
    <3>7. QED
      BY <2>2, <3>2, <3>3, <3>4, <3>5, <3>6 DEF IndInv, FreshIds
  <2>10. NotYetRun' /\ NeverForgotten'
    BY DEF IndInv, NotYetRun, NeverForgotten
  <2>11. DraftIsStale'
    BY <2>1, BoundsAssumption DEF IndInv, DraftIsStale, TypeOK, Ids
  <2>12. QED
    BY <2>5, <2>6, <2>7, <2>8, <2>9, <2>10, <2>11 DEF IndInv
<1>6. QED
  BY <1>3, <1>5

\* An empty store that nobody serves yet satisfies the invariant.
LEMMA InitInd == Init => IndInv
<1> SUFFICES ASSUME Init PROVE IndInv
  OBVIOUS
<1> USE DEF Init
<1>1. file.jobs = Empty /\ file.whole = TRUE /\ cli.jobs = Empty /\ cli.loaded = FALSE
  BY DEF Whole, NoCli
<1>2. TypeOK
  <2>1. /\ now \in 0 .. MaxTime /\ used \in 0 .. MaxJobs /\ boots \in Nat
        /\ runs \in [Ids -> Nat] /\ last \in [Ids -> Nat]
    BY BoundsAssumption
  <2>2. up \in BOOLEAN /\ running \in BOOLEAN /\ (running => up)
    OBVIOUS
  <2>3. IsStore(jobs) /\ IsStore(file.jobs) /\ IsStore(cli.jobs)
    BY <1>1, EmptyStore
  <2>4. QED
    BY <1>1, <2>1, <2>2, <2>3 DEF TypeOK
<1>3. OneTimeSane(jobs) /\ OneTimeSane(file.jobs) /\ OneTimeSane(cli.jobs) /\ CopiesAgree
  BY <1>1, EmptyStore DEF OneTimeSane, CopiesAgree
<1>4. FreshIds /\ NotYetRun /\ NeverForgotten
  BY <1>1, EmptyStore DEF FreshIds, NotYetRun, NeverForgotten
<1>5. DraftIsStale /\ DownIsIdle
  BY DEF DraftIsStale, DownIsIdle
<1>6. QED
  BY <1>2, <1>3, <1>4, <1>5 DEF IndInv

\* IndInv is an invariant of the scheduler, whatever its callers, the clock,
\* the disk and the command-line process do, in any order.
THEOREM CronInvariant == Spec => []IndInv
<1>1. ASSUME IndInv, [Next]_vars PROVE IndInv'
  <2> USE <1>1
  <2>1. CASE Tick \/ Stop \/ UNCHANGED vars
    BY <2>1, QuietKeeps
  <2>2. CASE Start
    BY <2>2, StartKeeps
  <2>3. CASE Crash
    BY <2>3, CrashKeeps
  <2>4. CASE LoopStep
    BY <2>4, CheckKeeps, FetchKeeps, SettleKeeps DEF LoopStep
  <2>5. CASE ToolStep
    BY <2>5, AddJobKeeps, UpdateJobKeeps, RemoveJobKeeps, EnableJobKeeps DEF ToolStep
  <2>6. CASE CliStep
    BY <2>6, CliKeeps
  <2>7. QED
    BY <2>1, <2>2, <2>3, <2>4, <2>5, <2>6 DEF Next
<1>2. QED
  BY <1>1, InitInd, PTL DEF Spec

\* A one-time job's callback never runs twice: not after a crash between the
\* callback and the removal, a torn file, a re-enable or a stale UpdateJob.
THEOREM OneTimeJobsRunOnce == Spec => []AtMostOnce
<1>1. IndInv => AtMostOnce
  BY DEF IndInv, OneTimeSane, AtMostOnce
<1>2. QED
  BY <1>1, CronInvariant, PTL

\* An enabled recurring job always has a next run or is in the loop's hands.
THEOREM JobsNeverForgotten == Spec => []NeverForgotten
<1>1. IndInv => NeverForgotten
  BY DEF IndInv
<1>2. QED
  BY <1>1, CronInvariant, PTL

-----------------------------------------------------------------------------
\* How far a job's next run is from its latest: an enabled recurring job that is
\* armed is armed for a whole period after it, unless the loop holds the job and
\* will arm it anew; and if the loop has collected it, that period is over. Of a
\* disabled job nothing is asked: EnableJob and Start arm it anew.
Spaced(i, j, D, c, n, r, l) ==
  j.sched.kind # "at" =>
    /\ j.enabled /\ j.next # Nil =>
         /\ Recurring(j.sched)
         /\ r[i] > 0 /\ i \notin D /\ i # c => j.next >= ComputeNextRun(j.sched, l[i])
    /\ i \in D =>
         /\ Recurring(j.sched)
         /\ r[i] > 0 => n >= ComputeNextRun(j.sched, l[i])

SpacedInv ==
  /\ draft = NoDraft
  /\ \A i \in Ids : last[i] <= now
  /\ \A i \in DOMAIN jobs : Spaced(i, jobs[i], due, calling, now, runs, last)

\* A next run computed later is no earlier, and only recurring jobs have one.
LEMMA NextRunGrows ==
  ASSUME NEW s \in Stored, s.kind # "at", NEW n \in 0 .. MaxTime, NEW l \in 0 .. n
  PROVE  /\ ComputeNextRun(s, n) # Nil => Recurring(s)
         /\ Recurring(s) =>
              /\ ComputeNextRun(s, l) \in Nat /\ ComputeNextRun(s, n) \in Nat
              /\ ComputeNextRun(s, l) <= ComputeNextRun(s, n)
<1>1. s.kind \in {"every", "cron"} /\ s.t \in Nat /\ n \in Nat /\ l \in Nat /\ l <= n /\ MaxTime \in Nat
  BY BoundsAssumption DEF Stored, Schedule, Kinds
<1>2. CASE s.kind = "every"
  BY <1>1, <1>2 DEF ComputeNextRun, Nil, Recurring
<1>3. CASE s.kind = "cron"
  <2>1. s \in Requests
    BY <1>3 DEF Stored
  <2>2. s.t > 0 => /\ NextTickAfter(s.t, n) \in Nat
                   /\ NextTickAfter(s.t, l) <= NextTickAfter(s.t, n)
    BY <2>1, <1>3, TickAssumption
  <2>3. l \in 0 .. MaxTime
    BY <1>1
  <2>4. s.t > 0 => NextTickAfter(s.t, l) \in Nat
    BY <2>1, <2>3, <1>3, TickAssumption
  <2> QED
    BY <1>1, <1>3, <2>2, <2>4 DEF ComputeNextRun, Nil, Recurring
<1> QED
  BY <1>1, <1>2, <1>3

\* The types of what SpacedInv is about.
LEMMA SpacedTypes ==
  ASSUME IndInv, SpacedInv
  PROVE  /\ now \in 0 .. MaxTime /\ now \in Nat
         /\ \A i \in DOMAIN jobs :
              /\ i \in Ids /\ i # 0 /\ jobs[i] \in Job /\ jobs[i].sched \in Stored
              /\ jobs[i].next \in Nat \cup {Nil}
         /\ \A i \in Ids : i # 0 /\ runs[i] \in Nat /\ last[i] \in 0 .. now
<1>1. now \in 0 .. MaxTime /\ now \in Nat /\ runs \in [Ids -> Nat] /\ last \in [Ids -> Nat]
  BY DEF IndInv, TypeOK
<1>2. \A i \in DOMAIN jobs : i \in Ids /\ jobs[i] \in Job
  BY DEF IndInv, TypeOK, IsStore
<1>3. \A i \in Ids : i # 0
  BY DEF Ids
<1> QED
  BY <1>1, <1>2, <1>3, JobFields DEF SpacedInv

\* A job that was just armed, or disarmed, is spaced, whoever is called.
LEMMA ArmedIsSpaced ==
  ASSUME IndInv, SpacedInv, NEW i \in DOMAIN jobs, NEW j \in Job, NEW c, j.sched = jobs[i].sched,
         j.next = ComputeNextRun(j.sched, now) \/ j.next = Nil
  PROVE  Spaced(i, j, due, c, now, runs, last)
<1>1. j.sched \in Stored /\ now \in 0 .. MaxTime /\ last[i] \in 0 .. now
  BY SpacedTypes
<1>2. Spaced(i, jobs[i], due, calling, now, runs, last)
  BY DEF SpacedInv
<1>3. ASSUME j.sched.kind # "at", j.next # Nil
      PROVE  Recurring(j.sched) /\ j.next >= ComputeNextRun(j.sched, last[i])
  BY <1>1, <1>3, NextRunGrows
<1> QED
  BY <1>2, <1>3 DEF Spaced

\* The steps of the clock, of the command line and those that leave the jobs and
\* the loop alone keep the jobs spaced.
LEMMA OthersSpaced ==
  ASSUME IndInv, SpacedInv, UNCHANGED <<jobs, due, calling, runs, last, draft>>, now' \in {now, now + 1}
  PROVE  SpacedInv'
<1>1. now \in Nat /\ now' \in Nat /\ now' >= now
  BY SpacedTypes
<1>2. \A i \in Ids : last'[i] <= now'
  BY <1>1, SpacedTypes DEF SpacedInv
<1>3. ASSUME NEW i \in DOMAIN jobs PROVE Spaced(i, jobs[i], due, calling, now', runs, last)
  <2>1. Spaced(i, jobs[i], due, calling, now, runs, last)
    BY DEF SpacedInv
  <2>2. jobs[i].sched \in Stored /\ now \in 0 .. MaxTime /\ last[i] \in 0 .. now
    BY SpacedTypes
  <2>3. jobs[i].sched.kind # "at" /\ Recurring(jobs[i].sched) => ComputeNextRun(jobs[i].sched, last[i]) \in Nat
    BY <2>2, NextRunGrows
  <2>4. /\ jobs[i].sched.kind # "at" /\ Recurring(jobs[i].sched) /\ now >= ComputeNextRun(jobs[i].sched, last[i]) =>
             now' >= ComputeNextRun(jobs[i].sched, last[i])
    BY <1>1, <2>3
  <2> QED
    BY <2>1, <2>4 DEF Spaced
<1> QED
  BY <1>2, <1>3 DEF SpacedInv

\* Start arms every enabled job anew, when nothing is in the loop's hands.
LEMMA StartSpaced ==
  ASSUME IndInv, SpacedInv, Start
  PROVE  SpacedInv'
<1>1. /\ ~up /\ jobs' = RecomputeNextRuns(file.jobs)
      /\ UNCHANGED <<now, due, calling, runs, last, draft>>
  BY DEF Start, loop
<1>2. due = {}
  BY <1>1 DEF IndInv, DownIsIdle
<1>3. \A i \in DOMAIN file.jobs : i \in Ids /\ file.jobs[i] \in Job
  BY DEF IndInv, TypeOK, IsStore
<1>4. now \in 0 .. MaxTime /\ \A i \in Ids : last[i] \in 0 .. now
  BY SpacedTypes
<1>5. ASSUME NEW i \in DOMAIN jobs' PROVE Spaced(i, jobs'[i], due, calling, now, runs, last)
  <2> DEFINE f == file.jobs[i]
             j == jobs'[i]
  <2>1. i \in DOMAIN file.jobs /\ j = IF f.enabled THEN Rescheduled(f) ELSE f
    BY <1>1 DEF RecomputeNextRuns
  <2>2. i \in Ids /\ f \in Job
    BY <1>3, <2>1
  <2>3. CASE ~f.enabled
    BY <1>2, <2>1, <2>3 DEF Spaced
  <2>4. CASE f.enabled
    <3>1. j.sched = f.sched /\ j.next = ComputeNextRun(f.sched, now)
      BY <1>4, <2>1, <2>2, <2>4, RescheduledJob
    <3>2. f.sched \in Stored
      BY <2>2, JobFields
    <3> HIDE DEF f, j
    <3>3. ASSUME j.sched.kind # "at", j.next # Nil
          PROVE  Recurring(j.sched) /\ j.next >= ComputeNextRun(j.sched, last[i])
      BY <1>4, <2>2, <3>1, <3>2, <3>3, NextRunGrows
    <3>4. Spaced(i, j, due, calling, now, runs, last)
      BY <1>2, <3>3 DEF Spaced
    <3> QED
      BY <3>4 DEF j
  <2> QED
    BY <2>3, <2>4
<1> QED
  BY <1>1, <1>5 DEF SpacedInv

\* checkJobs collects a job only when its next run has come, and disarms it.
LEMMA CheckSpaced ==
  ASSUME IndInv, SpacedInv, Check
  PROVE  SpacedInv'
<1> DEFINE D == {i \in DOMAIN jobs : IsDue(jobs[i])}
<1>1. /\ due = {} /\ calling = 0 /\ due' = D
      /\ UNCHANGED <<now, calling, runs, last, draft>>
      /\ DOMAIN jobs' = DOMAIN jobs
      /\ \A i \in DOMAIN jobs : jobs'[i] = IF i \in D THEN [jobs[i] EXCEPT !.next = Nil] ELSE jobs[i]
  BY DEF Check
<1>2. ASSUME NEW i \in DOMAIN jobs PROVE Spaced(i, jobs'[i], due', calling, now, runs, last)
  <2> DEFINE j == jobs[i]
             k == jobs'[i]
  <2>1. i # 0 /\ j \in Job /\ j.next \in Nat \cup {Nil} /\ now \in Nat /\ runs[i] \in Nat
        /\ j.sched \in Stored /\ last[i] \in 0 .. now /\ now \in 0 .. MaxTime
    BY SpacedTypes
  <2>2. Spaced(i, j, due, calling, now, runs, last)
    BY DEF SpacedInv
  <2>3. CASE i \notin D
    <3>1. k = j /\ i \notin due'
      BY <1>1, <2>3
    <3> HIDE DEF j, k, D
    <3>2. Spaced(i, k, due', calling, now, runs, last)
      BY <1>1, <2>2, <3>1 DEF Spaced
    <3> QED
      BY <3>2 DEF k
  <2>4. CASE i \in D
    <3>1. k = [j EXCEPT !.next = Nil] /\ j.enabled /\ j.next # Nil /\ j.next <= now
      BY <1>1, <2>4 DEF IsDue
    <3>2. k.sched = j.sched /\ k.next = Nil
      BY <2>1, <3>1 DEF Job
    <3>3. j.sched.kind # "at" => Recurring(j.sched) /\ (runs[i] > 0 => j.next >= ComputeNextRun(j.sched, last[i]))
      BY <1>1, <2>1, <2>2, <3>1 DEF Spaced
    <3>4. j.sched.kind # "at" /\ Recurring(j.sched) => ComputeNextRun(j.sched, last[i]) \in Nat
      BY <2>1, NextRunGrows
    <3>5. j.sched.kind # "at" => Recurring(j.sched) /\ (runs[i] > 0 => now >= ComputeNextRun(j.sched, last[i]))
      BY <2>1, <3>1, <3>3, <3>4
    <3> HIDE DEF j, k, D
    <3>6. Spaced(i, k, due', calling, now, runs, last)
      BY <3>2, <3>5 DEF Spaced
    <3> QED
      BY <3>6 DEF k
  <2> QED
    BY <2>3, <2>4
<1> QED
  BY <1>1, <1>2 DEF SpacedInv

\* A job that is called is in the loop's hands until it is armed anew.
LEMMA FetchSpaced ==
  ASSUME IndInv, SpacedInv, NEW id \in Ids, Fetch(id)
  PROVE  SpacedInv'
<1>1. /\ calling = 0 /\ id \in due /\ due' = due \ {id}
      /\ UNCHANGED <<now, jobs, draft>>
  BY DEF Fetch
<1>2. runs \in [Ids -> Nat] /\ last \in [Ids -> Nat] /\ now \in Nat
  BY DEF IndInv, TypeOK
<1>3. CASE id \in DOMAIN jobs
  <2>1. calling' = id /\ runs' = [runs EXCEPT ![id] = @ + 1] /\ last' = [last EXCEPT ![id] = now]
    BY <1>3 DEF Fetch
  <2>2. \A i \in Ids : last'[i] <= now
    BY <1>2, <2>1, SpacedTypes
  <2>3. ASSUME NEW i \in DOMAIN jobs PROVE Spaced(i, jobs[i], due', calling', now, runs', last')
    <3>1. Spaced(i, jobs[i], due, calling, now, runs, last)
      BY DEF SpacedInv
    <3>2. i \in Ids /\ i # 0
      BY SpacedTypes
    <3>3. CASE i = id
      BY <1>1, <2>1, <3>1, <3>3 DEF Spaced
    <3>4. CASE i # id
      <4>1. runs'[i] = runs[i] /\ last'[i] = last[i] /\ i # calling /\ (i \in due' <=> i \in due)
        BY <1>1, <1>2, <2>1, <3>2, <3>4
      <4> QED
        BY <3>1, <4>1 DEF Spaced
    <3> QED
      BY <3>3, <3>4
  <2> QED
    BY <1>1, <2>2, <2>3 DEF SpacedInv
<1>4. CASE id \notin DOMAIN jobs
  <2>1. UNCHANGED <<calling, runs, last>>
    BY <1>4 DEF Fetch
  <2>2. ASSUME NEW i \in DOMAIN jobs PROVE Spaced(i, jobs[i], due', calling, now, runs, last)
    <3>1. Spaced(i, jobs[i], due, calling, now, runs, last) /\ (i \in due' <=> i \in due)
      BY <1>1, <1>4 DEF SpacedInv
    <3> QED
      BY <3>1 DEF Spaced
  <2> QED
    BY <1>1, <2>1, <2>2 DEF SpacedInv
<1> QED
  BY <1>3, <1>4

\* After the callback the job is armed from the present, which is no earlier than
\* the beginning of its run.
LEMMA SettleSpaced ==
  ASSUME IndInv, SpacedInv, Settle
  PROVE  SpacedInv'
<1>1. /\ calling # 0 /\ calling' = 0
      /\ UNCHANGED <<now, due, runs, last, draft>>
  BY DEF Settle
<1>2. now \in 0 .. MaxTime
  BY SpacedTypes
<1>3. \A i \in DOMAIN jobs' :
        /\ i \in DOMAIN jobs
        /\ \/ i # calling /\ jobs'[i] = jobs[i]
           \/ jobs'[i] = Rescheduled(jobs[i])
  <2>1. CASE calling \notin DOMAIN jobs
    BY <2>1 DEF Settle
  <2>2. CASE calling \in DOMAIN jobs /\ jobs[calling].sched.kind = "at"
    BY <2>2 DEF Settle, Without
  <2>3. CASE calling \in DOMAIN jobs /\ jobs[calling].sched.kind # "at"
    BY <2>3 DEF Settle
  <2> QED
    BY <2>1, <2>2, <2>3
<1>4. ASSUME NEW i \in DOMAIN jobs' PROVE Spaced(i, jobs'[i], due, 0, now, runs, last)
  <2>1. i \in DOMAIN jobs /\ jobs[i] \in Job /\ i # 0
    BY <1>3, SpacedTypes
  <2>2. CASE i # calling /\ jobs'[i] = jobs[i]
    <3>1. Spaced(i, jobs[i], due, calling, now, runs, last)
      BY <2>1 DEF SpacedInv
    <3> QED
      BY <2>1, <2>2, <3>1 DEF Spaced
  <2>3. CASE jobs'[i] = Rescheduled(jobs[i])
    <3> DEFINE j == Rescheduled(jobs[i])
    <3>1. j \in Job /\ j.sched = jobs[i].sched /\ j.next = ComputeNextRun(j.sched, now)
      BY <1>2, <2>1, RescheduledJob
    <3> HIDE DEF j
    <3>2. Spaced(i, j, due, 0, now, runs, last)
      BY <2>1, <3>1, ArmedIsSpaced
    <3> QED
      BY <2>3, <3>2 DEF j
  <2> QED
    BY <1>3, <2>2, <2>3
<1> QED
  BY <1>1, <1>4 DEF SpacedInv

\* A new job has not run, and is nowhere in the loop.
LEMMA AddJobSpaced ==
  ASSUME IndInv, SpacedInv, NEW r \in Requests, NEW command \in BOOLEAN, AddJob(r, command), "update" \notin Ops
  PROVE  SpacedInv'
<1>0. used \in 0 .. MaxJobs /\ MaxJobs \in Nat
  BY BoundsAssumption DEF IndInv, TypeOK
<1>1. /\ jobs' = With(jobs, used + 1, NewJob(r)) /\ draft' = NoDraft
      /\ UNCHANGED <<now, due, calling, runs, last>> /\ used + 1 \in Ids
  <2>1. used < MaxJobs /\ used' = used + 1 /\ ~command
    BY DEF AddJob
  <2>2. used + 1 \in Ids
    BY <1>0, <2>1 DEF Ids
  <2>3. UNCHANGED <<now, due, calling, runs, last>>
    BY DEF AddJob, loop
  <2>4. draft' = NoDraft
    BY <2>1 DEF AddJob
  <2> QED
    BY <2>1, <2>2, <2>3, <2>4 DEF AddJob
<1>2. runs[used + 1] = 0 /\ used + 1 \notin due
  BY <1>0, <1>1 DEF IndInv, FreshIds, TypeOK, Ids
<1>3. now \in 0 .. MaxTime
  BY SpacedTypes
<1>4. ASSUME NEW i \in DOMAIN jobs' PROVE Spaced(i, jobs'[i], due, calling, now, runs, last)
  <2>1. CASE i = used + 1
    <3> DEFINE j == NewJob(r)
    <3>1. jobs'[i] = j
      BY <1>1, <2>1 DEF With
    <3>2. j \in Job /\ j.next = ComputeNextRun(j.sched, now)
      BY <1>3, NewlyAdded
    <3>3. j.sched \in Stored /\ now \in 0 .. now
      BY <1>3, <3>2, JobFields
    <3> HIDE DEF j
    <3>4. j.sched.kind # "at" /\ j.next # Nil => Recurring(j.sched)
      BY <1>3, <3>2, <3>3, NextRunGrows
    <3> QED
      BY <1>2, <2>1, <3>1, <3>4 DEF Spaced
  <2>2. CASE i # used + 1
    <3>1. i \in DOMAIN jobs /\ jobs'[i] = jobs[i]
      BY <1>1, <2>2 DEF With
    <3> QED
      BY <3>1 DEF SpacedInv
  <2> QED
    BY <2>1, <2>2
<1> QED
  BY <1>1, <1>4 DEF SpacedInv

\* Removing a job, and enabling or disabling one, which arms or disarms it.
LEMMA ToolSpaced ==
  ASSUME IndInv, SpacedInv, NEW id \in Ids, NEW on \in BOOLEAN, RemoveJob(id) \/ EnableJob(id, on)
  PROVE  SpacedInv'
<1>1. UNCHANGED <<now, due, calling, runs, last, draft>>
  BY DEF RemoveJob, EnableJob, loop
<1>2. now \in 0 .. MaxTime
  BY SpacedTypes
<1>3. \A i \in DOMAIN jobs' :
        i \in DOMAIN jobs /\ (jobs'[i] = jobs[i] \/ jobs'[i] = Enabled(jobs[i], on))
  <2>1. CASE RemoveJob(id)
    BY <2>1 DEF RemoveJob, Without
  <2>2. CASE EnableJob(id, on)
    BY <2>2 DEF EnableJob
  <2> QED
    BY <2>1, <2>2
<1>4. ASSUME NEW i \in DOMAIN jobs' PROVE Spaced(i, jobs'[i], due, calling, now, runs, last)
  <2>1. i \in DOMAIN jobs /\ jobs[i] \in Job
    BY <1>3, SpacedTypes
  <2>2. CASE jobs'[i] = jobs[i]
    BY <2>1, <2>2 DEF SpacedInv
  <2>3. CASE jobs'[i] = Enabled(jobs[i], on)
    <3> DEFINE j == Enabled(jobs[i], on)
    <3>1. j \in Job /\ j.sched = jobs[i].sched /\ (j.next = ComputeNextRun(j.sched, now) \/ j.next = Nil)
      BY <1>2, <2>1, EnabledJob
    <3> HIDE DEF j
    <3>2. Spaced(i, j, due, calling, now, runs, last)
      BY <2>1, <3>1, ArmedIsSpaced
    <3> QED
      BY <2>3, <3>2 DEF j
  <2> QED
    BY <1>3, <2>2, <2>3
<1> QED
  BY <1>1, <1>4 DEF SpacedInv

\* Without the cron tool's UpdateJob the jobs stay spaced.
LEMMA NextSpaced ==
  ASSUME IndInv, SpacedInv, [Next]_vars, "update" \notin Ops
  PROVE  SpacedInv'
<1>1. CASE Tick \/ Stop \/ CliStep \/ UNCHANGED vars
  <2>1. UNCHANGED <<jobs, due, calling, runs, last, draft>> /\ now' \in {now, now + 1}
    BY <1>1 DEF Tick, Stop, CliStep, CliLoad, CliAdd, CliRemove, CliEnable, vars, loop
  <2> QED
    BY <2>1, OthersSpaced
<1>2. CASE Start
  BY <1>2, StartSpaced
<1>3. CASE Crash
  <2>1. jobs' = Empty /\ draft' = NoDraft /\ UNCHANGED <<now, last>>
    BY <1>3 DEF Crash
  <2> QED
    BY <2>1, EmptyStore DEF SpacedInv
<1>4. CASE LoopStep
  BY <1>4, CheckSpaced, FetchSpaced, SettleSpaced DEF LoopStep
<1>5. CASE ToolStep
  <2>1. ~UpdateJob
    BY DEF UpdateJob, SpacedInv
  <2> QED
    BY <1>5, <2>1, AddJobSpaced, ToolSpaced DEF ToolStep
<1> QED
  BY <1>1, <1>2, <1>3, <1>4, <1>5 DEF Next

\* A run is at least a period, or a tick, after the one before.
LEMMA StepSpaced ==
  ASSUME IndInv, SpacedInv, [Next]_vars, NEW id \in DOMAIN jobs, runs'[id] > runs[id], runs[id] > 0
  PROVE  CASE jobs[id].sched.kind = "every" -> now - last[id] >= jobs[id].sched.t
           [] jobs[id].sched.kind = "cron" -> now >= NextTickAfter(jobs[id].sched.t, last[id])
           [] OTHER -> TRUE
<1> DEFINE s == jobs[id].sched
<1>1. /\ id \in Ids /\ s \in Stored /\ runs[id] \in Nat /\ last[id] \in 0 .. now /\ now \in Nat /\ now \in 0 .. MaxTime
      /\ jobs[id] \in Job
  BY SpacedTypes
<1>2. id \in due
  <2>1. runs' # runs
    BY <1>1
  <2>2. PICK i \in Ids : Fetch(i)
    BY <2>1 DEF Next, Tick, Start, Stop, Crash, LoopStep, ToolStep, CliStep, Check, Settle, AddJob, UpdateJob, RemoveJob,
         EnableJob, CliLoad, CliAdd, CliRemove, CliEnable, vars, loop
  <2>3. runs \in [Ids -> Nat]
    BY DEF IndInv, TypeOK
  <2>4. i = id
    BY <1>1, <2>2, <2>3 DEF Fetch
  <2> QED
    BY <2>2, <2>4 DEF Fetch
<1>3. s.kind # "at" => Recurring(s) /\ now >= ComputeNextRun(s, last[id])
  BY <1>2 DEF SpacedInv, Spaced
<1>4. s.t \in Nat /\ s.kind \in Kinds
  BY <1>1, JobFields
<1> HIDE DEF s
<1>5. CASE s.kind = "every"
  <2>1. now >= last[id] + s.t
    BY <1>3, <1>5 DEF ComputeNextRun, Recurring
  <2>2. now - last[id] >= s.t
    BY <1>1, <1>4, <2>1
  <2> QED
    BY <1>5, <2>2 DEF s
<1>6. CASE s.kind = "cron"
  <2>1. now >= NextTickAfter(s.t, last[id])
    BY <1>3, <1>6 DEF ComputeNextRun, Recurring
  <2> QED
    BY <1>6, <2>1 DEF s
<1>7. CASE s.kind = "at"
  BY <1>7 DEF s
<1> QED
  BY <1>4, <1>5, <1>6, <1>7 DEF Kinds

\* Two runs of a recurring job are a whole period apart, or belong to different
\* ticks: clearing the next run before the unlock, arming after the callback and
\* Start's recomputing see to it, through crashes, lost saves, re-enabling in the
\* middle of a run and the command line. UpdateJob, which writes back a copy that
\* may be stale, is left out: with it the property fails.
THEOREM RunsSpaced ==
  ASSUME "update" \notin Ops
  PROVE  Spec => RunsAreSpaced
<1>1. Init => SpacedInv
  <2> SUFFICES ASSUME Init PROVE SpacedInv
    OBVIOUS
  <2>1. now = 0 /\ jobs = Empty /\ draft = NoDraft /\ last = [i \in Ids |-> 0]
    BY DEF Init
  <2> QED
    BY <2>1, EmptyStore DEF SpacedInv
<1>2. IndInv /\ SpacedInv /\ [Next]_vars => SpacedInv'
  BY NextSpaced
<1>3. IndInv /\ SpacedInv /\ [Next]_vars =>
        [\A id \in DOMAIN jobs :
           runs'[id] > runs[id] /\ runs[id] > 0 =>
             CASE jobs[id].sched.kind = "every" -> now - last[id] >= jobs[id].sched.t
               [] jobs[id].sched.kind = "cron" -> now >= NextTickAfter(jobs[id].sched.t, last[id])
               [] OTHER -> TRUE]_vars
  BY StepSpaced
<1> QED
  BY <1>1, <1>2, <1>3, CronInvariant, PTL DEF Spec, RunsAreSpaced

-----------------------------------------------------------------------------
\* Installing skills.

\* Who has begun to look at or change the directory.
Active(a) == iPc[a] \notin {"idle", "lock"}

\* The files are a skill of one writer, as InstalledIsWhole asks for, or there
\* are none.
WholeBy(w) ==
  /\ DOMAIN files = Files \/ (w = "github" /\ DOMAIN files = {Manifest})
  /\ \A f \in DOMAIN files : files[f].by = w
  /\ w \in Actors /\ flag = "blocked" => ~files[Manifest].checked

Sound == DOMAIN files = {} \/ \E w \in Actors \cup {"github", "builtin"} : WholeBy(w)

\* What stands in the directory while the actor a, alone, is at its step.
WorkOf(a) ==
  /\ iPc[a] = "check" => Sound
  /\ iPc[a] \in {"meta", "download", "write"} => DOMAIN files = {}
  /\ iPc[a] \in {"download", "extract"} => job[a].blocked = (job[a].checked /\ flag = "blocked")
  /\ iPc[a] = "extract" =>
       /\ DOMAIN files = Files \ job[a].left
       /\ \A f \in DOMAIN files : files[f] = [by |-> a, checked |-> job[a].checked]
  /\ iPc[a] = "copy" =>
       /\ made /\ Files \ job[a].left \subseteq DOMAIN files /\ DOMAIN files \subseteq Files
       /\ \A f \in Files \ job[a].left : files[f] = [by |-> "builtin", checked |-> FALSE]

InstallTypes ==
  /\ iPc \in [Actors -> {"idle", "lock", "check", "meta", "download", "extract", "failed", "write", "copy"}]
  /\ job \in [Actors -> [kind : {"none", "registry", "github", "remove", "builtin"}, force : BOOLEAN,
                         blocked : BOOLEAN, checked : BOOLEAN, left : SUBSET Files]]
  /\ made \in BOOLEAN /\ disturbed \in BOOLEAN
  /\ files \in [DOMAIN files -> [by : Actors \cup {"github", "builtin"}, checked : BOOLEAN]]
  /\ flag \in {"clean", "suspicious", "blocked"}

\* Whoever of the gateway is at work has the mutex.
ToolMutex == \A a \in Tools : Active(a) => mu = a

\* Unless something was disturbed one is at work at a time; the directory is then
\* as that one left it, and with nobody at work it is sound.
Undisturbed ==
  ~disturbed =>
    /\ \A a, b \in Actors : Active(a) /\ Active(b) => a = b
    /\ ~made => DOMAIN files = {}
    /\ \A a \in Actors : WorkOf(a)
    /\ (\A a \in Actors : ~Active(a)) => Sound

InstallInv == InstallTypes /\ ToolMutex /\ Undisturbed

\* Actors differ from the names of the other writers.
LEMMA WriterNames ==
  /\ Cli \in Actors /\ Tools \subseteq Actors /\ Cli \notin Tools
  /\ \A a \in Actors : a # "nobody" /\ a # "github" /\ a # "builtin"
BY InstallAssumption DEF Actors

\* With the directory empty or untouched, and nobody new at work.
LEMMA WorkEnds ==
  ASSUME InstallInv, NEW a \in Actors, Active(a), Done(a), InstallTypes', UNCHANGED flag,
         ~disturbed' => ~disturbed /\ Sound' /\ (~made' => DOMAIN files' = {})
  PROVE  InstallInv'
<1>1. /\ iPc' = [iPc EXCEPT ![a] = "idle"]
      /\ iPc'[a] = "idle" /\ \A b \in Actors \ {a} : iPc'[b] = iPc[b]
  BY DEF Done, Goto, InstallInv, InstallTypes
<1>2. ToolMutex'
  <2> SUFFICES ASSUME NEW b \in Tools, Active(b)' PROVE mu' = b
    BY DEF ToolMutex
  <2>1. b # a /\ Active(b)
    BY <1>1, WriterNames DEF Active
  <2>2. mu = b
    BY <2>1 DEF InstallInv, ToolMutex
  <2> QED
    BY <2>1, <2>2 DEF Done
<1>3. ASSUME ~disturbed' PROVE \A b \in Actors : ~Active(b)'
  BY <1>1, <1>3 DEF InstallInv, Undisturbed, Active
<1>4. ASSUME ~disturbed', NEW b \in Actors PROVE WorkOf(b)'
  BY <1>3, <1>4 DEF Active, WorkOf
<1> QED
  BY <1>2, <1>3, <1>4 DEF InstallInv, Undisturbed

\* One that is at work goes on: what holds at its new step is all that is to be
\* shown.
LEMMA WorkGoesOn ==
  ASSUME InstallInv, NEW a \in Actors, Active(a), Active(a)', UNCHANGED <<mu, flag>>, InstallTypes',
         \A b \in Actors \ {a} : iPc'[b] = iPc[b],
         ~disturbed' => ~disturbed /\ WorkOf(a)' /\ (~made' => DOMAIN files' = {})
  PROVE  InstallInv'
<1>1. ToolMutex'
  BY WriterNames DEF InstallInv, ToolMutex, Active
<1>2. ASSUME ~disturbed', NEW b \in Actors \ {a} PROVE ~Active(b)' /\ WorkOf(b)'
  BY <1>2 DEF InstallInv, Undisturbed, Active, WorkOf
<1> QED
  BY <1>1, <1>2 DEF InstallInv, Undisturbed

\* An operation begins.
LEMMA BeginInv ==
  ASSUME InstallInv, NEW a \in Actors, NEW k \in {"registry", "github", "remove", "builtin"},
         NEW f \in BOOLEAN, Begin(a, k, f)
  PROVE  InstallInv'
<1>0. UNCHANGED <<made, files, flag, mu>>
  BY DEF Begin
<1>1. InstallTypes'
  BY DEF InstallInv, InstallTypes, Begin, Goto, NoJob, Busy
<1>2. /\ iPc[a] = "idle" /\ iPc'[a] = (IF a \in Tools THEN "lock" ELSE "check")
      /\ \A b \in Actors \ {a} : iPc'[b] = iPc[b] /\ job'[b] = job[b]
  BY DEF InstallInv, InstallTypes, Begin, Goto, At
<1>3. a \notin Tools => a = Cli
  BY DEF Actors
<1>4. ToolMutex'
  BY <1>0, <1>2, WriterNames DEF InstallInv, ToolMutex, Active
<1>5. Sound' = Sound
  BY <1>0 DEF Sound, WholeBy
<1>6. ASSUME ~disturbed', NEW b \in Actors \ {a} PROVE WorkOf(b)'
  <2>1. WorkOf(b)
    BY <1>6 DEF InstallInv, Undisturbed, Begin
  <2> QED
    BY <1>0, <1>2, <1>5, <2>1 DEF WorkOf
<1>7. ASSUME ~disturbed', a \in Tools PROVE Undisturbed'
  <2>1. ~disturbed /\ ~Active(a)' /\ ~Active(a) /\ \A b \in Actors \ {a} : Active(b)' = Active(b)
    BY <1>2, <1>7 DEF Begin, Active
  <2>2. WorkOf(a)'
    BY <1>2, <1>7 DEF WorkOf
  <2> QED
    BY <1>0, <1>5, <1>6, <1>7, <2>1, <2>2 DEF InstallInv, Undisturbed
<1>8. ASSUME ~disturbed', a \notin Tools PROVE Undisturbed'
  <2>1. ~disturbed /\ \A b \in Actors \ {a} : ~Active(b) /\ ~Active(b)'
    BY <1>2, <1>3, <1>8 DEF Begin, Active, Busy
  <2>2. \A b \in Actors : ~Active(b)
    BY <1>2, <2>1 DEF Active
  <2>3. Sound
    BY <2>1, <2>2 DEF InstallInv, Undisturbed
  <2>4. WorkOf(a)'
    BY <1>2, <1>5, <1>8, <2>3 DEF WorkOf
  <2> QED
    BY <1>0, <1>2, <1>5, <1>6, <1>8, <2>1, <2>3, <2>4 DEF InstallInv, Undisturbed
<1> QED
  BY <1>1, <1>4, <1>7, <1>8 DEF InstallInv, Undisturbed

\* A goroutine of the gateway gets the mutex.
LEMMA LockInv == ASSUME InstallInv, NEW a \in Tools, Lock(a) PROVE InstallInv'
<1>0. UNCHANGED <<made, files, flag, job>> /\ a \in Actors
  BY WriterNames DEF Lock
<1>1. InstallTypes'
  BY <1>0 DEF InstallInv, InstallTypes, Lock, Goto, At
<1>2. /\ iPc[a] = "lock" /\ iPc'[a] = "check" /\ \A b \in Actors \ {a} : iPc'[b] = iPc[b]
      /\ mu = "nobody" /\ mu' = a
  BY <1>0 DEF InstallInv, InstallTypes, Lock, Goto, At, Nobody
<1>3. \A b \in Tools : ~Active(b)
  BY <1>2, WriterNames DEF InstallInv, ToolMutex
<1>4. ToolMutex'
  BY <1>2, <1>3, WriterNames DEF ToolMutex, Active
<1>5. Sound' = Sound
  BY <1>0 DEF Sound, WholeBy
<1>6. ASSUME ~disturbed' PROVE Undisturbed'
  <2>1. ~disturbed /\ ~Active(Cli)
    BY <1>6 DEF Lock, At, Active
  <2>2. \A b \in Actors : ~Active(b)
    BY <1>3, <2>1 DEF Actors
  <2>3. Sound
    BY <2>1, <2>2 DEF InstallInv, Undisturbed
  <2>4. \A b \in Actors \ {a} : ~Active(b)' /\ WorkOf(b)'
    BY <1>0, <1>2, <1>5, <2>2, <2>3 DEF Active, WorkOf
  <2>5. WorkOf(a)'
    BY <1>2, <1>5, <2>3 DEF WorkOf
  <2> QED
    BY <1>0, <1>2, <1>5, <2>1, <2>3, <2>4, <2>5 DEF InstallInv, Undisturbed, Active
<1> QED
  BY <1>1, <1>4, <1>6 DEF InstallInv, Undisturbed

\* The directory is left as it is at the end.
LEMMA EndsUntouched ==
  ASSUME InstallInv, NEW a \in Actors, iPc[a] \in {"check", "meta", "copy"}, Done(a), Keep,
         iPc[a] = "copy" => job[a].left = {}
  PROVE  InstallInv'
<1>0. UNCHANGED <<made, files, flag, disturbed>>
  BY DEF Keep
<1>1. InstallTypes'
  BY <1>0 DEF InstallInv, InstallTypes, Done, Goto, NoJob
<1>2. Active(a)
  BY DEF Active
<1>3. ASSUME ~disturbed PROVE Sound
  <2>1. WorkOf(a)
    BY <1>3 DEF InstallInv, Undisturbed
  <2>2. CASE iPc[a] = "copy"
    <3>1. DOMAIN files = Files /\ \A f \in Files : files[f] = [by |-> "builtin", checked |-> FALSE]
      BY <2>1, <2>2 DEF WorkOf
    <3>2. WholeBy("builtin")
      BY <3>1, WriterNames DEF WholeBy
    <3> QED
      BY <3>2 DEF Sound
  <2>3. CASE iPc[a] = "check"
    BY <2>1, <2>3 DEF WorkOf
  <2>4. CASE iPc[a] = "meta"
    BY <2>1, <2>4 DEF WorkOf, Sound
  <2> QED
    BY <2>2, <2>3, <2>4
<1>4. Sound' = Sound
  BY <1>0 DEF Sound, WholeBy
<1>5. ~disturbed => (~made => DOMAIN files = {})
  BY DEF InstallInv, Undisturbed
<1> QED
  BY <1>0, <1>1, <1>2, <1>3, <1>4, <1>5, WorkEnds

\* The directory is removed at the end.
LEMMA EndsRemoved ==
  ASSUME InstallInv, NEW a \in Actors, Active(a), Done(a), RemoveAll, UNCHANGED <<flag, disturbed>>
  PROVE  InstallInv'
<1>1. files' \in [{} -> [by : Actors \cup {"github", "builtin"}, checked : BOOLEAN]] /\ DOMAIN files' = {}
  BY DEF RemoveAll, NoFiles
<1>2. InstallTypes'
  BY <1>1 DEF InstallInv, InstallTypes, Done, Goto, NoJob, RemoveAll
<1> QED
  BY <1>1, <1>2, WorkEnds DEF Sound

\* os.Stat and the removal of a skill that is to be replaced.
LEMMA CheckTargetInv == ASSUME InstallInv, NEW a \in Actors, CheckTarget(a) PROVE InstallInv'
<1>1. /\ iPc[a] = "check" /\ iPc'[a] = "meta" /\ \A b \in Actors \ {a} : iPc'[b] = iPc[b]
      /\ UNCHANGED <<flag, mu, job, disturbed>>
  BY DEF InstallInv, InstallTypes, CheckTarget, Goto, At
<1>2. Active(a) /\ Active(a)'
  BY <1>1 DEF Active
<1>3. CASE job[a].force
  <2>1. made' = FALSE /\ files' \in [{} -> [by : Actors \cup {"github", "builtin"}, checked : BOOLEAN]] /\ DOMAIN files' = {}
    BY <1>3 DEF CheckTarget, RemoveAll, NoFiles
  <2>2. InstallTypes'
    BY <1>1, <2>1 DEF InstallInv, InstallTypes, CheckTarget, Goto
  <2>3. WorkOf(a)'
    BY <1>1, <2>1 DEF WorkOf
  <2> QED
    BY <1>1, <1>2, <2>1, <2>2, <2>3, WorkGoesOn
<1>4. CASE ~job[a].force
  <2>1. UNCHANGED <<made, files>> /\ ~made
    BY <1>4 DEF CheckTarget
  <2>2. InstallTypes'
    BY <1>1, <2>1 DEF InstallInv, InstallTypes, CheckTarget, Goto
  <2>3. ~disturbed => DOMAIN files' = {}
    BY <2>1 DEF InstallInv, Undisturbed
  <2>4. ~disturbed => WorkOf(a)'
    BY <1>1, <2>3 DEF WorkOf
  <2> QED
    BY <1>1, <1>2, <2>1, <2>2, <2>3, <2>4, WorkGoesOn
<1> QED
  BY <1>3, <1>4

\* What the registry knows is asked.
LEMMA GetSkillMetaInv == ASSUME InstallInv, NEW a \in Actors, GetSkillMeta(a) PROVE InstallInv'
<1>1. PICK known \in BOOLEAN :
        job' = [job EXCEPT ![a].checked = known, ![a].blocked = known /\ flag = "blocked"]
  BY DEF GetSkillMeta
<1>2. /\ iPc[a] = "meta" /\ iPc'[a] = "download" /\ \A b \in Actors \ {a} : iPc'[b] = iPc[b]
      /\ UNCHANGED <<made, files, flag, mu, disturbed>>
      /\ job'[a].checked = known /\ job'[a].blocked = (known /\ flag = "blocked")
  BY <1>1 DEF InstallInv, InstallTypes, GetSkillMeta, Goto, At, Keep
<1>3. InstallTypes'
  <2> DEFINE no == known /\ flag = "blocked"
  <2>1. no \in BOOLEAN /\ job' = [job EXCEPT ![a].checked = known, ![a].blocked = no]
    BY <1>1
  <2> HIDE DEF no
  <2>2. [job[a] EXCEPT !.checked = known, !.blocked = no]
          \in [kind : {"none", "registry", "github", "remove", "builtin"}, force : BOOLEAN,
               blocked : BOOLEAN, checked : BOOLEAN, left : SUBSET Files]
    BY <2>1 DEF InstallInv, InstallTypes
  <2>3. job' = [job EXCEPT ![a] = [job[a] EXCEPT !.checked = known, !.blocked = no]]
    BY <2>1 DEF InstallInv, InstallTypes
  <2> DEFINE r == [job[a] EXCEPT !.checked = known, !.blocked = no]
  <2> HIDE DEF r
  <2>4. job' \in [Actors -> [kind : {"none", "registry", "github", "remove", "builtin"}, force : BOOLEAN,
                             blocked : BOOLEAN, checked : BOOLEAN, left : SUBSET Files]]
    <3>1. job' = [job EXCEPT ![a] = r]
      BY <2>3 DEF r
    <3>2. r \in [kind : {"none", "registry", "github", "remove", "builtin"}, force : BOOLEAN,
                 blocked : BOOLEAN, checked : BOOLEAN, left : SUBSET Files]
      BY <2>2 DEF r
    <3> QED
      BY <3>1, <3>2 DEF InstallInv, InstallTypes
  <2>5. iPc' = [iPc EXCEPT ![a] = "download"]
    BY DEF GetSkillMeta, Goto
  <2> QED
    BY <1>2, <2>4, <2>5 DEF InstallInv, InstallTypes
<1>4. ~disturbed => DOMAIN files = {}
  BY <1>2 DEF InstallInv, Undisturbed, WorkOf
<1>5. ~disturbed => WorkOf(a)'
  BY <1>2, <1>4 DEF WorkOf
<1> QED
  BY <1>2, <1>3, <1>4, <1>5, WorkGoesOn DEF Active

\* The archive arrives or does not.
LEMMA DownloadInv == ASSUME InstallInv, NEW a \in Actors, DownloadToFile(a) PROVE InstallInv'
<1>1. /\ iPc[a] = "download" /\ UNCHANGED <<files, flag, mu, disturbed>>
      /\ \A b \in Actors \ {a} : iPc'[b] = iPc[b]
  BY DEF InstallInv, InstallTypes, DownloadToFile, Goto, At
<1>2. ~disturbed => DOMAIN files = {} /\ WorkOf(a)
  BY <1>1 DEF InstallInv, Undisturbed, WorkOf
<1>3. CASE Goto(a, "failed") /\ UNCHANGED <<made, job>>
  <2>1. iPc'[a] = "failed" /\ InstallTypes'
    BY <1>1, <1>3 DEF InstallInv, InstallTypes, Goto
  <2>2. WorkOf(a)'
    BY <2>1 DEF WorkOf
  <2> QED
    BY <1>1, <1>2, <2>1, <2>2, WorkGoesOn DEF Active
<1>4. CASE Goto(a, "extract") /\ made' = TRUE /\ job' = [job EXCEPT ![a].left = Files]
  <2>1. iPc'[a] = "extract" /\ InstallTypes'
    BY <1>1, <1>4 DEF InstallInv, InstallTypes, Goto
  <2>2. /\ job'[a].left = Files /\ job'[a].checked = job[a].checked /\ job'[a].blocked = job[a].blocked
    BY <1>4 DEF InstallInv, InstallTypes
  <2>3. ~disturbed => WorkOf(a)'
    BY <1>1, <1>2, <2>1, <2>2 DEF WorkOf
  <2> QED
    BY <1>1, <1>2, <1>4, <2>1, <2>3, WorkGoesOn DEF Active
<1> QED
  BY <1>3, <1>4 DEF DownloadToFile

\* What a write leaves in the directory.
LEMMA WriteFileIs ==
  ASSUME InstallInv, NEW f \in Files, NEW w \in Actors \cup {"github", "builtin"}, NEW c \in BOOLEAN,
         WriteFile(f, w, c)
  PROVE  /\ DOMAIN files' = DOMAIN files \cup {f} /\ files'[f] = [by |-> w, checked |-> c]
         /\ \A g \in DOMAIN files \ {f} : files'[g] = files[g]
         /\ files' \in [DOMAIN files' -> [by : Actors \cup {"github", "builtin"}, checked : BOOLEAN]]
BY DEF WriteFile, InstallInv, InstallTypes

\* A file of the archive.
LEMMA ExtractInv == ASSUME InstallInv, NEW a \in Actors, ExtractSingleFile(a) PROVE InstallInv'
<1>1. iPc[a] = "extract" /\ UNCHANGED <<flag, mu, disturbed>> /\ Active(a)
  BY DEF ExtractSingleFile, At, Active
<1>2. PICK f \in job[a].left :
        \/ /\ made' = TRUE /\ WriteFile(f, a, job[a].checked)
           /\ job' = [job EXCEPT ![a].left = @ \ {f}] /\ UNCHANGED iPc
        \/ Goto(a, "failed") /\ UNCHANGED <<made, files, job>>
  BY DEF ExtractSingleFile
<1>3. f \in Files /\ job[a].checked \in BOOLEAN /\ job[a].left \subseteq Files
  BY DEF InstallInv, InstallTypes
<1>4. ~disturbed => WorkOf(a) /\ (~made => DOMAIN files = {})
  BY DEF InstallInv, Undisturbed
<1>5. CASE /\ made' = TRUE /\ WriteFile(f, a, job[a].checked)
           /\ job' = [job EXCEPT ![a].left = @ \ {f}] /\ UNCHANGED iPc
  <2>1. /\ DOMAIN files' = DOMAIN files \cup {f} /\ files'[f] = [by |-> a, checked |-> job[a].checked]
        /\ \A g \in DOMAIN files \ {f} : files'[g] = files[g]
        /\ files' \in [DOMAIN files' -> [by : Actors \cup {"github", "builtin"}, checked : BOOLEAN]]
    BY <1>3, <1>5, WriteFileIs
  <2>2. /\ job'[a].left = job[a].left \ {f} /\ job'[a].checked = job[a].checked
        /\ job'[a].blocked = job[a].blocked
    BY <1>5 DEF InstallInv, InstallTypes
  <2>3. InstallTypes'
    <3>1. job' \in [Actors -> [kind : {"none", "registry", "github", "remove", "builtin"}, force : BOOLEAN,
                               blocked : BOOLEAN, checked : BOOLEAN, left : SUBSET Files]]
      BY <1>3, <1>5 DEF InstallInv, InstallTypes
    <3> QED
      BY <1>1, <1>5, <2>1, <3>1 DEF InstallInv, InstallTypes
  <2>4. ~disturbed => WorkOf(a)'
    <3> SUFFICES ASSUME ~disturbed PROVE WorkOf(a)'
      OBVIOUS
    <3>1. /\ DOMAIN files = Files \ job[a].left
          /\ \A g \in DOMAIN files : files[g] = [by |-> a, checked |-> job[a].checked]
          /\ job[a].blocked = (job[a].checked /\ flag = "blocked")
      BY <1>1, <1>4 DEF WorkOf
    <3>2. /\ DOMAIN files' = Files \ job'[a].left
          /\ \A g \in DOMAIN files' : files'[g] = [by |-> a, checked |-> job'[a].checked]
      BY <1>3, <2>1, <2>2, <3>1
    <3> QED
      BY <1>1, <1>5, <2>2, <3>1, <3>2 DEF WorkOf
  <2> QED
    BY <1>1, <1>5, <2>3, <2>4, WorkGoesOn DEF Active
<1>6. CASE Goto(a, "failed") /\ UNCHANGED <<made, files, job>>
  <2>1. iPc'[a] = "failed" /\ InstallTypes' /\ \A b \in Actors \ {a} : iPc'[b] = iPc[b]
    BY <1>1, <1>6 DEF InstallInv, InstallTypes, Goto
  <2>2. WorkOf(a)'
    BY <2>1 DEF WorkOf
  <2> QED
    BY <1>1, <1>4, <1>6, <2>1, <2>2, WorkGoesOn DEF Active
<1> QED
  BY <1>2, <1>5, <1>6

\* All files are there.
LEMMA ExtractedInv == ASSUME InstallInv, NEW a \in Actors, Extracted(a) PROVE InstallInv'
<1>1. iPc[a] = "extract" /\ job[a].left = {} /\ Done(a) /\ UNCHANGED <<flag, disturbed>> /\ Active(a)
  BY DEF Extracted, At, Active
<1>2. CASE job[a].blocked
  BY <1>1, <1>2, EndsRemoved DEF Extracted
<1>3. CASE ~job[a].blocked
  <2>1. UNCHANGED <<made, files>>
    BY <1>3 DEF Extracted
  <2>2. InstallTypes'
    BY <1>1, <2>1 DEF InstallInv, InstallTypes, Done, Goto, NoJob
  <2>3. ASSUME ~disturbed PROVE Sound'
    <3>1. /\ DOMAIN files = Files /\ \A f \in Files : files[f] = [by |-> a, checked |-> job[a].checked]
          /\ ~(job[a].checked /\ flag = "blocked")
      BY <1>1, <1>3, <2>3 DEF InstallInv, Undisturbed, WorkOf
    <3>2. WholeBy(a)'
      BY <1>1, <2>1, <3>1, InstallAssumption DEF WholeBy
    <3> QED
      BY <3>2 DEF Sound
  <2>4. ~disturbed => (~made' => DOMAIN files' = {})
    BY <2>1 DEF InstallInv, Undisturbed
  <2> QED
    BY <1>1, <2>2, <2>3, <2>4, WorkEnds
<1> QED
  BY <1>2, <1>3

\* SKILL.md from GitHub.
LEMMA FetchInv == ASSUME InstallInv, FetchFromGitHub PROVE InstallInv'
<1>1. iPc[Cli] = "check" /\ ~made /\ Keep /\ Cli \in Actors
  BY WriterNames DEF FetchFromGitHub, At
<1>2. CASE Done(Cli)
  BY <1>1, <1>2, EndsUntouched
<1>3. CASE Goto(Cli, "write") /\ UNCHANGED <<job, mu>>
  <2>1. /\ iPc'[Cli] = "write" /\ InstallTypes' /\ \A b \in Actors \ {Cli} : iPc'[b] = iPc[b]
        /\ UNCHANGED <<made, files, flag, disturbed>>
    BY <1>1, <1>3 DEF InstallInv, InstallTypes, Goto, Keep
  <2>2. ~disturbed => DOMAIN files' = {}
    BY <1>1, <2>1 DEF InstallInv, Undisturbed
  <2>3. ~disturbed => WorkOf(Cli)'
    BY <2>1, <2>2 DEF WorkOf
  <2> QED
    BY <1>1, <1>3, <2>1, <2>2, <2>3, WorkGoesOn DEF Active
<1> QED
  BY <1>2, <1>3 DEF FetchFromGitHub

\* It is written.
LEMMA WriteGitHubInv == ASSUME InstallInv, WriteFromGitHub PROVE InstallInv'
<1>1. iPc[Cli] = "write" /\ made' = TRUE /\ Done(Cli) /\ UNCHANGED flag /\ Cli \in Actors
  BY WriterNames DEF WriteFromGitHub, At
<1>2. CASE WriteFile(Manifest, "github", FALSE) /\ UNCHANGED disturbed
  <2>1. /\ DOMAIN files' = DOMAIN files \cup {Manifest}
        /\ files'[Manifest] = [by |-> "github", checked |-> FALSE]
        /\ files' \in [DOMAIN files' -> [by : Actors \cup {"github", "builtin"}, checked : BOOLEAN]]
    BY <1>2, WriteFileIs, InstallAssumption
  <2>2. InstallTypes'
    BY <1>1, <1>2, <2>1 DEF InstallInv, InstallTypes, Done, Goto, NoJob
  <2>3. ASSUME ~disturbed PROVE Sound'
    <3>1. DOMAIN files' = {Manifest}
      BY <1>1, <2>1, <2>3 DEF InstallInv, Undisturbed, WorkOf
    <3>2. WholeBy("github")'
      BY <2>1, <3>1, WriterNames DEF WholeBy
    <3> QED
      BY <3>2 DEF Sound
  <2> QED
    BY <1>1, <1>2, <2>2, <2>3, WorkEnds DEF Active
<1>3. CASE UNCHANGED files /\ disturbed' = TRUE
  <2>1. InstallTypes'
    BY <1>1, <1>3 DEF InstallInv, InstallTypes, Done, Goto, NoJob
  <2> QED
    BY <1>1, <1>3, <2>1, WorkEnds DEF Active
<1> QED
  BY <1>2, <1>3 DEF WriteFromGitHub

\* A skill is removed by the command.
LEMMA UninstallInv == ASSUME InstallInv, Uninstall PROVE InstallInv'
<1>1. iPc[Cli] = "check" /\ Done(Cli) /\ UNCHANGED <<flag, installs, disturbed>> /\ Cli \in Actors
  BY WriterNames DEF Uninstall, At
<1>2. CASE made
  BY <1>1, <1>2, EndsRemoved DEF Uninstall, Active
<1>3. CASE ~made
  BY <1>1, <1>3, EndsUntouched DEF Uninstall, Keep
<1> QED
  BY <1>2, <1>3

\* The copy of a built-in skill, file by file.
LEMMA CopyInv == ASSUME InstallInv, CopyBegins \/ CopyFile \/ CopyEnds PROVE InstallInv'
<1>0. Cli \in Actors
  BY WriterNames
<1>1. CASE CopyBegins
  <2>1. /\ iPc[Cli] = "check" /\ iPc'[Cli] = "copy" /\ \A b \in Actors \ {Cli} : iPc'[b] = iPc[b]
        /\ job'[Cli].left = Files /\ made' = TRUE /\ UNCHANGED <<files, flag, mu, disturbed>>
    BY <1>0, <1>1 DEF InstallInv, InstallTypes, CopyBegins, Goto, At
  <2>2. InstallTypes'
    BY <1>0, <1>1, <2>1 DEF InstallInv, InstallTypes, CopyBegins, Goto
  <2>3. ASSUME ~disturbed PROVE WorkOf(Cli)'
    <3>1. DOMAIN files \subseteq Files
      BY <1>0, <2>1, <2>3, InstallAssumption DEF InstallInv, Undisturbed, WorkOf, Sound, WholeBy
    <3> QED
      BY <2>1, <3>1 DEF WorkOf
  <2> QED
    BY <1>0, <2>1, <2>2, <2>3, WorkGoesOn DEF Active
<1>2. CASE CopyFile
  <2>1. iPc[Cli] = "copy" /\ UNCHANGED <<made, flag>>
    BY <1>2 DEF CopyFile, At
  <2>2. ASSUME NEW f \in job[Cli].left, WriteFile(f, "builtin", FALSE),
               job' = [job EXCEPT ![Cli].left = @ \ {f}], UNCHANGED <<iPc, mu, disturbed>>
        PROVE  InstallInv'
    <3>1. f \in Files /\ job[Cli].left \subseteq Files
      BY <1>0 DEF InstallInv, InstallTypes
    <3>2. /\ DOMAIN files' = DOMAIN files \cup {f} /\ files'[f] = [by |-> "builtin", checked |-> FALSE]
          /\ \A g \in DOMAIN files \ {f} : files'[g] = files[g]
          /\ files' \in [DOMAIN files' -> [by : Actors \cup {"github", "builtin"}, checked : BOOLEAN]]
      BY <2>2, <3>1, WriteFileIs
    <3>3. /\ job'[Cli].left = job[Cli].left \ {f}
          /\ job' \in [Actors -> [kind : {"none", "registry", "github", "remove", "builtin"}, force : BOOLEAN,
                                  blocked : BOOLEAN, checked : BOOLEAN, left : SUBSET Files]]
      BY <1>0, <2>2, <3>1 DEF InstallInv, InstallTypes
    <3>4. InstallTypes'
      BY <2>1, <2>2, <3>2, <3>3 DEF InstallInv, InstallTypes
    <3>5. ASSUME ~disturbed PROVE WorkOf(Cli)' /\ made'
      <4>1. WorkOf(Cli) /\ (~made => DOMAIN files = {})
        BY <1>0, <3>5 DEF InstallInv, Undisturbed
      <4>2. /\ Files \ job[Cli].left \subseteq DOMAIN files /\ DOMAIN files \subseteq Files
            /\ \A g \in Files \ job[Cli].left : files[g] = [by |-> "builtin", checked |-> FALSE]
            /\ made
        BY <2>1, <4>1 DEF WorkOf
      <4>3. /\ Files \ job'[Cli].left \subseteq DOMAIN files' /\ DOMAIN files' \subseteq Files
            /\ \A g \in Files \ job'[Cli].left : files'[g] = [by |-> "builtin", checked |-> FALSE]
        BY <3>1, <3>2, <3>3, <4>2
      <4> QED
        BY <2>1, <2>2, <4>2, <4>3 DEF WorkOf
    <3> QED
      BY <1>0, <2>1, <2>2, <3>4, <3>5, WorkGoesOn DEF Active
  <2>3. ASSUME Done(Cli), disturbed' = TRUE, UNCHANGED files PROVE InstallInv'
    <3>1. InstallTypes'
      BY <1>0, <2>1, <2>3 DEF InstallInv, InstallTypes, Done, Goto, NoJob
    <3> QED
      BY <1>0, <2>1, <2>3, <3>1, WorkEnds DEF Active
  <2> QED
    BY <1>2, <2>2, <2>3 DEF CopyFile
<1>3. CASE CopyEnds
  BY <1>0, <1>3, EndsUntouched DEF CopyEnds, At
<1> QED
  BY <1>1, <1>2, <1>3

\* A process dies.
LEMMA KilledInv == ASSUME InstallInv, Killed PROVE InstallInv'
<1>1. PICK dead \in {Tools, {Cli}} :
        /\ disturbed' = (disturbed \/ \E a \in dead : iPc[a] \notin {"idle", "lock", "check"})
        /\ iPc' = [a \in Actors |-> IF a \in dead THEN "idle" ELSE iPc[a]]
        /\ job' = [a \in Actors |-> IF a \in dead THEN NoJob ELSE job[a]]
        /\ mu' = IF mu \in dead THEN Nobody ELSE mu
  BY DEF Killed
<1>2. UNCHANGED <<made, files, flag>>
  BY DEF Killed
<1>3. InstallTypes'
  <2>1. NoJob \in [kind : {"none", "registry", "github", "remove", "builtin"}, force : BOOLEAN,
                   blocked : BOOLEAN, checked : BOOLEAN, left : SUBSET Files]
    BY DEF NoJob
  <2> QED
    BY <1>1, <1>2, <2>1 DEF InstallInv, InstallTypes
<1>4. \A b \in Actors : IF b \in dead THEN ~Active(b)' ELSE Active(b)' = Active(b) /\ WorkOf(b)' = WorkOf(b)
  BY <1>1, <1>2 DEF Active, WorkOf, Sound, WholeBy
<1>5. ToolMutex'
  BY <1>1, <1>4, WriterNames DEF InstallInv, ToolMutex
<1>6. ASSUME ~disturbed' PROVE Undisturbed'
  <2>1. ~disturbed /\ \A a \in dead : iPc[a] \in {"idle", "lock", "check"}
    BY <1>1, <1>6
  <2>2. \A b \in Actors : WorkOf(b)'
    BY <1>1, <1>4, <2>1 DEF InstallInv, Undisturbed, WorkOf
  <2>3. Sound' = Sound
    BY <1>2 DEF Sound, WholeBy
  <2>4. ASSUME \A b \in Actors : ~Active(b)' PROVE Sound
    <3>1. CASE \A b \in Actors : ~Active(b)
      BY <2>1, <3>1 DEF InstallInv, Undisturbed
    <3>2. CASE \E b \in Actors : Active(b)
      <4>1. PICK b \in Actors : Active(b)
        BY <3>2
      <4>2. iPc[b] = "check"
        BY <1>4, <2>1, <2>4, <4>1 DEF Active
      <4> QED
        BY <2>1, <4>2 DEF InstallInv, Undisturbed, WorkOf
    <3> QED
      BY <3>1, <3>2
  <2> QED
    BY <1>2, <1>4, <2>1, <2>2, <2>3, <2>4 DEF InstallInv, Undisturbed
<1> QED
  BY <1>3, <1>5, <1>6 DEF InstallInv, Undisturbed

\* Every step keeps the invariant.
LEMMA InstallNextInv == ASSUME InstallInv, [InstallNext]_installVars PROVE InstallInv'
<1>1. ASSUME NEW a \in Tools, NEW f \in BOOLEAN, Begin(a, "registry", f) PROVE InstallInv'
  BY <1>1, BeginInv, WriterNames
<1>2. ASSUME NEW k \in {"registry", "github", "remove", "builtin"}, Begin(Cli, k, FALSE) PROVE InstallInv'
  BY <1>2, BeginInv, WriterNames
<1>3. ASSUME NEW a \in Actors, InvalidIdentifier(a) \/ AlreadyInstalled(a) \/ UnknownRegistry(a) PROVE InstallInv'
  BY <1>3, EndsUntouched DEF InvalidIdentifier, AlreadyInstalled, UnknownRegistry, At
<1>4. ASSUME NEW a \in Actors, InstallFails(a) PROVE InstallInv'
  BY <1>4, EndsRemoved DEF InstallFails, At, Active
<1>5. CASE UNCHANGED installVars
  BY <1>5 DEF installVars, InstallInv, InstallTypes, ToolMutex, Undisturbed, Active, WorkOf, Sound, WholeBy
<1> QED
  BY <1>1, <1>2, <1>3, <1>4, <1>5, LockInv, CheckTargetInv, GetSkillMetaInv, DownloadInv, ExtractInv,
     ExtractedInv, FetchInv, WriteGitHubInv, UninstallInv, CopyInv, KilledInv DEF InstallNext

\* The invariant of the skill directory, for any goroutines, files, operations,
\* failures and deaths of either process.
THEOREM InstallInvariant == InstallSpec => []InstallInv
<1>1. InstallInit => InstallInv
  <2> SUFFICES ASSUME InstallInit PROVE InstallInv
    OBVIOUS
  <2>1. DOMAIN files = {} /\ files \in [{} -> [by : Actors \cup {"github", "builtin"}, checked : BOOLEAN]]
    BY DEF InstallInit, NoFiles
  <2>2. InstallTypes
    BY <2>1 DEF InstallInit, InstallTypes, NoJob
  <2>3. \A a \in Actors : ~Active(a) /\ WorkOf(a)
    BY DEF InstallInit, Active, WorkOf
  <2> QED
    BY <2>1, <2>2, <2>3, WriterNames DEF InstallInv, ToolMutex, Undisturbed, Sound
<1>2. InstallInv /\ [InstallNext]_installVars => InstallInv'
  BY InstallNextInv
<1> QED
  BY <1>1, <1>2, PTL DEF InstallSpec

\* Whatever goroutines and the command do, if none met another and none was cut
\* short, the skill that ListSkills and LoadSkill give the agent is whole, of one
\* writer, and none its registry called malicious (skills_install.go:104).
THEOREM InstalledSkillsWhole == InstallSpec => []InstalledIsWhole
<1>1. InstallInv => InstalledIsWhole
  <2> SUFFICES ASSUME InstallInv, ~disturbed, \A a \in Actors : iPc[a] \in {"idle", "lock"},
                      <<1, "s">> \in ListSkills(SkillDirs)
               PROVE  /\ LoadSkill(SkillDirs, "s") = {1}
                      /\ \E w \in Actors \cup {"github", "builtin"} :
                           /\ \A f \in DOMAIN files : files[f].by = w \/ files[f].by = "builtin"
                           /\ DOMAIN files = Files \/ (w = "github" /\ Manifest \in DOMAIN files)
                           /\ flag = "blocked" /\ w \in Actors => ~files[Manifest].checked
    BY DEF InstalledIsWhole
  <2>1. Sound
    BY DEF InstallInv, Undisturbed, Active
  <2>2. "s" \in DOMAIN SkillDirs[1] /\ DOMAIN SkillDirs = 1 .. 3
    <3>1. DOMAIN SkillDirs = 1 .. 3
      BY DEF SkillDirs
    <3>2. PICK i \in DOMAIN SkillDirs : \E d \in DOMAIN SkillDirs[i] : <<1, "s">> = <<i, d>>
      BY DEF ListSkills
    <3> QED
      BY <3>1, <3>2
  <2>3. Manifest \in DOMAIN files
    <3>1. SkillDirs[1] = Workspace
      BY DEF SkillDirs
    <3> QED
      BY <2>2, <3>1 DEF Workspace
  <2>4. LoadSkill(SkillDirs, "s") = {1}
    <3>1. \A i \in 1 .. 3 : i = 1 \/ 1 \in 1 .. i - 1
      OBVIOUS
    <3>2. 1 \in 1 .. 3 /\ \A j \in 1 .. 1 - 1 : FALSE
      OBVIOUS
    <3> QED
      BY <2>2, <3>1, <3>2 DEF LoadSkill
  <2>5. PICK w \in Actors \cup {"github", "builtin"} : WholeBy(w)
    BY <2>1, <2>3 DEF Sound
  <2> QED
    BY <2>3, <2>4, <2>5 DEF WholeBy
<1> QED
  BY <1>1, InstallInvariant, PTL

-----------------------------------------------------------------------------
\* Credentials.

Names == Providers \cup {Alias, ""}
Credential == [access : Nat, refresh : Nat, method : {"token", "oauth"}, project : BOOLEAN]

\* Tables of credentials, for some of the providers.
Stores == UNION {[D -> Credential] : D \in SUBSET Providers}

Works == [kind : {"none", "source", "login", "logout", "logoutAll"}, name : Names, cred : Credential,
          creds : Stores, stale : BOOLEAN]

\* Steps on the way to a write, and steps of a login that has no credential yet.
Writing == {"load", "save", "write"}
LoggingIn == {"browser", "device", "paste", "exchange"}

CredTypes ==
  /\ auth \in [torn : BOOLEAN, creds : Stores]
  /\ method \in [Providers -> {"", "token", "oauth"}]
  /\ issued \in Nat /\ live \subseteq 1 .. issued /\ spoiled \in BOOLEAN
  /\ cPc \in [Users -> {"idle", "use", "refresh", "config"} \cup Writing \cup LoggingIn]
  /\ own \in [Users -> Works]

\* Which work w an actor u does at step l.
KindFits(u, l, w) ==
  /\ w.kind \notin {"none", "source"} => u = AuthCli
  /\ w.kind = "none" <=> l = "idle"
  /\ l \in {"use", "refresh"} => w.kind = "source"
  /\ l \in Writing => w.kind \in {"source", "login", "logout"}
  /\ l \in LoggingIn => /\ w.kind = "login" /\ w.cred = NoCred
                        /\ l = "paste" <=> w.name = "anthropic"
  /\ l = "config" => w.kind \in {"login", "logout", "logoutAll"}
  /\ w.kind = "source" => w.name \in OAuth
  /\ w.kind \in {"login", "logout"} => w.name \in Providers \cup {Alias}

KindsFit == \A u \in Users : KindFits(u, cPc[u], own[u])

MethodOf(p) == IF p = "anthropic" THEN "token" ELSE "oauth"

MethodFits(l, w) ==
  w.kind = "source" \/ (w.kind = "login" /\ l \in Writing \cup {"config"}) =>
    w.cred.method = MethodOf(Canonical(w.name))

\* Credentials have the method of their provider.
MethodsFit ==
  /\ \A p \in DOMAIN auth.creds : auth.creds[p].method = MethodOf(p)
  /\ \A u \in Users : MethodFits(cPc[u], own[u])

\* A refresh token is one provider's, wherever it is, and was issued.
OneProvider ==
  /\ \A p, q \in DOMAIN auth.creds :
       auth.creds[p].refresh = auth.creds[q].refresh /\ auth.creds[p].refresh # 0 => p = q
  /\ \A u \in Users : \A p \in DOMAIN auth.creds :
       own[u].cred.refresh = auth.creds[p].refresh /\ auth.creds[p].refresh # 0 => Canonical(own[u].name) = p
  /\ \A u, v \in Users :
       own[u].cred.refresh = own[v].cred.refresh /\ own[u].cred.refresh # 0 =>
         Canonical(own[u].name) = Canonical(own[v].name)
  /\ \A p \in DOMAIN auth.creds : auth.creds[p].refresh <= issued
  /\ \A u \in Users : own[u].cred.refresh <= issued

\* Somebody is about to write a credential of p.
Replaces(v, p) == cPc[v] \in Writing /\ own[v].kind # "logout" /\ Canonical(own[v].name) = p

\* A refresh token of p is accepted, or another than u is about to replace it.
Accepted(u, p, r) == r \in live \cup {0} \/ \E v \in Users \ {u} : Replaces(v, p)

\* Work that the file has not changed under: a token source finds its provider
\* still in the file and its refresh token accepted, or about to be replaced; and
\* what was loaded is the file.
CurrentOf(u, l, w) ==
  ~w.stale =>
    /\ w.kind = "source" => w.name \in DOMAIN auth.creds
    /\ w.kind = "source" /\ l # "refresh" => Accepted(u, w.name, w.cred.refresh)
    /\ l \in {"save", "write"} => w.creds = auth.creds

Current == \A u \in Users : CurrentOf(u, cPc[u], own[u])

\* What a login has been given nobody else has.
LoginIsNew ==
  \A u \in Users : own[u].kind = "login" /\ cPc[u] \in Writing /\ own[u].cred.refresh # 0 =>
    /\ own[u].cred.refresh \in live
    /\ \A v \in Users \ {u} : own[v].cred.refresh # own[u].cred.refresh
    /\ \A p \in DOMAIN auth.creds : auth.creds[p].refresh # own[u].cred.refresh

TornIsWritten == auth.torn => \E u \in Users : cPc[u] = "write"

FileIsLive ==
  \A p \in DOMAIN auth.creds :
    auth.creds[p].refresh \in live \cup {0} \/ \E v \in Users : Replaces(v, p)

Agrees(p) ==
  /\ method[p] # "" => p \in DOMAIN auth.creds
  /\ p \in DOMAIN auth.creds /\ p # Google => method[p] = auth.creds[p].method

\* Between its write and the configuration a command leaves them apart for what it
\* changed, and only for that.
ConfigFollows ==
  /\ \A p \in Providers :
       \/ Agrees(p)
       \/ cPc[AuthCli] = "config" /\ (own[AuthCli].kind = "logoutAll" \/ Canonical(own[AuthCli].name) = p)
  /\ cPc[AuthCli] = "config" =>
       /\ own[AuthCli].kind = "logoutAll" => DOMAIN auth.creds = {}
       /\ own[AuthCli].kind = "login" => Canonical(own[AuthCli].name) \in DOMAIN auth.creds
       /\ own[AuthCli].kind = "logout" => own[AuthCli].name \notin DOMAIN auth.creds

Unspoiled ==
  /\ MethodsFit /\ OneProvider /\ Current /\ LoginIsNew
  /\ TornIsWritten /\ FileIsLive /\ ConfigFollows

CredInv == CredTypes /\ KindsFit /\ (~spoiled => Unspoiled)

\* No natural number is below 0.
LEMMA NaturalsFromZero == \A n \in Nat : 0 <= n
OBVIOUS

\* Tables of credentials, by their domain.
LEMMA StoreFacts ==
  /\ \A c \in Stores : DOMAIN c \subseteq Providers /\ c \in [DOMAIN c -> Credential]
  /\ \A D \in SUBSET Providers : [D -> Credential] \subseteq Stores
BY DEF Stores

\* The constants of the module have their types.
LEMMA WorkTypes ==
  /\ NoCred \in Credential /\ NoCreds \in Stores /\ DOMAIN NoCreds = {} /\ NoWork \in Works
  /\ AuthCli \in Users /\ TokenUsers \subseteq Users
<1>1. NoCreds \in [{} -> Credential] /\ DOMAIN NoCreds = {} /\ {} \in SUBSET Providers
  BY DEF NoCreds
<1>2. NoCreds \in Stores
  BY <1>1, StoreFacts
<1>3. NoCred \in Credential
  BY DEF NoCred, Credential
<1> QED
  BY <1>1, <1>2, <1>3 DEF NoWork, Works, Names, Users

\* Names as the store knows them.
LEMMA CanonicalNames ==
  /\ \A n \in Providers \cup {Alias} : Canonical(n) \in Providers
  /\ \A n \in OAuth : Canonical(n) = n /\ n \in Providers /\ n # "anthropic"
  /\ \A n \in Providers : Canonical(n) = n
  /\ \A n \in Providers \cup {Alias} : Canonical(n) = "anthropic" <=> n = "anthropic"
  /\ Canonical(Alias) = Google /\ Google # "anthropic" /\ Alias \notin Providers
BY DEF Canonical, Providers, OAuth, Google, Alias

\* Once something is spoiled only types and kinds are claimed.
LEMMA SpoiledKeeps ==
  ASSUME CredInv, NEW u \in Users, NEW w \in Works,
         NEW l \in {"idle", "use", "refresh", "config"} \cup Writing \cup LoggingIn,
         own' = [own EXCEPT ![u] = w], cPc' = [cPc EXCEPT ![u] = l], KindFits(u, l, w),
         auth' \in [torn : BOOLEAN, creds : Stores], method' \in [Providers -> {"", "token", "oauth"}],
         issued' \in Nat, live' \subseteq 1 .. issued', spoiled' \in BOOLEAN
  PROVE  /\ CredTypes' /\ KindsFit'
         /\ own'[u] = w /\ cPc'[u] = l
         /\ \A v \in Users \ {u} : own'[v] = own[v] /\ cPc'[v] = cPc[v]
<1>1. CredTypes'
  BY DEF CredInv, CredTypes
<1>2. /\ own'[u] = w /\ cPc'[u] = l
      /\ \A v \in Users \ {u} : own'[v] = own[v] /\ cPc'[v] = cPc[v]
  BY DEF CredInv, CredTypes
<1>3. KindsFit'
  <2> SUFFICES ASSUME NEW v \in Users PROVE KindFits(v, cPc'[v], own'[v])
    BY DEF KindsFit, KindFits
  <2>1. CASE v = u
    BY <1>2, <2>1
  <2>2. CASE v # u
    <3>1. own'[v] = own[v] /\ cPc'[v] = cPc[v] /\ KindFits(v, cPc[v], own[v])
      BY <1>2, <2>2 DEF CredInv, KindsFit
    <3> QED
      BY <3>1
  <2> QED
    BY <2>1, <2>2
<1> QED
  BY <1>1, <1>2, <1>3

\* One actor goes on to other work, with the files and the issuers left alone: what
\* is to be shown of its new work.
LEMMA MoveKeeps ==
  ASSUME CredInv, NEW u \in Users, NEW w \in Works,
         NEW l \in {"idle", "use", "refresh", "config"} \cup Writing \cup LoggingIn,
         own' = [own EXCEPT ![u] = w], cPc' = [cPc EXCEPT ![u] = l], KindFits(u, l, w),
         UNCHANGED <<auth, method, issued, live, spoiled>>,
         cPc[u] # "write" /\ cPc[u] # "config" /\ l # "config",
         ~spoiled => MethodFits(l, w),
         ~spoiled => \/ w.cred.refresh = 0
                     \/ w.cred.refresh = own[u].cred.refresh /\ Canonical(w.name) = Canonical(own[u].name)
                     \/ \E p \in DOMAIN auth.creds : Canonical(w.name) = p /\ w.cred.refresh = auth.creds[p].refresh,
         ~spoiled => CurrentOf(u, l, w),
         cPc[u] \in Writing /\ own[u].kind # "logout" =>
           l \in Writing /\ w.kind # "logout" /\ Canonical(w.name) = Canonical(own[u].name),
         w.kind = "login" /\ l \in Writing =>
           \/ w.cred.refresh = 0
           \/ cPc[u] \in Writing /\ own[u].kind = "login" /\ w.cred.refresh = own[u].cred.refresh
  PROVE  CredInv'
<1>0. auth \in [torn : BOOLEAN, creds : Stores] /\ method \in [Providers -> {"", "token", "oauth"}]
      /\ issued \in Nat /\ live \subseteq 1 .. issued /\ spoiled \in BOOLEAN
  BY DEF CredInv, CredTypes
<1>1. /\ CredTypes' /\ KindsFit'
      /\ own'[u] = w /\ cPc'[u] = l
      /\ \A v \in Users \ {u} : own'[v] = own[v] /\ cPc'[v] = cPc[v]
  BY <1>0, SpoiledKeeps
<1>2. SUFFICES ASSUME ~spoiled PROVE Unspoiled'
  BY <1>1 DEF CredInv
<1>3. Unspoiled
  BY <1>2 DEF CredInv
<1>4. \A v \in Users : \A p : Replaces(v, p) => Replaces(v, p)'
  BY <1>1 DEF Replaces
<1>5. MethodsFit'
  BY <1>1, <1>2, <1>3 DEF Unspoiled, MethodsFit, MethodFits
<1>6. OneProvider'
  <2>0. OneProvider
    BY <1>3 DEF Unspoiled
  <2>3. w.cred.refresh <= issued
    <3>1. CASE w.cred.refresh = 0
      <4>1. 0 <= issued
        BY <1>0, NaturalsFromZero
      <4> QED
        BY <3>1, <4>1
    <3>2. CASE w.cred.refresh = own[u].cred.refresh
      BY <2>0, <3>2 DEF OneProvider
    <3>3. CASE \E p \in DOMAIN auth.creds : w.cred.refresh = auth.creds[p].refresh
      BY <2>0, <3>3 DEF OneProvider
    <3> QED
      BY <1>2, <3>1, <3>2, <3>3
  <2>4. \A p \in DOMAIN auth.creds :
          w.cred.refresh = auth.creds[p].refresh /\ auth.creds[p].refresh # 0 => Canonical(w.name) = p
    BY <1>2, <2>0 DEF OneProvider
  <2>5. \A v \in Users \ {u} : w.cred.refresh = own[v].cred.refresh /\ w.cred.refresh # 0 =>
          Canonical(w.name) = Canonical(own[v].name)
    BY <1>2, <2>0 DEF OneProvider
  <2>6. \A v \in Users : \A p \in DOMAIN auth.creds :
          own'[v].cred.refresh = auth.creds[p].refresh /\ auth.creds[p].refresh # 0 => Canonical(own'[v].name) = p
    BY <1>1, <2>0, <2>4 DEF OneProvider
  <2>7. ASSUME NEW v \in Users, NEW x \in Users, own'[v].cred.refresh = own'[x].cred.refresh,
               own'[v].cred.refresh # 0
        PROVE  Canonical(own'[v].name) = Canonical(own'[x].name)
    <3>1. CASE v = u
      BY <1>1, <2>5, <2>7, <3>1
    <3>2. CASE x = u
      BY <1>1, <2>5, <2>7, <3>2
    <3>3. CASE v # u /\ x # u
      BY <1>1, <2>0, <2>7, <3>3 DEF OneProvider
    <3> QED
      BY <3>1, <3>2, <3>3
  <2>8. \A v \in Users : own'[v].cred.refresh <= issued
    BY <1>1, <2>0, <2>3 DEF OneProvider
  <2> QED
    BY <2>0, <2>6, <2>7, <2>8 DEF OneProvider, Canonical
<1>7. Current'
  <2> SUFFICES ASSUME NEW v \in Users PROVE CurrentOf(v, cPc[v], own[v])'
    BY DEF Current
  <2>1. CASE v = u
    <3>1. CurrentOf(u, l, w)
      BY <1>2
    <3> QED
      BY <1>1, <1>4, <2>1, <3>1 DEF CurrentOf, Accepted
  <2>2. CASE v # u
    <3>1. CurrentOf(v, cPc[v], own[v])
      BY <1>3 DEF Unspoiled, Current
    <3> QED
      BY <1>1, <1>4, <2>2, <3>1 DEF CurrentOf, Accepted
  <2> QED
    BY <2>1, <2>2
<1>8. LoginIsNew'
  <2> SUFFICES ASSUME NEW v \in Users, own'[v].kind = "login", cPc'[v] \in Writing, own'[v].cred.refresh # 0
               PROVE  /\ own'[v].cred.refresh \in live
                      /\ \A x \in Users \ {v} : own'[x].cred.refresh # own'[v].cred.refresh
                      /\ \A p \in DOMAIN auth.creds : auth.creds[p].refresh # own'[v].cred.refresh
    BY DEF LoginIsNew
  <2>1. CASE v = u
    BY <1>1, <1>3, <2>1 DEF Unspoiled, LoginIsNew
  <2>2. CASE v # u
    <3>1. /\ own[v].cred.refresh \in live
          /\ \A x \in Users \ {v} : own[x].cred.refresh # own[v].cred.refresh
          /\ \A p \in DOMAIN auth.creds : auth.creds[p].refresh # own[v].cred.refresh
      BY <1>1, <1>3, <2>2 DEF Unspoiled, LoginIsNew
    <3>2. w.cred.refresh # own[v].cred.refresh
      BY <1>1, <1>2, <2>2, <3>1
    <3> QED
      BY <1>1, <2>2, <3>1, <3>2
  <2> QED
    BY <2>1, <2>2
<1>9. TornIsWritten'
  BY <1>1, <1>3 DEF Unspoiled, TornIsWritten
<1>10. FileIsLive'
  BY <1>3, <1>4 DEF Unspoiled, FileIsLive
<1>11. ConfigFollows'
  <2>1. cPc[AuthCli] = "config" => u # AuthCli
    OBVIOUS
  <2>2. cPc'[AuthCli] = "config" => cPc[AuthCli] = "config" /\ u # AuthCli
    BY <1>1, WorkTypes
  <2>3. cPc[AuthCli] = "config" => cPc'[AuthCli] = "config" /\ own'[AuthCli] = own[AuthCli]
    BY <1>1, <2>1, WorkTypes
  <2> QED
    BY <1>3, <2>2, <2>3 DEF Unspoiled, ConfigFollows, Agrees
<1> QED
  BY <1>5, <1>6, <1>7, <1>8, <1>9, <1>10, <1>11 DEF Unspoiled

\* An actor is done, with no write begun.
LEMMA ReturnsInv ==
  ASSUME CredInv, NEW u \in Users, Returns(u), cPc[u] \in {"use", "refresh"} \cup LoggingIn,
         UNCHANGED <<auth, method, issued, live, spoiled>>
  PROVE  CredInv'
<1>1. own' = [own EXCEPT ![u] = NoWork] /\ cPc' = [cPc EXCEPT ![u] = "idle"]
  BY DEF Returns, To
<1>2. KindFits(u, "idle", NoWork)
  BY DEF KindFits, NoWork, Writing, LoggingIn
<1>3. MethodFits("idle", NoWork) /\ CurrentOf(u, "idle", NoWork) /\ NoWork.cred.refresh = 0 /\ NoWork.kind = "none"
  BY DEF MethodFits, CurrentOf, NoWork, NoCred
<1>4. cPc[u] \notin Writing /\ cPc[u] # "write" /\ cPc[u] # "config"
  BY DEF Writing, LoggingIn
<1> HIDE DEF NoWork
<1> QED
  BY <1>1, <1>2, <1>3, <1>4, MoveKeeps, WorkTypes

\* An actor is done, and something was spoiled.
LEMMA SpoilsInv ==
  ASSUME CredInv, NEW u \in Users, Returns(u), spoiled' = TRUE,
         auth' = auth, method' = method, issued' = issued, live' \subseteq live
  PROVE  CredInv'
<1>1. own' = [own EXCEPT ![u] = NoWork] /\ cPc' = [cPc EXCEPT ![u] = "idle"]
  BY DEF Returns, To
<1>2. KindFits(u, "idle", NoWork)
  BY DEF KindFits, NoWork, Writing, LoggingIn
<1>3. /\ auth' \in [torn : BOOLEAN, creds : Stores] /\ method' \in [Providers -> {"", "token", "oauth"}]
      /\ issued' \in Nat /\ live' \subseteq 1 .. issued' /\ spoiled' \in BOOLEAN
  BY DEF CredInv, CredTypes
<1>4. CredTypes' /\ KindsFit'
  BY <1>1, <1>2, <1>3, SpoiledKeeps, WorkTypes
<1> QED
  BY <1>4 DEF CredInv

\* A login goes on, or has a pasted token.
LEMMA LoginStepInv ==
  ASSUME CredInv, cPc[AuthCli] \in LoggingIn, UNCHANGED <<own, auth, method, issued, live, spoiled>>,
         \/ cPc[AuthCli] # "paste" /\ \E l \in {"device", "exchange"} : To(AuthCli, l)
         \/ cPc[AuthCli] = "paste" /\ To(AuthCli, "load")
  PROVE  CredInv'
<1> DEFINE w == own[AuthCli]
<1>1. w \in Works /\ own' = [own EXCEPT ![AuthCli] = w] /\ AuthCli \in Users
  BY WorkTypes DEF CredInv, CredTypes
<1>2. KindFits(AuthCli, cPc[AuthCli], w)
  BY WorkTypes DEF CredInv, KindsFit
<1>3. /\ w.kind = "login" /\ w.cred = NoCred /\ w.name \in Providers \cup {Alias}
      /\ cPc[AuthCli] = "paste" <=> w.name = "anthropic"
  BY <1>2 DEF KindFits
<1>4. w.cred.refresh = 0 /\ w.cred.method = "token"
  BY <1>3 DEF NoCred
<1>5. cPc[AuthCli] \notin Writing /\ cPc[AuthCli] # "write" /\ cPc[AuthCli] # "config"
  BY DEF Writing, LoggingIn
<1>6. PICK l \in {"device", "exchange", "load"} :
        cPc' = [cPc EXCEPT ![AuthCli] = l] /\ (l = "load" <=> cPc[AuthCli] = "paste")
  BY DEF To
<1>7. KindFits(AuthCli, l, w)
  BY <1>3, <1>6 DEF KindFits, Writing, LoggingIn
<1>8. MethodFits(l, w)
  <2>1. l = "load" => MethodOf(Canonical(w.name)) = "token"
    BY <1>3, <1>6, CanonicalNames DEF MethodOf
  <2> QED
    BY <1>3, <1>4, <1>6, <2>1 DEF MethodFits, Writing
<1>9. CurrentOf(AuthCli, l, w)
  BY <1>3, <1>6 DEF CurrentOf
<1>10. l \in {"idle", "use", "refresh", "config"} \cup Writing \cup LoggingIn /\ l # "config"
  BY DEF Writing, LoggingIn
<1> HIDE DEF w
<1> QED
  BY <1>1, <1>3, <1>4, <1>5, <1>6, <1>7, <1>8, <1>9, <1>10, MoveKeeps

\* A command begins.
LEMMA CommandInv ==
  ASSUME CredInv, NEW k \in {"login", "logout"}, NEW n \in Providers \cup {Alias},
         NEW l \in LoggingIn \cup {"load"}, CommandBegins(k, n, l),
         IF k = "logout" THEN l = "load" ELSE l \in LoggingIn /\ (l = "paste" <=> n = "anthropic")
  PROVE  CredInv'
<1> DEFINE w == [NoWork EXCEPT !.kind = k, !.name = n]
<1>1. /\ own' = [own EXCEPT ![AuthCli] = w] /\ cPc' = [cPc EXCEPT ![AuthCli] = l]
      /\ cPc[AuthCli] = "idle" /\ UNCHANGED <<auth, method, issued, live, spoiled>>
  BY DEF CommandBegins, To, Is, Disk, Issuer
<1>2. w \in Works /\ AuthCli \in Users
  BY WorkTypes DEF Works, Names
<1>3. w.cred.refresh = 0 /\ w.kind = k /\ w.name = n /\ w.cred = NoCred
  BY DEF NoCred, NoWork
<1> HIDE DEF w
<1>4. KindFits(AuthCli, l, w)
  BY <1>3 DEF KindFits, Writing, LoggingIn
<1>5. MethodFits(l, w) /\ CurrentOf(AuthCli, l, w)
  BY <1>3 DEF MethodFits, CurrentOf, Writing, LoggingIn
<1>6. /\ l \in {"idle", "use", "refresh", "config"} \cup Writing \cup LoggingIn /\ l # "config"
      /\ cPc[AuthCli] \notin Writing /\ cPc[AuthCli] # "write" /\ cPc[AuthCli] # "config"
      /\ ~(w.kind = "login" /\ l \in Writing)
  BY <1>1, <1>3 DEF Writing, LoggingIn
<1> QED
  BY <1>1, <1>2, <1>3, <1>4, <1>5, <1>6, MoveKeeps

\* A credential is read from the file.
LEMMA GetCredentialInv ==
  ASSUME CredInv, NEW u \in Users, NEW p \in OAuth, GetCredential(u, p)
  PROVE  CredInv'
<1> DEFINE w == [NoWork EXCEPT !.kind = "source", !.name = p, !.cred = auth.creds[p]]
           l == IF NeedsRefresh(auth.creds[p]) /\ auth.creds[p].refresh # 0 THEN "refresh" ELSE "use"
<1>1. /\ own' = [own EXCEPT ![u] = w] /\ cPc' = [cPc EXCEPT ![u] = l]
      /\ cPc[u] = "idle" /\ UNCHANGED <<auth, method, issued, live, spoiled>> /\ p \in DOMAIN auth.creds
  BY DEF GetCredential, To, Is, Disk, Issuer
<1>2. l \in {"refresh", "use"}
  OBVIOUS
<1>3. auth.creds[p] \in Credential
  BY <1>1, StoreFacts DEF CredInv, CredTypes
<1>4. w \in Works
  BY <1>3, WorkTypes, CanonicalNames DEF Works, Names
<1>5. w.kind = "source" /\ w.name = p /\ w.cred = auth.creds[p] /\ ~w.stale
  BY DEF NoWork
<1> HIDE DEF w, l
<1>6. KindFits(u, l, w)
  BY <1>2, <1>5 DEF KindFits, Writing, LoggingIn
<1>7. ASSUME ~spoiled PROVE MethodFits(l, w) /\ CurrentOf(u, l, w)
  <2>1. Unspoiled
    BY <1>7 DEF CredInv
  <2>2. w.cred.method = MethodOf(Canonical(w.name))
    BY <1>1, <1>5, <2>1, CanonicalNames DEF Unspoiled, MethodsFit
  <2>3. Accepted(u, p, auth.creds[p].refresh)
    BY <1>1, <2>1 DEF Unspoiled, FileIsLive, Accepted, Replaces, Writing
  <2> QED
    BY <1>1, <1>2, <1>5, <2>2, <2>3 DEF MethodFits, CurrentOf
<1>8. /\ l \in {"idle", "use", "refresh", "config"} \cup Writing \cup LoggingIn /\ l # "config" /\ l \notin Writing
      /\ cPc[u] \notin Writing /\ cPc[u] # "write" /\ cPc[u] # "config"
  BY <1>1, <1>2 DEF Writing, LoggingIn
<1>9. \E q \in DOMAIN auth.creds : Canonical(w.name) = q /\ w.cred.refresh = auth.creds[q].refresh
  BY <1>1, <1>5, CanonicalNames
<1> QED
  BY <1>1, <1>4, <1>5, <1>6, <1>7, <1>8, <1>9, MoveKeeps

\* The project of a Google account was found: the credential is to be stored.
LEMMA UseTokenInv == ASSUME CredInv, NEW u \in Users, UseToken(u) PROVE CredInv'
<1>0. cPc[u] = "use" /\ UNCHANGED <<auth, method, issued, live, spoiled>>
  BY DEF UseToken, Is, Disk, Issuer
<1>1. CASE Returns(u)
  BY <1>0, <1>1, ReturnsInv
<1>2. CASE own' = [own EXCEPT ![u].cred.project = TRUE] /\ To(u, "load")
  <2> DEFINE c == [own[u].cred EXCEPT !.project = TRUE]
             w == [own[u] EXCEPT !.cred = c]
  <2>1. own[u] \in Works /\ own[u].cred \in Credential
    BY DEF CredInv, CredTypes, Works
  <2>2. c \in Credential /\ c.refresh = own[u].cred.refresh /\ c.method = own[u].cred.method
    BY <2>1 DEF Credential
  <2>3. own' = [own EXCEPT ![u] = w] /\ cPc' = [cPc EXCEPT ![u] = "load"]
    BY <1>2 DEF To, CredInv, CredTypes
  <2> HIDE DEF c
  <2>4. /\ w \in Works /\ w.kind = own[u].kind /\ w.name = own[u].name /\ w.cred = c
        /\ w.stale = own[u].stale
    BY <2>1, <2>2 DEF Works
  <2> HIDE DEF w
  <2>5. KindFits(u, "use", own[u])
    BY <1>0 DEF CredInv, KindsFit
  <2>6. own[u].kind = "source" /\ own[u].name \in OAuth
    BY <2>5 DEF KindFits
  <2>7. KindFits(u, "load", w)
    BY <2>4, <2>6 DEF KindFits, Writing, LoggingIn
  <2>8. ASSUME ~spoiled PROVE MethodFits("load", w) /\ CurrentOf(u, "load", w)
    <3>1. MethodFits("use", own[u]) /\ CurrentOf(u, "use", own[u])
      BY <1>0, <2>8 DEF CredInv, Unspoiled, MethodsFit, Current
    <3> QED
      BY <2>2, <2>4, <2>6, <3>1 DEF MethodFits, CurrentOf
  <2>9. "load" \in Writing /\ cPc[u] \notin Writing /\ cPc[u] # "write" /\ cPc[u] # "config"
    BY <1>0 DEF Writing
  <2> QED
    BY <1>0, <2>2, <2>3, <2>4, <2>6, <2>7, <2>8, <2>9, MoveKeeps
<1> QED
  BY <1>1, <1>2 DEF UseToken

\* The file is read before it is changed.
LEMMA LoadStoreInv == ASSUME CredInv, NEW u \in Users, LoadStore(u) PROVE CredInv'
<1>0. cPc[u] = "load" /\ UNCHANGED <<auth, method, issued, live>>
  BY DEF LoadStore, Is, Disk, Issuer
<1>1. CASE auth.torn
  BY <1>0, <1>1, SpoilsInv DEF LoadStore
<1>2. CASE ~auth.torn
  <2> DEFINE st == own[u].stale /\ own[u].kind = "source"
             w == [own[u] EXCEPT !.creds = auth.creds, !.stale = st]
  <2>1. own[u] \in Works /\ auth.creds \in Stores /\ st \in BOOLEAN
    BY DEF CredInv, CredTypes, Works
  <2>2. own' = [own EXCEPT ![u] = w] /\ cPc' = [cPc EXCEPT ![u] = "save"] /\ UNCHANGED spoiled
    BY <1>2 DEF LoadStore, To, CredInv, CredTypes
  <2>25. ~st => ~own[u].stale \/ own[u].kind # "source"
    OBVIOUS
  <2> HIDE DEF st
  <2>3. /\ w \in Works /\ w.kind = own[u].kind /\ w.name = own[u].name /\ w.cred = own[u].cred
        /\ w.stale = st /\ w.creds = auth.creds
    BY <2>1 DEF Works
  <2> HIDE DEF w
  <2>4. KindFits(u, "load", own[u])
    BY <1>0 DEF CredInv, KindsFit
  <2>5. KindFits(u, "save", w)
    BY <2>3, <2>4 DEF KindFits, Writing, LoggingIn
  <2>6. ASSUME ~spoiled PROVE MethodFits("save", w) /\ CurrentOf(u, "save", w)
    <3>1. MethodFits("load", own[u]) /\ CurrentOf(u, "load", own[u])
      BY <1>0, <2>6 DEF CredInv, Unspoiled, MethodsFit, Current
    <3> QED
      BY <2>25, <2>3, <3>1 DEF MethodFits, CurrentOf, Writing
  <2>7. "save" \in Writing /\ cPc[u] \in Writing /\ cPc[u] # "write" /\ cPc[u] # "config"
    BY <1>0 DEF Writing
  <2> QED
    BY <1>0, <2>2, <2>3, <2>5, <2>6, <2>7, MoveKeeps
<1> QED
  BY <1>1, <1>2

\* The number of the next token.
LEMMA NextNumber ==
  ASSUME NEW n \in Nat
  PROVE  /\ n + 1 \in Nat /\ n + 1 # 0 /\ n + 1 <= n + 1 /\ n + 1 \in 1 .. (n + 1)
         /\ \A x \in Nat : x <= n => x # n + 1 /\ x <= n + 1
         /\ 1 .. n \subseteq 1 .. (n + 1) /\ 0 \notin 1 .. n /\ 1 .. n \subseteq Nat
OBVIOUS

\* Refresh tokens are numbers.
LEMMA RefreshNumbers ==
  ASSUME CredTypes
  PROVE  /\ \A p \in DOMAIN auth.creds : auth.creds[p].refresh \in Nat
         /\ \A v \in Users : own[v].cred.refresh \in Nat
<1>1. auth.creds \in Stores /\ \A v \in Users : own[v] \in Works
  BY DEF CredTypes
<1>2. auth.creds \in [DOMAIN auth.creds -> Credential]
  BY <1>1, StoreFacts
<1>3. \A p \in DOMAIN auth.creds : auth.creds[p] \in Credential
  BY <1>2
<1>4. \A v \in Users : own[v].cred \in Credential
  BY <1>1 DEF Works
<1> QED
  BY <1>3, <1>4 DEF Credential

\* A new credential is issued to u, who is to store it.
LEMMA IssueInv ==
  ASSUME CredInv, NEW u \in Users, NEW old \in Nat, NEW rotates \in BOOLEAN, NEW project \in BOOLEAN,
         Issue(u, old, rotates, project), To(u, "load"), UNCHANGED <<auth, method, spoiled>>,
         \/ cPc[u] = "refresh" /\ old = own[u].cred.refresh /\ old \in live
         \/ cPc[u] = "exchange" /\ old = 0 /\ rotates
  PROVE  CredInv'
<1> DEFINE r == IF rotates THEN issued + 1 ELSE old
           c == [access |-> issued + 1, refresh |-> r, method |-> "oauth", project |-> project]
           w == [own[u] EXCEPT !.cred = c]
<1>0. /\ issued \in Nat /\ live \subseteq 1 .. issued /\ own[u] \in Works
      /\ auth \in [torn : BOOLEAN, creds : Stores] /\ method \in [Providers -> {"", "token", "oauth"}]
      /\ spoiled \in BOOLEAN
      /\ KindFits(u, cPc[u], own[u])
  BY DEF CredInv, CredTypes, KindsFit
<1>1. /\ issued' = issued + 1 /\ live' = (IF rotates THEN (live \ {old}) \cup {r} ELSE live)
      /\ own' = [own EXCEPT ![u] = w] /\ cPc' = [cPc EXCEPT ![u] = "load"]
  BY DEF Issue, To, CredInv, CredTypes
<1>a. issued \in Nat
  BY <1>0
<1>b. live \subseteq 1 .. issued /\ issued' = issued + 1 /\ issued' \in Nat /\ old \in Nat
  BY <1>a, <1>0, <1>1, NextNumber
<1>2. /\ r \in Nat /\ r \in live' /\ r # 0 /\ issued + 1 \in Nat
      /\ r = issued + 1 \/ (r = old /\ r = own[u].cred.refresh /\ cPc[u] = "refresh")
      /\ cPc[u] = "exchange" => r = issued + 1
      /\ live' \subseteq 1 .. issued' /\ live \ {old} \subseteq live'
  <2>1. CASE rotates
    <3>1. r = issued + 1 /\ live' = (live \ {old}) \cup {r}
      BY <1>1, <2>1
    <3> HIDE DEF r
    <3>2. /\ issued + 1 \in Nat /\ issued + 1 # 0 /\ issued + 1 \in 1 .. (issued + 1)
          /\ 1 .. issued \subseteq 1 .. (issued + 1)
      BY <1>a, NextNumber
    <3>3. live' \subseteq 1 .. issued'
      BY <1>b, <3>1, <3>2
    <3> QED
      BY <3>1, <3>2, <3>3
  <2>2. CASE ~rotates
    <3>1. r = old /\ live' = live
      BY <1>1, <2>2
    <3>2. cPc[u] = "refresh" /\ old = own[u].cred.refresh /\ old \in live
      BY <2>2
    <3> HIDE DEF r
    <3> QED
      BY <1>a, <1>b, <3>1, <3>2, NextNumber
  <2> QED
    BY <2>1, <2>2
<1>3. c \in Credential /\ c.refresh = r /\ c.method = "oauth"
  BY <1>2 DEF Credential
<1>4. live' \subseteq 1 .. issued' /\ live \ {old} \subseteq live'
  BY <1>2
<1> HIDE DEF r, c
<1>5. w \in Works /\ w.kind = own[u].kind /\ w.name = own[u].name /\ w.cred = c /\ w.stale = own[u].stale
  BY <1>0, <1>3 DEF Works
<1> HIDE DEF w
<1>6. /\ own[u].kind \in {"source", "login"} /\ (own[u].kind = "source" <=> cPc[u] = "refresh")
      /\ cPc[u] = "exchange" => own[u].name # "anthropic"
      /\ own[u].kind = "source" => own[u].name \in OAuth
      /\ own[u].name \in Providers \cup {Alias}
  BY <1>0, CanonicalNames DEF KindFits, LoggingIn
<1>7. KindFits(u, "load", w)
  BY <1>0, <1>5, <1>6 DEF KindFits, Writing, LoggingIn
<1>8. /\ CredTypes' /\ KindsFit'
      /\ own'[u] = w /\ cPc'[u] = "load"
      /\ \A v \in Users \ {u} : own'[v] = own[v] /\ cPc'[v] = cPc[v]
  <2>1. "load" \in {"idle", "use", "refresh", "config"} \cup Writing \cup LoggingIn
    BY DEF Writing
  <2>2. issued' \in Nat
    BY <1>b
  <2> QED
    BY <1>0, <1>1, <1>4, <1>5, <1>7, <2>1, <2>2, SpoiledKeeps
<1>c. /\ \A p \in DOMAIN auth.creds : auth.creds[p].refresh \in Nat
      /\ \A v \in Users : own[v].cred.refresh \in Nat
  BY RefreshNumbers DEF CredInv
<1>9. SUFFICES ASSUME ~spoiled PROVE Unspoiled'
  BY <1>8 DEF CredInv
<1>10. Unspoiled
  BY <1>9 DEF CredInv
<1>11. cPc[u] \notin Writing /\ "load" \in Writing /\ cPc[u] # "write" /\ cPc[u] # "config"
  BY DEF Writing
<1>12. /\ \A v \in Users : \A p : Replaces(v, p) => Replaces(v, p)'
       /\ \A p : Canonical(own[u].name) = p => Replaces(u, p)'
  <2>1. ASSUME NEW p, Canonical(own[u].name) = p PROVE Replaces(u, p)'
    <3>1. own'[u].kind # "logout" /\ own'[u].name = own[u].name /\ cPc'[u] \in Writing
      BY <1>5, <1>6, <1>8, <1>11
    <3> QED
      BY <2>1, <3>1 DEF Replaces, Canonical
  <2>2. \A p : ~Replaces(u, p)
    BY <1>11 DEF Replaces
  <2>3. \A v \in Users \ {u} : \A p : Replaces(v, p) => Replaces(v, p)'
    BY <1>8 DEF Replaces, Canonical
  <2> QED
    BY <2>1, <2>2, <2>3
<1>13. \A x \in live : x = old \/ x \in live'
  BY <1>4
<1>14. MethodsFit'
  <2>1. MethodFits("load", w)
    BY <1>3, <1>5, <1>6, CanonicalNames DEF MethodFits, MethodOf
  <2> QED
    BY <1>8, <1>10, <2>1 DEF Unspoiled, MethodsFit, MethodFits
<1>15. OneProvider'
  <2>0. OneProvider
    BY <1>10 DEF Unspoiled
  <2>1. /\ \A p \in DOMAIN auth.creds : auth.creds[p].refresh \in Nat /\ auth.creds[p].refresh <= issued
        /\ \A v \in Users : own[v].cred.refresh \in Nat /\ own[v].cred.refresh <= issued
    BY <2>0, <1>c DEF OneProvider
  <2>2. \A p \in DOMAIN auth.creds : auth.creds[p].refresh # issued + 1 /\ auth.creds[p].refresh <= issued'
    BY <1>a, <1>b, <2>1, NextNumber
  <2>3. \A v \in Users : own[v].cred.refresh # issued + 1 /\ own[v].cred.refresh <= issued'
    BY <1>a, <1>b, <2>1, NextNumber
  <2>4. r <= issued'
    <3>1. issued + 1 <= issued'
      BY <1>a, <1>b, NextNumber
    <3> QED
      BY <1>2, <2>3, <3>1
  <2>5. \A v \in Users : own'[v].cred.refresh <= issued'
    BY <1>3, <1>5, <1>8, <2>3, <2>4
  <2>6. \A p \in DOMAIN auth.creds :
          r = auth.creds[p].refresh /\ auth.creds[p].refresh # 0 => Canonical(own[u].name) = p
    BY <1>2, <2>0, <2>2 DEF OneProvider
  <2>7. \A v \in Users \ {u} : r = own[v].cred.refresh => Canonical(own[u].name) = Canonical(own[v].name)
    BY <1>2, <2>0, <2>3 DEF OneProvider
  <2>8. \A v \in Users : \A p \in DOMAIN auth.creds :
          own'[v].cred.refresh = auth.creds[p].refresh /\ auth.creds[p].refresh # 0 => Canonical(own'[v].name) = p
    BY <1>3, <1>5, <1>8, <2>0, <2>6 DEF OneProvider
  <2>9. ASSUME NEW v \in Users, NEW x \in Users, own'[v].cred.refresh = own'[x].cred.refresh,
               own'[v].cred.refresh # 0
        PROVE  Canonical(own'[v].name) = Canonical(own'[x].name)
    <3>1. CASE v = u
      BY <1>3, <1>5, <1>8, <2>7, <2>9, <3>1
    <3>2. CASE x = u
      BY <1>3, <1>5, <1>8, <2>7, <2>9, <3>2
    <3>3. CASE v # u /\ x # u
      BY <1>8, <2>0, <2>9, <3>3 DEF OneProvider
    <3> QED
      BY <3>1, <3>2, <3>3
  <2> QED
    BY <2>0, <2>2, <2>5, <2>8, <2>9 DEF OneProvider, Canonical
<1>16. old # 0 => \A v \in Users : old = own[v].cred.refresh => Canonical(own[v].name) = Canonical(own[u].name)
  BY <1>10 DEF Unspoiled, OneProvider
<1>17. old = 0 => old \notin live
  BY <1>a, <1>b, NextNumber
<1>18. Current'
  <2> SUFFICES ASSUME NEW v \in Users PROVE CurrentOf(v, cPc[v], own[v])'
    BY DEF Current
  <2>0. CurrentOf(v, cPc[v], own[v])
    BY <1>10 DEF Unspoiled, Current
  <2>1. CASE v = u
    BY <1>2, <1>3, <1>5, <1>8, <2>0, <2>1 DEF CurrentOf, Accepted
  <2>2. CASE v # u
    <3>1. own[v].kind = "source" => own[v].name \in OAuth
      BY DEF CredInv, KindsFit, KindFits
    <3>2. ASSUME own[v].kind = "source", Accepted(v, own[v].name, own[v].cred.refresh)
          PROVE  Accepted(v, own[v].name, own[v].cred.refresh)'
      <4>0. own'[v] = own[v]
        BY <1>8, <2>2
      <4>1. CASE own[v].cred.refresh \in live'
        BY <4>0, <4>1 DEF Accepted
      <4>2. CASE own[v].cred.refresh = 0 \/ \E x \in Users \ {v} : Replaces(x, own[v].name)
        BY <1>12, <4>0, <4>2 DEF Accepted
      <4>3. CASE own[v].cred.refresh = old /\ old \in live
        <5>1. Canonical(own[u].name) = own[v].name
          BY <1>16, <1>17, <3>1, <3>2, <4>3, CanonicalNames
        <5>2. Replaces(u, own[v].name)'
          BY <1>12, <4>0, <5>1 DEF Replaces, Canonical
        <5> QED
          BY <2>2, <4>0, <5>2 DEF Accepted
      <4> QED
        BY <1>13, <3>2, <4>1, <4>2, <4>3 DEF Accepted
    <3>3. own'[v] = own[v] /\ cPc'[v] = cPc[v]
      BY <1>8, <2>2
    <3> QED
      BY <2>0, <3>2, <3>3 DEF CurrentOf
  <2> QED
    BY <2>1, <2>2
<1>19. LoginIsNew'
  <2> SUFFICES ASSUME NEW v \in Users, own'[v].kind = "login", cPc'[v] \in Writing, own'[v].cred.refresh # 0
               PROVE  /\ own'[v].cred.refresh \in live'
                      /\ \A x \in Users \ {v} : own'[x].cred.refresh # own'[v].cred.refresh
                      /\ \A p \in DOMAIN auth.creds : auth.creds[p].refresh # own'[v].cred.refresh
    BY DEF LoginIsNew
  <2>0. /\ \A p \in DOMAIN auth.creds : auth.creds[p].refresh \in Nat /\ auth.creds[p].refresh <= issued
        /\ \A x \in Users : own[x].cred.refresh \in Nat /\ own[x].cred.refresh <= issued
    BY <1>10, <1>c DEF Unspoiled, OneProvider
  <2>1. /\ \A p \in DOMAIN auth.creds : auth.creds[p].refresh # issued + 1
        /\ \A x \in Users : own[x].cred.refresh # issued + 1
    BY <1>a, <2>0, NextNumber
  <2>2. CASE v = u
    <3>1. r = issued + 1
      BY <1>2, <1>5, <1>6, <1>8, <2>2
    <3> QED
      BY <1>2, <1>3, <1>5, <1>8, <2>1, <2>2, <3>1
  <2>3. CASE v # u
    <3>1. /\ own[v].cred.refresh \in live
          /\ \A x \in Users \ {v} : own[x].cred.refresh # own[v].cred.refresh
          /\ \A p \in DOMAIN auth.creds : auth.creds[p].refresh # own[v].cred.refresh
      BY <1>8, <1>10, <2>3 DEF Unspoiled, LoginIsNew
    <3>2. own[v].cred.refresh # old /\ own[v].cred.refresh # r
      BY <1>2, <1>8, <2>1, <2>3, <3>1
    <3> QED
      BY <1>3, <1>5, <1>8, <1>13, <2>3, <3>1, <3>2
  <2> QED
    BY <2>2, <2>3
<1>20. TornIsWritten'
  BY <1>8, <1>10, <1>11 DEF Unspoiled, TornIsWritten
<1>21. FileIsLive'
  <2> SUFFICES ASSUME NEW p \in DOMAIN auth.creds
               PROVE  auth.creds[p].refresh \in live' \cup {0} \/ \E v \in Users : Replaces(v, p)'
    BY DEF FileIsLive
  <2>1. auth.creds[p].refresh \in live \cup {0} \/ \E v \in Users : Replaces(v, p)
    BY <1>10 DEF Unspoiled, FileIsLive
  <2>2. auth.creds[p].refresh = old /\ old # 0 => Canonical(own[u].name) = p
    BY <1>10 DEF Unspoiled, OneProvider
  <2> QED
    BY <1>12, <1>13, <2>1, <2>2
<1>22. ConfigFollows'
  <2>1. /\ cPc'[AuthCli] = "config" <=> cPc[AuthCli] = "config"
        /\ cPc[AuthCli] = "config" => own'[AuthCli] = own[AuthCli]
    BY <1>8, <1>11, WorkTypes
  <2> QED
    BY <1>10, <2>1 DEF Unspoiled, ConfigFollows, Agrees
<1> QED
  BY <1>14, <1>15, <1>18, <1>19, <1>20, <1>21, <1>22 DEF Unspoiled

\* The file is truncated before it is written.
LEMMA TruncateInv == ASSUME CredInv, NEW u \in Users, Truncate(u) PROVE CredInv'
<1>0. cPc[u] = "save" /\ UNCHANGED <<method, issued, live>>
  BY DEF Truncate, Is, Issuer
<1>1. CASE Returns(u) /\ spoiled' = TRUE /\ UNCHANGED auth
  BY <1>0, <1>1, SpoilsInv
<1>2. CASE auth' = [auth EXCEPT !.torn = TRUE] /\ To(u, "write") /\ UNCHANGED <<own, spoiled>>
  <2>0. /\ auth \in [torn : BOOLEAN, creds : Stores] /\ own[u] \in Works /\ own \in [Users -> Works]
        /\ issued \in Nat /\ live \subseteq 1 .. issued /\ spoiled \in BOOLEAN
        /\ method \in [Providers -> {"", "token", "oauth"}] /\ KindFits(u, "save", own[u])
    BY <1>0 DEF CredInv, CredTypes, KindsFit
  <2>1. /\ auth' \in [torn : BOOLEAN, creds : Stores] /\ auth'.creds = auth.creds
        /\ own' = [own EXCEPT ![u] = own[u]] /\ cPc' = [cPc EXCEPT ![u] = "write"]
    BY <1>2, <2>0 DEF To
  <2>2. KindFits(u, "write", own[u]) /\ "write" \in {"idle", "use", "refresh", "config"} \cup Writing \cup LoggingIn
    BY <2>0 DEF KindFits, Writing, LoggingIn
  <2>3. /\ CredTypes' /\ KindsFit' /\ cPc'[u] = "write"
        /\ \A v \in Users \ {u} : cPc'[v] = cPc[v]
    <3>1. issued' \in Nat /\ live' \subseteq 1 .. issued' /\ spoiled' \in BOOLEAN
          /\ method' \in [Providers -> {"", "token", "oauth"}]
      BY <1>0, <1>2, <2>0
    <3> QED
      BY <2>0, <2>1, <2>2, <3>1, SpoiledKeeps
  <2>4. SUFFICES ASSUME Unspoiled PROVE Unspoiled'
    BY <1>2, <2>3 DEF CredInv
  <2>5. \A v \in Users : (cPc'[v] \in Writing <=> cPc[v] \in Writing) /\ (cPc'[v] = "config" <=> cPc[v] = "config")
    BY <1>0, <2>3 DEF Writing
  <2>6. \A v \in Users : \A p : Replaces(v, p)' <=> Replaces(v, p)
    BY <1>2, <2>5 DEF Replaces
  <2>7. MethodsFit'
    BY <1>2, <2>1, <2>4, <2>5 DEF Unspoiled, MethodsFit, MethodFits
  <2>8. OneProvider'
    BY <1>0, <1>2, <2>1, <2>4 DEF Unspoiled, OneProvider, Canonical
  <2>9. Current'
    <3> SUFFICES ASSUME NEW v \in Users PROVE CurrentOf(v, cPc[v], own[v])'
      BY DEF Current
    <3>1. CurrentOf(v, cPc[v], own[v])
      BY <2>4 DEF Unspoiled, Current
    <3>2. (cPc'[v] \in {"save", "write"} <=> cPc[v] \in {"save", "write"}) /\ (cPc'[v] # "refresh" <=> cPc[v] # "refresh")
      BY <1>0, <2>3
    <3>3. \A p, r : Accepted(v, p, r)' <=> Accepted(v, p, r)
      BY <1>0, <2>6 DEF Accepted
    <3> QED
      BY <1>2, <2>1, <3>1, <3>2, <3>3 DEF CurrentOf, Accepted
  <2>10. LoginIsNew'
    BY <1>0, <1>2, <2>1, <2>4, <2>5 DEF Unspoiled, LoginIsNew
  <2>11. TornIsWritten'
    BY <2>3 DEF TornIsWritten
  <2>12. FileIsLive'
    BY <1>0, <2>1, <2>4, <2>6 DEF Unspoiled, FileIsLive
  <2>13. ConfigFollows'
    BY <1>0, <1>2, <2>1, <2>4, <2>5, WorkTypes DEF Unspoiled, ConfigFollows, Agrees, Canonical
  <2> QED
    BY <2>7, <2>8, <2>9, <2>10, <2>11, <2>12, <2>13 DEF Unspoiled
<1> QED
  BY <1>1, <1>2 DEF Truncate

\* What others have read is marked, and nothing else of their work changes.
LEMMA OutdatedFacts ==
  ASSUME CredTypes
  PROVE  \A v \in Users : /\ Outdated[v] \in Works /\ Outdated[v].kind = own[v].kind /\ Outdated[v].name = own[v].name
                          /\ Outdated[v].cred = own[v].cred
                          /\ own[v].kind # "none" => Outdated[v].stale
<1> TAKE v \in Users
<1> DEFINE b == own[v].kind # "none"
           w == own[v]
<1>1. Outdated[v] = [w EXCEPT !.stale = b]
  BY DEF Outdated
<1>2. w \in Works /\ b \in BOOLEAN
  BY DEF CredTypes
<1>3. own[v].kind # "none" => b
  OBVIOUS
<1> HIDE DEF b, w
<1>4. /\ [w EXCEPT !.stale = b] \in Works /\ [w EXCEPT !.stale = b].kind = w.kind
      /\ [w EXCEPT !.stale = b].name = w.name /\ [w EXCEPT !.stale = b].cred = w.cred
      /\ [w EXCEPT !.stale = b].stale = b
  BY <1>2 DEF Works
<1> QED
  BY <1>1, <1>3, <1>4 DEF w

\* What a write makes of the table that was loaded.
LEMMA ChangedFacts ==
  ASSUME NEW w \in Works, w.kind \in {"source", "login", "logout"}, w.name \in Providers \cup {Alias}
  PROVE  /\ Changed(w) \in Stores
         /\ w.kind = "logout" =>
              /\ DOMAIN Changed(w) = DOMAIN w.creds \ {w.name}
              /\ \A p \in DOMAIN Changed(w) : Changed(w)[p] = w.creds[p]
         /\ w.kind # "logout" =>
              /\ DOMAIN Changed(w) = DOMAIN w.creds \cup {Canonical(w.name)}
              /\ Changed(w)[Canonical(w.name)] = w.cred
              /\ \A p \in DOMAIN Changed(w) : p # Canonical(w.name) => Changed(w)[p] = w.creds[p]
<1> DEFINE c == w.creds
           n == Canonical(w.name)
           D == DOMAIN c
<1>1. c \in Stores /\ w.cred \in Credential /\ n \in Providers
  BY CanonicalNames DEF Works
<1>2. D \subseteq Providers /\ c \in [D -> Credential]
  BY <1>1, StoreFacts
<1>3. CASE w.kind = "logout"
  <2>1. Changed(w) = [p \in D \ {w.name} |-> c[p]]
    BY <1>3 DEF Changed
  <2> HIDE DEF D
  <2>2. Changed(w) \in [D \ {w.name} -> Credential] /\ D \ {w.name} \in SUBSET Providers
    BY <1>2, <2>1
  <2>3. Changed(w) \in Stores
    BY <2>2, StoreFacts
  <2> QED
    BY <1>3, <2>1, <2>3 DEF D
<1>4. CASE w.kind # "logout"
  <2>1. Changed(w) = [p \in D \cup {n} |-> IF p = n THEN w.cred ELSE c[p]]
    BY <1>4 DEF Changed
  <2> HIDE DEF D, n
  <2>2. Changed(w) \in [D \cup {n} -> Credential] /\ D \cup {n} \in SUBSET Providers
    BY <1>1, <1>2, <2>1
  <2>3. Changed(w) \in Stores
    BY <2>2, StoreFacts
  <2> QED
    BY <1>4, <2>1, <2>3 DEF D, n
<1> QED
  BY <1>3, <1>4

\* A credential or a deletion reaches the file.
LEMMA WriteStoreInv == ASSUME CredInv, NEW u \in Users, WriteStore(u) PROVE CredInv'
<1> DEFINE w == own[u]
           n == Canonical(w.name)
           c == auth.creds
           d == Changed(w)
           l == IF w.kind \in {"login", "logout"} THEN "config" ELSE "use"
<1>0. CredTypes /\ w \in Works /\ cPc[u] = "write" /\ KindFits(u, "write", w)
  BY DEF CredInv, CredTypes, KindsFit, WriteStore, Is
<1>1. /\ auth' = [torn |-> FALSE, creds |-> d] /\ cPc' = [cPc EXCEPT ![u] = l]
      /\ own' = [Outdated EXCEPT ![u].creds = NoCreds, ![u].stale = FALSE]
      /\ UNCHANGED <<method, issued, live>>
  BY DEF WriteStore, To, Issuer
<1>2. /\ w.kind \in {"source", "login", "logout"} /\ w.name \in Providers \cup {Alias} /\ n \in Providers
      /\ w.kind = "source" => w.name \in OAuth /\ n = w.name
      /\ w.kind # "source" => u = AuthCli
      /\ l = "use" <=> w.kind = "source"
      /\ l \in {"use", "config"}
  <2>1. w.kind \in {"source", "login", "logout"}
    BY <1>0 DEF KindFits, Writing
  <2> QED
    BY <1>0, <2>1, CanonicalNames DEF KindFits
<1>3. /\ d \in Stores
      /\ w.kind = "logout" => /\ DOMAIN d = DOMAIN w.creds \ {w.name}
                              /\ \A p \in DOMAIN d : d[p] = w.creds[p]
      /\ w.kind # "logout" => /\ DOMAIN d = DOMAIN w.creds \cup {n}
                              /\ d[n] = w.cred
                              /\ \A p \in DOMAIN d : p # n => d[p] = w.creds[p]
  BY <1>0, <1>2, ChangedFacts
<1>4. /\ own'[u] \in Works /\ own'[u].kind = w.kind /\ own'[u].name = w.name /\ own'[u].cred = w.cred
      /\ ~own'[u].stale
  <2> DEFINE o == Outdated[u]
  <2>1. o \in Works /\ o.kind = w.kind /\ o.name = w.name /\ o.cred = w.cred
    BY <1>0, OutdatedFacts
  <2>2. own'[u] = [o EXCEPT !.creds = NoCreds, !.stale = FALSE]
    BY <1>1 DEF Outdated
  <2> HIDE DEF o
  <2> QED
    BY <2>1, <2>2, WorkTypes DEF Works
<1>5. \A v \in Users \ {u} :
        /\ own'[v] \in Works /\ own'[v].kind = own[v].kind /\ own'[v].name = own[v].name /\ own'[v].cred = own[v].cred
        /\ own[v].kind # "none" => own'[v].stale
        /\ cPc'[v] = cPc[v]
  <2>1. \A v \in Users \ {u} : own'[v] = Outdated[v]
    BY <1>1 DEF Outdated
  <2>2. \A v \in Users \ {u} : cPc'[v] = cPc[v]
    BY <1>0, <1>1 DEF CredTypes
  <2> QED
    BY <1>0, <2>1, <2>2, OutdatedFacts
<1>6. /\ cPc'[u] = l /\ l \notin Writing /\ l # "write"
      /\ cPc' \in [Users -> {"idle", "use", "refresh", "config"} \cup Writing \cup LoggingIn]
  BY <1>0, <1>1, <1>2 DEF CredTypes, Writing
<1>7. own' \in [Users -> Works]
  <2>1. own' = [v \in Users |-> own'[v]]
    BY <1>1 DEF Outdated
  <2> QED
    BY <1>4, <1>5, <2>1
<1>8. auth'.creds = d /\ ~auth'.torn /\ auth' \in [torn : BOOLEAN, creds : Stores]
  BY <1>1, <1>3
<1> HIDE DEF l, d
<1>9. CredTypes'
  <2>1. spoiled' \in BOOLEAN
    BY DEF WriteStore
  <2> QED
    BY <1>0, <1>1, <1>6, <1>7, <1>8, <2>1 DEF CredTypes
<1>10. KindsFit'
  <2> SUFFICES ASSUME NEW v \in Users PROVE KindFits(v, cPc'[v], own'[v])
    BY DEF KindsFit, KindFits
  <2>0. KindFits(v, cPc[v], own[v])
    BY DEF CredInv, KindsFit
  <2>1. CASE v = u
    BY <1>0, <1>2, <1>4, <1>6, <2>0, <2>1 DEF KindFits, Writing, LoggingIn
  <2>2. CASE v # u
    BY <1>5, <2>0, <2>2 DEF KindFits
  <2> QED
    BY <2>1, <2>2
<1>11. SUFFICES ASSUME ~spoiled' PROVE Unspoiled'
  BY <1>9, <1>10 DEF CredInv
<1>12. ~spoiled /\ ~w.stale
  BY <1>11 DEF WriteStore
<1>13. Unspoiled /\ CurrentOf(u, "write", w) /\ MethodFits("write", w)
  BY <1>0, <1>12 DEF CredInv, Unspoiled, Current, MethodsFit
<1>14. w.creds = c /\ (w.kind = "source" => w.name \in DOMAIN c /\ Accepted(u, w.name, w.cred.refresh))
  BY <1>12, <1>13 DEF CurrentOf
<1>15. w.kind # "logout" => w.cred.method = MethodOf(n)
  BY <1>2, <1>13 DEF MethodFits, Writing
<1>16. \A p \in DOMAIN d : (p = n /\ w.kind # "logout" /\ d[p] = w.cred) \/ (p \in DOMAIN c /\ d[p] = c[p] /\ (p # n \/ w.kind = "logout"))
  BY <1>2, <1>3, <1>14
<1>17. \A v \in Users : own'[v].kind = own[v].kind /\ own'[v].name = own[v].name /\ own'[v].cred = own[v].cred
  BY <1>4, <1>5
<1>18. \A v \in Users \ {u} : \A p : Replaces(v, p) => Replaces(v, p)'
  BY <1>5 DEF Replaces, Canonical
<1> HIDE DEF w, n, c
<1>19. MethodsFit'
  <2>1. \A p \in DOMAIN d : d[p].method = MethodOf(p)
    BY <1>13, <1>15, <1>16 DEF Unspoiled, MethodsFit, c
  <2>2. ASSUME NEW v \in Users PROVE MethodFits(cPc'[v], own'[v])
    <3>1. MethodFits(cPc[v], own[v])
      BY <1>13 DEF Unspoiled, MethodsFit
    <3>2. CASE v = u
      BY <1>0, <1>2, <1>13, <1>4, <1>6, <3>2 DEF MethodFits, Writing
    <3>3. CASE v # u
      BY <1>5, <3>1, <3>3 DEF MethodFits
    <3> QED
      BY <3>2, <3>3
  <2> QED
    BY <1>8, <2>1, <2>2 DEF MethodsFit, MethodFits
<1>20. OneProvider'
  <2>0. OneProvider
    BY <1>13 DEF Unspoiled
  <2>1. ASSUME NEW p \in DOMAIN d, NEW q \in DOMAIN d, d[p].refresh = d[q].refresh, d[p].refresh # 0 PROVE p = q
    BY <1>16, <2>0, <2>1 DEF OneProvider, w, n, c
  <2>2. ASSUME NEW v \in Users, NEW p \in DOMAIN d, own[v].cred.refresh = d[p].refresh, d[p].refresh # 0
        PROVE  Canonical(own[v].name) = p
    BY <1>16, <2>0, <2>2 DEF OneProvider, w, n, c
  <2>3. \A p \in DOMAIN d : d[p].refresh <= issued
    BY <1>16, <2>0 DEF OneProvider, w, c
  <2>4. \A v \in Users : \A p \in DOMAIN d :
          own'[v].cred.refresh = d[p].refresh /\ d[p].refresh # 0 => Canonical(own'[v].name) = p
    BY <1>17, <2>2
  <2>5. ASSUME NEW v \in Users, NEW x \in Users, own'[v].cred.refresh = own'[x].cred.refresh,
               own'[v].cred.refresh # 0
        PROVE  Canonical(own'[v].name) = Canonical(own'[x].name)
    <3>1. Canonical(own[v].name) = Canonical(own[x].name)
      BY <1>17, <2>0, <2>5 DEF OneProvider
    <3> QED
      BY <1>17, <3>1
  <2>6. \A p \in DOMAIN d : d[p].refresh <= issued'
    BY <1>1, <2>3
  <2>7. \A v \in Users : own'[v].cred.refresh <= issued'
    BY <1>1, <1>17, <2>0 DEF OneProvider
  <2> QED
    BY <1>8, <2>1, <2>4, <2>5, <2>6, <2>7 DEF OneProvider, Canonical
<1>21. Current'
  <2> SUFFICES ASSUME NEW v \in Users, ~own'[v].stale
               PROVE  /\ own'[v].kind = "source" => own'[v].name \in DOMAIN d
                      /\ own'[v].kind = "source" /\ cPc'[v] # "refresh" => Accepted(v, own[v].name, own[v].cred.refresh)'
                      /\ cPc'[v] \in {"save", "write"} => own'[v].creds = d
    BY <1>8 DEF Current, CurrentOf
  <2>1. CASE v = u
    <3>1. w.kind = "source" => w.name \in DOMAIN d
      BY <1>2, <1>3
    <3>2. ASSUME w.kind = "source" PROVE Accepted(u, own[u].name, own[u].cred.refresh)'
      <4>1. Accepted(u, w.name, w.cred.refresh)
        BY <1>14, <3>2
      <4> QED
        BY <1>1, <1>4, <1>18, <4>1 DEF Accepted
    <3> QED
      BY <1>2, <1>4, <1>6, <2>1, <3>1, <3>2
  <2>2. CASE v # u
    <3>1. own[v].kind = "none" /\ own'[v].kind = "none" /\ cPc'[v] = cPc[v]
      BY <1>5, <2>2
    <3>2. cPc[v] = "idle"
      BY <3>1 DEF CredInv, KindsFit, KindFits
    <3> QED
      BY <3>1, <3>2
  <2> QED
    BY <2>1, <2>2
<1>22. LoginIsNew'
  <2> SUFFICES ASSUME NEW v \in Users, own'[v].kind = "login", cPc'[v] \in Writing, own'[v].cred.refresh # 0
               PROVE  /\ own'[v].cred.refresh \in live
                      /\ \A x \in Users \ {v} : own'[x].cred.refresh # own'[v].cred.refresh
                      /\ \A p \in DOMAIN d : d[p].refresh # own'[v].cred.refresh
    BY <1>1, <1>8 DEF LoginIsNew
  <2>1. v # u
    BY <1>6
  <2>2. /\ own[v].cred.refresh \in live
        /\ \A x \in Users \ {v} : own[x].cred.refresh # own[v].cred.refresh
        /\ \A p \in DOMAIN c : c[p].refresh # own[v].cred.refresh
    BY <1>5, <1>13, <2>1 DEF Unspoiled, LoginIsNew, c
  <2>3. \A p \in DOMAIN d : d[p].refresh # own[v].cred.refresh
    BY <1>16, <2>1, <2>2 DEF w
  <2> QED
    BY <1>17, <2>2, <2>3
<1>23. TornIsWritten'
  BY <1>8 DEF TornIsWritten
<1>24. FileIsLive'
  <2> SUFFICES ASSUME NEW p \in DOMAIN d
               PROVE  d[p].refresh \in live \cup {0} \/ \E v \in Users : Replaces(v, p)'
    BY <1>1, <1>8 DEF FileIsLive
  <2>1. CASE p = n /\ w.kind # "logout" /\ d[p] = w.cred
    <3>1. CASE w.kind = "source"
      <4>1. Accepted(u, p, w.cred.refresh)
        BY <1>2, <1>14, <2>1, <3>1
      <4> QED
        BY <1>18, <2>1, <4>1 DEF Accepted
    <3>2. CASE w.kind = "login"
      <4>1. w.cred.refresh # 0 => w.cred.refresh \in live
        BY <1>0, <1>13, <3>2 DEF Unspoiled, LoginIsNew, Writing, w
      <4> QED
        BY <2>1, <4>1
    <3> QED
      BY <1>2, <2>1, <3>1, <3>2
  <2>2. CASE p \in DOMAIN c /\ d[p] = c[p] /\ (p # n \/ w.kind = "logout")
    <3>1. c[p].refresh \in live \cup {0} \/ \E v \in Users : Replaces(v, p)
      BY <1>13, <2>2 DEF Unspoiled, FileIsLive, c
    <3>2. ~Replaces(u, p)
      BY <2>2 DEF Replaces, w, n
    <3> QED
      BY <1>18, <2>2, <3>1, <3>2
  <2> QED
    BY <1>16, <2>1, <2>2
<1>25. ConfigFollows'
  <2>0. ConfigFollows /\ AuthCli \in Users
    BY <1>13, WorkTypes DEF Unspoiled
  <2>1. CASE w.kind = "source"
    <3>1. DOMAIN d = DOMAIN c /\ n \in DOMAIN c
      BY <1>2, <1>3, <1>14, <2>1
    <3>2. \A p \in DOMAIN d : d[p].method = c[p].method
      BY <1>13, <1>15, <1>16, <3>1 DEF Unspoiled, MethodsFit, c
    <3>3. \A p \in Providers : Agrees(p) => Agrees(p)'
      BY <1>1, <1>8, <3>1, <3>2 DEF Agrees, c
    <3>4. cPc'[AuthCli] = "config" <=> cPc[AuthCli] = "config"
      BY <1>0, <1>2, <1>5, <1>6, <2>0, <2>1
    <3>5. own'[AuthCli].kind = own[AuthCli].kind /\ own'[AuthCli].name = own[AuthCli].name
      BY <1>17, <2>0
    <3>6. \A p \in Providers :
            Agrees(p)' \/ (cPc'[AuthCli] = "config" /\ (own'[AuthCli].kind = "logoutAll" \/ Canonical(own'[AuthCli].name) = p))
      BY <2>0, <3>3, <3>4, <3>5 DEF ConfigFollows
    <3> QED
      BY <1>8, <2>0, <3>1, <3>4, <3>5, <3>6 DEF ConfigFollows, Canonical, Agrees, c
  <2>2. CASE w.kind # "source"
    <3>1. u = AuthCli /\ cPc'[AuthCli] = "config"
      BY <1>2, <1>6, <2>2
    <3>2. \A p \in Providers : Agrees(p)
      BY <1>0, <2>0, <3>1 DEF ConfigFollows
    <3>3. own'[AuthCli].kind = w.kind /\ own'[AuthCli].name = w.name /\ Canonical(own'[AuthCli].name) = n
      BY <1>4, <3>1 DEF n
    <3>4. \A p \in Providers : p # n => p # w.name
      BY CanonicalNames DEF n
    <3>5. ASSUME NEW p \in Providers, p # n
          PROVE  /\ p \in DOMAIN d <=> p \in DOMAIN c
                 /\ p \in DOMAIN d => d[p] = c[p]
      BY <1>2, <1>3, <1>14, <3>4, <3>5
    <3>6. \A p \in Providers : p # n => Agrees(p)'
      BY <1>1, <1>8, <3>2, <3>5 DEF Agrees, c
    <3>7. w.kind = "login" => n \in DOMAIN d
      BY <1>3
    <3>8. w.kind = "logout" => w.name \notin DOMAIN d
      BY <1>3
    <3> QED
      BY <1>2, <1>8, <3>1, <3>3, <3>6, <3>7, <3>8 DEF ConfigFollows, Agrees, Canonical
  <2> QED
    BY <2>1, <2>2
<1> QED
  BY <1>19, <1>20, <1>21, <1>22, <1>23, <1>24, <1>25 DEF Unspoiled

\* Everything is deleted: what the others have read is out of date.
LEMMA DeleteAllInv == ASSUME CredInv, DeleteAllCredentials PROVE CredInv'
<1> DEFINE w == [NoWork EXCEPT !.kind = "logoutAll"]
<1>0. CredTypes /\ AuthCli \in Users
  BY WorkTypes DEF CredInv
<1>1. /\ auth' = [torn |-> FALSE, creds |-> NoCreds] /\ own' = [Outdated EXCEPT ![AuthCli] = w]
      /\ cPc' = [cPc EXCEPT ![AuthCli] = "config"] /\ cPc[AuthCli] = "idle"
      /\ UNCHANGED <<method, issued, live, spoiled>>
  BY DEF DeleteAllCredentials, To, Is, Issuer
<1>2. w \in Works /\ w.kind = "logoutAll" /\ w.cred = NoCred /\ NoCred.refresh = 0 /\ ~w.stale
  BY WorkTypes DEF Works, NoWork, NoCred
<1>3. own'[AuthCli] = w /\ cPc'[AuthCli] = "config"
  BY <1>0, <1>1 DEF Outdated, CredTypes
<1> HIDE DEF w
<1>4. \A v \in Users \ {AuthCli} :
        /\ own'[v] \in Works /\ own'[v].kind = own[v].kind /\ own'[v].name = own[v].name /\ own'[v].cred = own[v].cred
        /\ own[v].kind # "none" => own'[v].stale
        /\ cPc'[v] = cPc[v]
  <2>1. \A v \in Users \ {AuthCli} : own'[v] = Outdated[v]
    BY <1>1 DEF Outdated
  <2>2. \A v \in Users \ {AuthCli} : cPc'[v] = cPc[v]
    BY <1>0, <1>1 DEF CredTypes
  <2> QED
    BY <1>0, <2>1, <2>2, OutdatedFacts
<1>5. own' \in [Users -> Works]
  <2>1. own' = [v \in Users |-> own'[v]]
    BY <1>1 DEF Outdated
  <2> QED
    BY <1>2, <1>3, <1>4, <2>1
<1>6. auth' \in [torn : BOOLEAN, creds : Stores] /\ DOMAIN auth'.creds = {} /\ ~auth'.torn
  BY <1>1, WorkTypes
<1>7. CredTypes'
  BY <1>0, <1>1, <1>5, <1>6 DEF CredTypes
<1>8. \A v \in Users : KindFits(v, cPc[v], own[v])
  BY DEF CredInv, KindsFit
<1>9. KindsFit'
  <2> SUFFICES ASSUME NEW v \in Users PROVE KindFits(v, cPc'[v], own'[v])
    BY DEF KindsFit, KindFits
  <2>1. CASE v = AuthCli
    BY <1>2, <1>3, <2>1 DEF KindFits, Writing, LoggingIn
  <2>2. CASE v # AuthCli
    BY <1>4, <1>8, <2>2 DEF KindFits
  <2> QED
    BY <2>1, <2>2
<1>10. SUFFICES ASSUME Unspoiled PROVE Unspoiled'
  BY <1>1, <1>7, <1>9 DEF CredInv
<1>11. MethodsFit'
  <2> SUFFICES ASSUME NEW v \in Users PROVE MethodFits(cPc'[v], own'[v])
    BY <1>6 DEF MethodsFit, MethodFits
  <2>1. CASE v = AuthCli
    BY <1>2, <1>3, <2>1 DEF MethodFits
  <2>2. CASE v # AuthCli
    BY <1>4, <1>10, <2>2 DEF Unspoiled, MethodsFit, MethodFits
  <2> QED
    BY <2>1, <2>2
<1>12. OneProvider'
  <2>0. OneProvider
    BY <1>10 DEF Unspoiled
  <2>1. ASSUME NEW v \in Users, NEW x \in Users, own'[v].cred.refresh = own'[x].cred.refresh,
               own'[v].cred.refresh # 0
        PROVE  Canonical(own'[v].name) = Canonical(own'[x].name)
    <3>1. v # AuthCli /\ x # AuthCli
      BY <1>2, <1>3, <2>1
    <3>2. Canonical(own[v].name) = Canonical(own[x].name)
      BY <1>4, <2>0, <2>1, <3>1 DEF OneProvider
    <3> QED
      BY <1>4, <3>1, <3>2
  <2>2. 0 <= issued
    BY <1>0, NaturalsFromZero DEF CredTypes
  <2>3. \A v \in Users : own'[v].cred.refresh <= issued'
    BY <1>1, <1>2, <1>3, <1>4, <2>0, <2>2 DEF OneProvider
  <2> QED
    BY <1>6, <2>1, <2>3 DEF OneProvider, Canonical
<1>13. Current'
  <2> SUFFICES ASSUME NEW v \in Users, ~own'[v].stale
               PROVE  own'[v].kind # "source" /\ cPc'[v] \notin {"save", "write"}
    BY DEF Current, CurrentOf
  <2>1. CASE v = AuthCli
    BY <1>2, <1>3, <2>1
  <2>2. CASE v # AuthCli
    BY <1>4, <1>8, <2>2 DEF KindFits
  <2> QED
    BY <2>1, <2>2
<1>14. LoginIsNew'
  <2>1. \A v \in Users : own'[v].kind # "login"
    BY <1>2, <1>3, <1>4, <1>8 DEF KindFits
  <2> QED
    BY <2>1 DEF LoginIsNew
<1>15. TornIsWritten' /\ FileIsLive'
  BY <1>6 DEF TornIsWritten, FileIsLive
<1>16. ConfigFollows'
  BY <1>2, <1>3, <1>6 DEF ConfigFollows
<1> QED
  BY <1>11, <1>12, <1>13, <1>14, <1>15, <1>16 DEF Unspoiled

\* Actors that are not about to write become idle, the files and the issuers left
\* alone: what holds whatever the configuration becomes.
LEMMA IdleKeeps ==
  ASSUME CredTypes, Unspoiled, UNCHANGED <<auth, issued, live>>,
         \A v \in Users : \/ own'[v] = own[v] /\ cPc'[v] = cPc[v]
                          \/ own'[v] = NoWork /\ cPc'[v] = "idle" /\ cPc[v] \notin Writing
  PROVE  MethodsFit' /\ OneProvider' /\ Current' /\ LoginIsNew' /\ TornIsWritten' /\ FileIsLive'
<1>0. NoWork.kind = "none" /\ NoWork.cred.refresh = 0 /\ "idle" \notin Writing
  BY DEF NoWork, NoCred, Writing
<1>1. \A v \in Users : \A p : Replaces(v, p) => Replaces(v, p)'
  BY DEF Replaces, Canonical
<1>2. MethodsFit'
  <2> SUFFICES ASSUME NEW v \in Users PROVE MethodFits(cPc'[v], own'[v])
    BY DEF Unspoiled, MethodsFit, MethodFits
  <2>1. CASE own'[v] = NoWork
    BY <1>0, <2>1 DEF MethodFits
  <2>2. CASE own'[v] = own[v] /\ cPc'[v] = cPc[v]
    BY <2>2 DEF Unspoiled, MethodsFit
  <2> QED
    BY <2>1, <2>2
<1>3. OneProvider'
  <2>0. OneProvider
    BY DEF Unspoiled
  <2>1. \A v \in Users : own'[v] = own[v] \/ own'[v].cred.refresh = 0
    BY <1>0
  <2>2. 0 <= issued
    BY NaturalsFromZero DEF CredTypes
  <2>3. \A v \in Users : own'[v].cred.refresh <= issued'
    BY <2>0, <2>1, <2>2 DEF OneProvider
  <2>4. \A v, x \in Users : own'[v].cred.refresh = own'[x].cred.refresh /\ own'[v].cred.refresh # 0 =>
          Canonical(own'[v].name) = Canonical(own'[x].name)
    BY <2>0, <2>1 DEF OneProvider
  <2>5. \A v \in Users : \A p \in DOMAIN auth.creds :
          own'[v].cred.refresh = auth.creds[p].refresh /\ auth.creds[p].refresh # 0 => Canonical(own'[v].name) = p
    BY <2>0, <2>1 DEF OneProvider
  <2> QED
    BY <2>0, <2>3, <2>4, <2>5 DEF OneProvider, Canonical
<1>4. Current'
  <2> SUFFICES ASSUME NEW v \in Users PROVE CurrentOf(v, cPc[v], own[v])'
    BY DEF Current
  <2>1. CASE own'[v] = NoWork /\ cPc'[v] = "idle"
    BY <1>0, <2>1 DEF CurrentOf
  <2>2. CASE own'[v] = own[v] /\ cPc'[v] = cPc[v]
    <3>1. CurrentOf(v, cPc[v], own[v])
      BY DEF Unspoiled, Current
    <3> QED
      BY <1>1, <2>2, <3>1 DEF CurrentOf, Accepted
  <2> QED
    BY <2>1, <2>2
<1>5. LoginIsNew'
  <2> SUFFICES ASSUME NEW v \in Users, own'[v].kind = "login", cPc'[v] \in Writing, own'[v].cred.refresh # 0
               PROVE  /\ own'[v].cred.refresh \in live
                      /\ \A x \in Users \ {v} : own'[x].cred.refresh # own'[v].cred.refresh
                      /\ \A p \in DOMAIN auth.creds : auth.creds[p].refresh # own'[v].cred.refresh
    BY DEF LoginIsNew
  <2>1. own'[v] = own[v] /\ cPc'[v] = cPc[v]
    BY <1>0
  <2>2. /\ own[v].cred.refresh \in live
        /\ \A x \in Users \ {v} : own[x].cred.refresh # own[v].cred.refresh
        /\ \A p \in DOMAIN auth.creds : auth.creds[p].refresh # own[v].cred.refresh
    BY <2>1 DEF Unspoiled, LoginIsNew
  <2> QED
    BY <1>0, <2>1, <2>2
<1>6. TornIsWritten'
  <2>1. \A v \in Users : cPc[v] = "write" => cPc'[v] = "write"
    BY DEF Writing
  <2> QED
    BY <2>1 DEF Unspoiled, TornIsWritten
<1>7. FileIsLive'
  BY <1>1 DEF Unspoiled, FileIsLive
<1> QED
  BY <1>2, <1>3, <1>4, <1>5, <1>6, <1>7

\* The configuration follows the file.
LEMMA UpdateConfigInv == ASSUME CredInv, UpdateConfig PROVE CredInv'
<1> DEFINE w == own[AuthCli]
           n == Canonical(w.name)
<1>0. /\ cPc[AuthCli] = "config" /\ AuthCli \in Users /\ KindFits(AuthCli, "config", w)
      /\ Returns(AuthCli) /\ UNCHANGED <<auth, issued, live>> /\ w \in Works
  BY WorkTypes DEF UpdateConfig, Is, Issuer, CredInv, KindsFit, CredTypes
<1>1. CASE spoiled' = TRUE /\ UNCHANGED method
  BY <1>0, <1>1, SpoilsInv
<1>2. CASE /\ method' = [p \in Providers |->
                CASE w.kind = "logoutAll" -> ""
                  [] p = n /\ w.kind = "logout" -> ""
                  [] p = n /\ w.kind = "login" -> w.cred.method
                  [] OTHER -> method[p]]
           /\ UNCHANGED spoiled
  <2>1. w.kind \in {"login", "logout", "logoutAll"} /\ w.cred.method \in {"token", "oauth"}
    BY <1>0 DEF KindFits, Works, Credential
  <2>2. \A p \in Providers :
          /\ w.kind = "logoutAll" => method'[p] = ""
          /\ p = n /\ w.kind = "logout" => method'[p] = ""
          /\ p = n /\ w.kind = "login" => method'[p] = w.cred.method
          /\ w.kind # "logoutAll" /\ p # n => method'[p] = method[p]
    BY <1>2, <2>1
  <2>3. method' \in [Providers -> {"", "token", "oauth"}]
    <3>1. method' = [p \in Providers |-> method'[p]]
      BY <1>2
    <3>2. \A p \in Providers : method[p] \in {"", "token", "oauth"}
      BY DEF CredInv, CredTypes
    <3>3. \A p \in Providers : method'[p] \in {"", "token", "oauth"}
      BY <2>1, <2>2, <3>2
    <3> QED
      BY <3>1, <3>3
  <2>4. KindFits(AuthCli, "idle", NoWork)
    BY DEF KindFits, NoWork, Writing, LoggingIn
  <2>5. own' = [own EXCEPT ![AuthCli] = NoWork] /\ cPc' = [cPc EXCEPT ![AuthCli] = "idle"]
    BY <1>0 DEF Returns, To
  <2>6. /\ auth' \in [torn : BOOLEAN, creds : Stores] /\ issued' \in Nat /\ live' \subseteq 1 .. issued'
        /\ spoiled' \in BOOLEAN
    BY <1>0, <1>2 DEF CredInv, CredTypes
  <2>7. /\ CredTypes' /\ KindsFit'
        /\ own'[AuthCli] = NoWork /\ cPc'[AuthCli] = "idle"
        /\ \A v \in Users \ {AuthCli} : own'[v] = own[v] /\ cPc'[v] = cPc[v]
    BY <1>0, <2>3, <2>4, <2>5, <2>6, SpoiledKeeps, WorkTypes
  <2>8. SUFFICES ASSUME Unspoiled PROVE Unspoiled'
    BY <1>2, <2>7 DEF CredInv
  <2>9. MethodsFit' /\ OneProvider' /\ Current' /\ LoginIsNew' /\ TornIsWritten' /\ FileIsLive'
    <3>1. CredTypes /\ cPc[AuthCli] \notin Writing
      BY <1>0 DEF CredInv, Writing
    <3> QED
      BY <1>0, <2>7, <2>8, <3>1, IdleKeeps
  <2> HIDE DEF w, n
  <2>10. ASSUME NEW p \in Providers PROVE Agrees(p)'
    <3>1. CASE w.kind = "logoutAll"
      <4>1. method'[p] = "" /\ DOMAIN auth.creds = {}
        BY <1>0, <2>2, <2>8, <3>1 DEF Unspoiled, ConfigFollows, w
      <4> QED
        BY <1>0, <4>1 DEF Agrees
    <3>2. CASE w.kind # "logoutAll" /\ p # n
      <4>1. method'[p] = method[p] /\ Agrees(p)
        BY <1>0, <2>2, <2>8, <3>2 DEF Unspoiled, ConfigFollows, w, n
      <4> QED
        BY <1>0, <4>1 DEF Agrees
    <3>3. CASE w.kind = "logout" /\ p = n
      <4>1. method'[p] = "" /\ w.name \notin DOMAIN auth.creds /\ w.name \in Providers \cup {Alias}
        BY <1>0, <2>2, <2>8, <3>3 DEF Unspoiled, ConfigFollows, KindFits, w
      <4>2. p # Google => p \notin DOMAIN auth.creds
        BY <3>3, <4>1 DEF n, Canonical
      <4> QED
        BY <1>0, <4>1, <4>2 DEF Agrees
    <3>4. CASE w.kind = "login" /\ p = n
      <4>1. method'[p] = w.cred.method /\ n \in DOMAIN auth.creds
        BY <1>0, <2>2, <2>8, <3>4 DEF Unspoiled, ConfigFollows, w, n
      <4>2. w.cred.method = MethodOf(n)
        BY <1>0, <2>8, <3>4 DEF Unspoiled, MethodsFit, MethodFits, w, n
      <4>3. auth.creds[p].method = MethodOf(p)
        BY <2>8, <3>4, <4>1 DEF Unspoiled, MethodsFit
      <4> QED
        BY <1>0, <3>4, <4>1, <4>2, <4>3 DEF Agrees
    <3> QED
      BY <2>1, <3>1, <3>2, <3>3, <3>4
  <2>11. ConfigFollows'
    BY <2>7, <2>10 DEF ConfigFollows
  <2> QED
    BY <2>9, <2>11 DEF Unspoiled
<1> QED
  BY <1>1, <1>2 DEF UpdateConfig

\* A process dies.
LEMMA ProcessDiesInv == ASSUME CredInv, ProcessDies PROVE CredInv'
<1>1. PICK gone \in {TokenUsers, {AuthCli}} :
        /\ spoiled' = (spoiled \/ \E u \in gone : cPc[u] \in {"load", "save", "write", "config"})
        /\ cPc' = [u \in Users |-> IF u \in gone THEN "idle" ELSE cPc[u]]
        /\ own' = [u \in Users |-> IF u \in gone THEN NoWork ELSE own[u]]
  BY DEF ProcessDies
<1>2. UNCHANGED <<auth, method, issued, live>>
  BY DEF ProcessDies, Disk, Issuer
<1>3. gone \subseteq Users
  BY <1>1 DEF Users
<1>4. CredTypes'
  <2>1. own' \in [Users -> Works]
    BY <1>1, WorkTypes DEF CredInv, CredTypes
  <2>2. cPc' \in [Users -> {"idle", "use", "refresh", "config"} \cup Writing \cup LoggingIn]
    BY <1>1 DEF CredInv, CredTypes
  <2>3. spoiled' \in BOOLEAN
    BY <1>1
  <2> QED
    BY <1>2, <2>1, <2>2, <2>3 DEF CredInv, CredTypes
<1>5. \A v \in Users : KindFits(v, "idle", NoWork)
  BY DEF KindFits, NoWork, Writing, LoggingIn
<1>6. \A v \in Users : \/ v \notin gone /\ own'[v] = own[v] /\ cPc'[v] = cPc[v]
                       \/ v \in gone /\ own'[v] = NoWork /\ cPc'[v] = "idle"
  BY <1>1
<1>7. KindsFit'
  <2> SUFFICES ASSUME NEW v \in Users PROVE KindFits(v, cPc'[v], own'[v])
    BY DEF KindsFit, KindFits
  <2>1. KindFits(v, cPc[v], own[v])
    BY DEF CredInv, KindsFit
  <2> QED
    BY <1>5, <1>6, <2>1
<1>8. SUFFICES ASSUME ~spoiled' PROVE Unspoiled'
  BY <1>4, <1>7 DEF CredInv
<1>9. ~spoiled /\ \A v \in gone : cPc[v] \notin Writing /\ cPc[v] # "config"
  BY <1>1, <1>8 DEF Writing
<1>10. CredTypes /\ Unspoiled
  BY <1>9 DEF CredInv
<1>11. MethodsFit' /\ OneProvider' /\ Current' /\ LoginIsNew' /\ TornIsWritten' /\ FileIsLive'
  BY <1>2, <1>6, <1>9, <1>10, IdleKeeps
<1>12. ConfigFollows'
  <2>1. \/ own'[AuthCli] = own[AuthCli] /\ cPc'[AuthCli] = cPc[AuthCli]
        \/ cPc'[AuthCli] = "idle" /\ cPc[AuthCli] # "config"
    BY <1>6, <1>9, WorkTypes
  <2>2. ConfigFollows
    BY <1>10 DEF Unspoiled
  <2>3. \A p : Agrees(p)' <=> Agrees(p)
    BY <1>2 DEF Agrees
  <2>4. CASE cPc[AuthCli] = "config"
    BY <1>2, <2>1, <2>2, <2>3, <2>4 DEF ConfigFollows, Canonical
  <2>5. CASE cPc[AuthCli] # "config"
    BY <1>2, <2>1, <2>2, <2>3, <2>5 DEF ConfigFollows, Canonical
  <2> QED
    BY <2>4, <2>5
<1> QED
  BY <1>11, <1>12 DEF Unspoiled

\* The invariant does not speak of the clock and of the number of commands.
LEMMA CredStutter ==
  ASSUME CredInv, UNCHANGED <<auth, method, issued, live, cPc, own, spoiled>> PROVE CredInv'
<1>1. CredTypes' /\ KindsFit'
  BY DEF CredInv, CredTypes, KindsFit, KindFits
<1>2. \A v \in Users : \A p : Replaces(v, p) <=> Replaces(v, p)'
  BY DEF Replaces, Canonical
<1>3. ASSUME Unspoiled PROVE Unspoiled'
  <2>1. MethodsFit' /\ OneProvider'
    BY <1>3 DEF Unspoiled, MethodsFit, MethodFits, OneProvider, Canonical
  <2>2. Current'
    BY <1>2, <1>3 DEF Unspoiled, Current, CurrentOf, Accepted
  <2>3. LoginIsNew' /\ TornIsWritten'
    BY <1>3 DEF Unspoiled, LoginIsNew, TornIsWritten
  <2>4. FileIsLive'
    BY <1>2, <1>3 DEF Unspoiled, FileIsLive
  <2>5. ConfigFollows'
    BY <1>3 DEF Unspoiled, ConfigFollows, Agrees, Canonical
  <2> QED
    BY <2>1, <2>2, <2>3, <2>4, <2>5 DEF Unspoiled
<1> QED
  BY <1>1, <1>3 DEF CredInv

\* A login is answered.
LEMMA ExchangeInv == ASSUME CredInv, ExchangeCodeForTokens PROVE CredInv'
<1> DEFINE w == own[AuthCli]
<1>0. cPc[AuthCli] = "exchange" /\ UNCHANGED <<auth, method, spoiled>> /\ AuthCli \in Users
  BY WorkTypes DEF ExchangeCodeForTokens, Is, Disk
<1>1. cPc[AuthCli] \in LoggingIn
  BY <1>0 DEF LoggingIn
<1>2. CASE /\ \E found \in BOOLEAN : Issue(AuthCli, 0, TRUE, found /\ Canonical(own[AuthCli].name) = Google)
           /\ To(AuthCli, "load")
  <2>1. PICK found \in BOOLEAN : Issue(AuthCli, 0, TRUE, found /\ Canonical(own[AuthCli].name) = Google)
    BY <1>2
  <2> DEFINE project == found /\ Canonical(own[AuthCli].name) = Google
  <2>2. project \in BOOLEAN /\ Issue(AuthCli, 0, TRUE, project) /\ 0 \in Nat /\ TRUE \in BOOLEAN
    BY <2>1
  <2> HIDE DEF project
  <2> QED
    BY <1>0, <1>2, <2>2, IssueInv
<1>3. CASE To(AuthCli, "device") /\ UNCHANGED <<Issuer, own>>
  BY <1>0, <1>1, <1>3, LoginStepInv DEF Issuer
<1>4. CASE Returns(AuthCli) /\ UNCHANGED Issuer
  BY <1>0, <1>1, <1>4, ReturnsInv DEF Issuer
<1> QED
  BY <1>2, <1>3, <1>4 DEF ExchangeCodeForTokens

\* A refresh is answered.
LEMMA RefreshInv == ASSUME CredInv, NEW u \in Users, RefreshAccessToken(u) PROVE CredInv'
<1>1. PICK rotates \in BOOLEAN : Issue(u, own[u].cred.refresh, rotates, own[u].cred.project)
  BY DEF RefreshAccessToken
<1>2. /\ cPc[u] = "refresh" /\ own[u].cred.refresh \in live /\ To(u, "load")
      /\ UNCHANGED <<auth, method, spoiled>>
  BY DEF RefreshAccessToken, Is, Disk
<1>3. own[u].cred.refresh \in Nat /\ own[u].cred.project \in BOOLEAN
  BY DEF CredInv, CredTypes, Works, Credential
<1> QED
  BY <1>1, <1>2, <1>3, IssueInv

\* Every step keeps the invariant.
LEMMA CredNextInv == ASSUME CredInv, CredentialsNext PROVE CredInv'
<1>1. ASSUME NEW g \in TokenUsers, TokenAsked(g) PROVE CredInv'
  BY <1>1, GetCredentialInv, WorkTypes DEF TokenAsked
<1>2. ASSUME NEW u \in Users, LoadStore(u) PROVE CredInv'
  BY <1>2, LoadStoreInv
<1>3. ASSUME NEW u \in Users, Truncate(u) PROVE CredInv'
  BY <1>3, TruncateInv
<1>4. ASSUME NEW u \in Users, WriteStore(u) PROVE CredInv'
  BY <1>4, WriteStoreInv
<1>5. ASSUME NEW u \in Users, UseToken(u) PROVE CredInv'
  BY <1>5, UseTokenInv
<1>6. ASSUME NEW u \in Users, RefreshAccessToken(u) PROVE CredInv'
  BY <1>6, RefreshInv
<1>7. ASSUME NEW u \in Users, RefreshLost(u) PROVE CredInv'
  <2>1. Returns(u) /\ spoiled' = TRUE /\ UNCHANGED <<auth, method, issued>> /\ live' \subseteq live
    BY <1>7 DEF RefreshLost, Disk
  <2> QED
    BY <2>1, SpoilsInv
<1>8. ASSUME NEW u \in Users, RefreshFails(u) PROVE CredInv'
  BY <1>8, ReturnsInv DEF RefreshFails, Is, Disk, Issuer
<1>9. ASSUME AuthModels PROVE CredInv'
  BY <1>9, GetCredentialInv, WorkTypes DEF AuthModels, OAuth
<1>10. ASSUME AuthLogin PROVE CredInv'
  <2>1. ASSUME NEW name \in OAuth \cup {Alias}, CommandBegins("login", name, "browser") PROVE CredInv'
    <3>1. name \in Providers \cup {Alias} /\ name # "anthropic" /\ "browser" \in LoggingIn
      BY CanonicalNames DEF LoggingIn, Alias
    <3> QED
      BY <2>1, <3>1, CommandInv
  <2>2. ASSUME CommandBegins("login", "openai", "device") PROVE CredInv'
    BY <2>2, CommandInv DEF LoggingIn, Providers
  <2>3. ASSUME CommandBegins("login", "anthropic", "paste") PROVE CredInv'
    BY <2>3, CommandInv DEF LoggingIn, Providers
  <2> QED
    BY <1>10, <2>1, <2>2, <2>3 DEF AuthLogin
<1>11. ASSUME LoginGivenUp PROVE CredInv'
  <2>1. Returns(AuthCli) /\ cPc[AuthCli] \in LoggingIn /\ UNCHANGED <<auth, method, issued, live, spoiled>>
    BY <1>11 DEF LoginGivenUp, Is, Disk, Issuer, LoggingIn
  <2> QED
    BY <2>1, ReturnsInv, WorkTypes
<1>12. ASSUME CallbackCode \/ PollDeviceCode PROVE CredInv'
  <2>1. /\ To(AuthCli, "exchange") /\ cPc[AuthCli] \in LoggingIn /\ cPc[AuthCli] # "paste"
        /\ UNCHANGED <<own, auth, method, issued, live, spoiled>>
    BY <1>12 DEF CallbackCode, PollDeviceCode, Is, Disk, Issuer, LoggingIn
  <2> QED
    BY <2>1, LoginStepInv
<1>13. ASSUME ExchangeCodeForTokens PROVE CredInv'
  BY <1>13, ExchangeInv
<1>14. ASSUME LoginPasteToken PROVE CredInv'
  <2>1. /\ To(AuthCli, "load") /\ cPc[AuthCli] \in LoggingIn /\ cPc[AuthCli] = "paste"
        /\ UNCHANGED <<own, auth, method, issued, live, spoiled>>
    BY <1>14 DEF LoginPasteToken, Is, Disk, Issuer, LoggingIn
  <2> QED
    BY <2>1, LoginStepInv
<1>15. ASSUME AuthLogout PROVE CredInv'
  BY <1>15, CommandInv DEF AuthLogout
<1>16. ASSUME DeleteAllCredentials PROVE CredInv'
  BY <1>16, DeleteAllInv
<1>17. ASSUME UpdateConfig PROVE CredInv'
  BY <1>17, UpdateConfigInv
<1>18. ASSUME TokenAges PROVE CredInv'
  BY <1>18, CredStutter DEF TokenAges, Disk
<1>19. ASSUME ProcessDies PROVE CredInv'
  BY <1>19, ProcessDiesInv
<1> QED
  BY <1>1, <1>2, <1>3, <1>4, <1>5, <1>6, <1>7, <1>8, <1>9, <1>10, <1>11, <1>12, <1>13, <1>14, <1>15, <1>16,
     <1>17, <1>18, <1>19 DEF CredentialsNext

\* Nobody is logged in at first, or the user is with OpenAI and with Google.
LEMMA CredInitInv == ASSUME CredentialsInit PROVE CredInv
<1> DEFINE id(p) == IF p = Google THEN 2 ELSE 1
           cred(p) == [access |-> id(p), refresh |-> id(p), method |-> "oauth", project |-> FALSE]
<1>1. PICK in \in {{}, OAuth} :
        /\ auth = [torn |-> FALSE, creds |-> [p \in in |-> cred(p)]]
        /\ method = [p \in Providers |-> IF p \in in THEN "oauth" ELSE ""]
        /\ live = {id(p) : p \in in}
  BY DEF CredentialsInit
<1>2. /\ issued = 2 /\ spoiled = FALSE
      /\ cPc = [u \in Users |-> "idle"] /\ own = [u \in Users |-> NoWork]
  BY DEF CredentialsInit
<1>3. \A p : id(p) \in {1, 2} /\ id(p) \in Nat /\ id(p) # 0 /\ id(p) <= 2
  OBVIOUS
<1>4. \A p, q \in OAuth : id(p) = id(q) => p = q
  BY DEF OAuth, Google
<1>5. in \subseteq Providers /\ in \subseteq OAuth /\ "anthropic" \notin in
  BY <1>1, CanonicalNames
<1> HIDE DEF id
<1>6. /\ auth.creds = [p \in in |-> cred(p)] /\ ~auth.torn /\ DOMAIN auth.creds = in
      /\ \A p \in in : auth.creds[p] = cred(p) /\ cred(p) \in Credential /\ cred(p).refresh = id(p) /\ cred(p).method = "oauth"
  BY <1>1, <1>3 DEF Credential
<1> HIDE DEF cred
<1>7. CredTypes
  <2>1. auth.creds \in [in -> Credential]
    BY <1>6
  <2>2. auth.creds \in Stores
    BY <1>5, <2>1, StoreFacts
  <2>3. auth \in [torn : BOOLEAN, creds : Stores]
    BY <1>1, <2>2
  <2>4. method \in [Providers -> {"", "token", "oauth"}]
    BY <1>1
  <2>5. live \subseteq 1 .. 2
    <3>1. {1, 2} \subseteq 1 .. 2
      OBVIOUS
    <3>2. live \subseteq {1, 2}
      BY <1>1, <1>3
    <3> QED
      BY <3>1, <3>2
  <2> QED
    BY <1>2, <2>3, <2>4, <2>5, WorkTypes DEF CredTypes
<1>8. NoWork.kind = "none" /\ NoWork.cred.refresh = 0 /\ NoWork.cred = NoCred
  BY DEF NoWork, NoCred
<1>9. KindsFit
  BY <1>2, <1>8 DEF KindsFit, KindFits, Writing, LoggingIn
<1>10. MethodsFit
  BY <1>2, <1>5, <1>6, <1>8 DEF MethodsFit, MethodFits, MethodOf
<1>11. OneProvider
  <2>1. \A p, q \in DOMAIN auth.creds : auth.creds[p].refresh = auth.creds[q].refresh => p = q
    BY <1>4, <1>5, <1>6
  <2>2. \A u \in Users : own[u].cred.refresh = 0 /\ own[u] = NoWork
    BY <1>2, <1>8
  <2>3. \A p \in DOMAIN auth.creds : auth.creds[p].refresh # 0 /\ auth.creds[p].refresh <= issued
    BY <1>2, <1>3, <1>6
  <2>4. 0 <= issued
    BY <1>2
  <2> QED
    BY <2>1, <2>2, <2>3, <2>4 DEF OneProvider
<1>12. Current /\ LoginIsNew
  BY <1>2, <1>8 DEF Current, CurrentOf, LoginIsNew
<1>13. TornIsWritten
  BY <1>6 DEF TornIsWritten
<1>14. FileIsLive
  BY <1>1, <1>6 DEF FileIsLive
<1>15. ConfigFollows
  <2>1. cPc[AuthCli] = "idle"
    BY <1>2, WorkTypes
  <2>2. \A p \in Providers : Agrees(p)
    BY <1>1, <1>6 DEF Agrees
  <2> QED
    BY <2>1, <2>2 DEF ConfigFollows
<1> QED
  BY <1>7, <1>9, <1>10, <1>11, <1>12, <1>13, <1>14, <1>15 DEF CredInv, Unspoiled

\* Every step of the token sources, of the command and of the issuers keeps the
\* invariant: credentials have the method of their provider and refresh tokens that
\* are one provider's, what a current writer loaded is the file, and the file and the
\* configuration differ only for what a command has just changed.
THEOREM CredInvariant == CredentialsSpec => []CredInv
<1>1. CredentialsInit => CredInv
  BY CredInitInv
<1>2. CredInv /\ [CredentialsNext]_credVars => CredInv'
  BY CredNextInv, CredStutter DEF credVars
<1> QED
  BY <1>1, <1>2, PTL DEF CredentialsSpec

\* SetCredential, DeleteCredential and the token sources keep the logins: unless a
\* write was stale or failed, auth.json can be read when nobody writes it, its refresh
\* tokens are accepted or being replaced, and config.json agrees with it when no
\* command is under way. For any number of goroutines, tokens and commands.
THEOREM CredLoginsAreKept == CredentialsSpec => []LoginsAreKept
<1>1. CredInv => LoginsAreKept
  <2> SUFFICES ASSUME CredInv, ~spoiled PROVE LoginsAreKept
    BY DEF LoginsAreKept
  <2>0. Unspoiled
    BY DEF CredInv
  <2>1. auth.torn => \E u \in Users : Is(u, "write")
    BY <2>0 DEF Unspoiled, TornIsWritten, Is
  <2>2. \A p \in DOMAIN auth.creds : auth.creds[p].refresh \in live \cup {0}
          \/ \E u \in Users : Canonical(own[u].name) = p /\ cPc[u] \in {"load", "save", "write"}
    BY <2>0 DEF Unspoiled, FileIsLive, Replaces, Writing
  <2>3. Is(AuthCli, "idle") => \A p \in Providers : Agrees(p)
    BY <2>0 DEF Unspoiled, ConfigFollows, Is
  <2> QED
    BY <2>1, <2>2, <2>3 DEF LoginsAreKept, Agrees
<1> QED
  BY <1>1, CredInvariant, PTL
=============================================================================

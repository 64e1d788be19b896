----------------------------- MODULE CronService -----------------------------
(***************************************************************************)
(* The scheduler of pkg/cron/service.go as the gateway uses it: one        *)
(* CronService per process, started at boot, whose run loop ticks once a   *)
(* second; the agent's cron tool, which adds, updates, removes, enables    *)
(* and disables jobs from other goroutines; and the `tinyclaw cron`        *)
(* command, a second process that reads and rewrites the same jobs.json.   *)
(*                                                                         *)
(* A method that holds cs.mu from its first line to its last is one        *)
(* action.  checkJobs and executeJobByID release the mutex in between and  *)
(* are three: Check collects the due jobs, Fetch copies one and enters the *)
(* callback, Settle is the update after the callback returned.  The ids of *)
(* generateID are numbered in the order of creation, which is the order of *)
(* the slice store.Jobs.  LastRunAtMS, LastStatus and the payload are left *)
(* out: the service never reads them.                                      *)
(***************************************************************************)
EXTENDS Integers, FiniteSets

CONSTANTS
  MaxTime,              \* bound on the clock (seconds)
  MaxJobs,              \* bound on the jobs ever created
  MaxBoots,             \* bound on the gateway's process starts
  Requests,             \* the schedules a caller may ask for
  NextTickAfter(_, _),  \* gronx: the tick of an expression after a time
  Ops,                  \* the operations of this instance, beyond AddJob
  SaveMayFail           \* whether os.WriteFile may fail or be cut short

Ids == 1 .. MaxJobs
Nil == -1               \* a nil *int64
Kinds == {"at", "every", "cron"}
Schedule == [kind : Kinds, t : Nat]
Operations == {"update", "remove", "enable", "disable", "stop", "crash", "cli"}

ASSUME BoundsAssumption ==
  /\ MaxTime \in Nat /\ MaxJobs \in Nat /\ MaxBoots \in Nat
  /\ Requests \subseteq Schedule
  /\ Ops \subseteq Operations
  /\ SaveMayFail \in BOOLEAN

\* gronx.NextTickAfter(expr, now, false) is strictly later than now, and no
\* earlier for a later now.
ASSUME TickAssumption ==
  \A r \in Requests, t \in 0 .. MaxTime :
     r.kind = "cron" /\ r.t > 0 =>
       /\ NextTickAfter(r.t, t) \in Nat /\ NextTickAfter(r.t, t) > t
       /\ \A u \in 0 .. t : NextTickAfter(r.t, u) <= NextTickAfter(r.t, t)

VARIABLES
  now,      \* time.Now()
  up,       \* the gateway process is running
  jobs,     \* cs.store.Jobs, by id
  file,     \* jobs.json
  running,  \* cs.running
  due,      \* what is left of checkJobs' dueJobIDs
  calling,  \* the id whose callback is running, 0 for none
  draft,    \* what AddJob returned to the tool, until its UpdateJob
  cli,      \* the store a `tinyclaw cron` process has loaded
  used,     \* ids generated
  boots,    \* gateway starts
  runs,     \* number of callbacks started, by id
  last,     \* time the latest of them started
  acked     \* ids `tinyclaw cron add` has reported, not removed since

vars == <<now, up, jobs, file, running, due, calling, draft, cli, used, boots,
          runs, last, acked>>
loop == <<due, calling, runs, last>>
offline == <<cli, acked>>

\* A recurring schedule is stored as it was asked for, a one-time one as an
\* absolute time.
Stored == Requests \cup [kind : {"at"}, t : Nat]
Job == [sched : Stored, enabled : BOOLEAN, next : Nat \cup {Nil}]
Empty == [i \in {} |-> 0]
NoDraft == [id |-> 0]
NoCli == [loaded |-> FALSE, jobs |-> Empty]

\* Contents of jobs.json: a store, or truncated JSON, which json.Unmarshal
\* rejects and which reads as an empty store.
Whole(s) == [whole |-> TRUE, jobs |-> s]
Torn == [whole |-> FALSE, jobs |-> Empty]

IsStore(s) == /\ DOMAIN s \subseteq Ids
              /\ \A i \in DOMAIN s : s[i] \in Job
Without(s, id) == [i \in DOMAIN s \ {id} |-> s[i]]
With(s, id, j) == [i \in DOMAIN s \cup {id} |-> IF i = id THEN j ELSE s[i]]

\* A schedule that fires again and again.
Recurring(s) == s.kind # "at" /\ s.t > 0

-----------------------------------------------------------------------------
\* saveStoreUnsafe: os.WriteFile truncates the file and then writes it.
Save(s) == \/ file' = Whole(s)
           \/ SaveMayFail /\ file' \in {file, Torn}

\* MUTANT of ComputeNextRun: a one-time job whose time has passed is caught up.
ComputeNextRunCatchUp(s, t) ==
  CASE s.kind = "at"    -> s.t
    [] s.kind = "every" -> IF s.t > 0 THEN t + s.t ELSE Nil
    [] s.kind = "cron"  -> IF s.t > 0 THEN NextTickAfter(s.t, t) ELSE Nil

\* A period of 0 stands for a period <= 0 or an expression gronx rejects.
ComputeNextRun(s, t) ==
  CASE s.kind = "at"    -> IF s.t > t THEN s.t ELSE Nil
    [] s.kind = "every" -> IF s.t > 0 THEN t + s.t ELSE Nil
    [] s.kind = "cron"  -> IF s.t > 0 THEN NextTickAfter(s.t, t) ELSE Nil

Rescheduled(j) == [j EXCEPT !.next = ComputeNextRun(j.sched, now)]

\* MUTANT of RecomputeNextRuns: only the jobs that have a next run.
RecomputeArmed(s) ==
  [i \in DOMAIN s |-> IF s[i].enabled /\ s[i].next # Nil THEN Rescheduled(s[i])
                                                         ELSE s[i]]

\* MUTANT of RecomputeNextRuns: after a restart recurring jobs are due at once.
RecomputeAtOnce(s) ==
  [i \in DOMAIN s |->
     IF ~s[i].enabled THEN s[i]
     ELSE IF Recurring(s[i].sched) THEN [s[i] EXCEPT !.next = now] ELSE Rescheduled(s[i])]

RecomputeNextRuns(s) ==
  [i \in DOMAIN s |-> IF s[i].enabled THEN Rescheduled(s[i]) ELSE s[i]]

\* NewCronService and Start, once per gateway process.  A store that does not
\* parse leaves an empty one in memory and the loop unstarted; so does, with
\* the jobs loaded, a save that fails.  The gateway goes on either way.
Start ==
  /\ ~up /\ boots < MaxBoots
  /\ up' = TRUE
  /\ boots' = boots + 1
  /\ jobs' = RecomputeNextRuns(file.jobs)
  /\ IF file.whole THEN Save(jobs') /\ running' = (file' = Whole(jobs'))
                   ELSE file' = file /\ running' = FALSE
  /\ UNCHANGED <<now, loop, draft, used, offline>>

\* Shutdown; a callback that is running goes on until the process exits.
Stop ==
  /\ running
  /\ running' = FALSE
  /\ UNCHANGED <<now, up, jobs, file, loop, draft, used, boots, offline>>

\* The process exits or is killed, perhaps half-way through a write.
Crash ==
  /\ up
  /\ up' = FALSE
  /\ running' = FALSE
  /\ jobs' = Empty
  /\ file' \in {file} \cup (IF SaveMayFail THEN {Torn} ELSE {})
  /\ due' = {} /\ calling' = 0 /\ draft' = NoDraft
  /\ UNCHANGED <<now, used, boots, runs, last, offline>>

-----------------------------------------------------------------------------
IsDue(j) == j.enabled /\ j.next # Nil /\ j.next <= now

\* checkJobs up to the unlock: collect what is due, clear its next run, save.
Check ==
  /\ running /\ due = {} /\ calling = 0
  /\ due' = {i \in DOMAIN jobs : IsDue(jobs[i])}
  /\ jobs' = [i \in DOMAIN jobs |->
                IF i \in due' THEN [jobs[i] EXCEPT !.next = Nil] ELSE jobs[i]]
  /\ Save(jobs')
  /\ UNCHANGED <<now, up, running, calling, draft, used, boots, runs, last, offline>>

\* MUTANT of Fetch: a job that has gone ends the whole round.
FetchGivesUp(id) ==
  /\ calling = 0
  /\ id \in due /\ \A d \in due : id <= d
  /\ due' = IF id \in DOMAIN jobs THEN due \ {id} ELSE {}
  /\ IF id \in DOMAIN jobs
     THEN /\ calling' = id
          /\ runs' = [runs EXCEPT ![id] = @ + 1]
          /\ last' = [last EXCEPT ![id] = now]
     ELSE UNCHANGED <<calling, runs, last>>
  /\ UNCHANGED <<now, up, jobs, file, running, draft, used, boots, offline>>

\* executeJobByID up to the callback: a job removed meanwhile is skipped, one
\* disabled meanwhile is not.
Fetch(id) ==
  /\ calling = 0
  /\ id \in due /\ \A d \in due : id <= d
  /\ due' = due \ {id}
  /\ IF id \in DOMAIN jobs
     THEN /\ calling' = id
          /\ runs' = [runs EXCEPT ![id] = @ + 1]
          /\ last' = [last EXCEPT ![id] = now]
     ELSE UNCHANGED <<calling, runs, last>>
  /\ UNCHANGED <<now, up, jobs, file, running, draft, used, boots, offline>>

\* executeJobByID after the callback.  Every one-time job has DeleteAfterRun.
Settle ==
  /\ calling # 0
  /\ calling' = 0
  /\ IF calling \in DOMAIN jobs
     THEN /\ jobs' = IF jobs[calling].sched.kind = "at"
                     THEN Without(jobs, calling)
                     ELSE [jobs EXCEPT ![calling] = Rescheduled(@)]
          /\ Save(jobs')
     ELSE UNCHANGED <<jobs, file>>
  /\ UNCHANGED <<now, up, running, due, draft, used, boots, runs, last, offline>>

-----------------------------------------------------------------------------
NewJob(r) ==
  LET s == IF r.kind = "at" THEN [r EXCEPT !.t = now + @] ELSE r
  IN  [sched |-> s, enabled |-> TRUE, next |-> ComputeNextRun(s, now)]

\* The tool's addJob: AddJob, which keeps the job in memory even when its save
\* fails, and for a command the copy that UpdateJob will store.
AddJob(r, command) ==
  /\ up /\ draft = NoDraft /\ used < MaxJobs
  /\ command => "update" \in Ops
  /\ used' = used + 1
  /\ jobs' = With(jobs, used', NewJob(r))
  /\ Save(jobs')
  /\ draft' = IF command /\ file' = Whole(jobs')
               THEN [id |-> used', job |-> NewJob(r)]
               ELSE NoDraft
  /\ UNCHANGED <<now, up, running, loop, boots, offline>>

UpdateJob ==
  /\ draft # NoDraft
  /\ draft' = NoDraft
  /\ IF draft.id \in DOMAIN jobs
     THEN jobs' = With(jobs, draft.id, draft.job) /\ Save(jobs')
     ELSE UNCHANGED <<jobs, file>>
  /\ UNCHANGED <<now, up, running, loop, used, boots, offline>>

\* RemoveJob and removeJobUnsafe.
RemoveJob(id) ==
  /\ up /\ id \in DOMAIN jobs
  /\ jobs' = Without(jobs, id)
  /\ Save(jobs')
  /\ acked' = acked \ {id}
  /\ UNCHANGED <<now, up, running, loop, draft, used, boots, cli>>

Enabled(j, on) ==
  [j EXCEPT !.enabled = on,
            !.next = IF on THEN ComputeNextRun(j.sched, now) ELSE Nil]

EnableJob(id, on) ==
  /\ up /\ id \in DOMAIN jobs
  /\ jobs' = [jobs EXCEPT ![id] = Enabled(@, on)]
  /\ Save(jobs')
  /\ UNCHANGED <<now, up, running, loop, draft, used, boots, offline>>

-----------------------------------------------------------------------------
\* `tinyclaw cron ...` makes a CronService of its own (the error of its load is
\* dropped) and calls one method on it.
CliLoad ==
  /\ ~cli.loaded
  /\ cli' = [loaded |-> TRUE, jobs |-> file.jobs]
  /\ UNCHANGED <<now, up, jobs, file, running, loop, draft, used, boots, acked>>

CliAdd(r) ==
  /\ cli.loaded /\ used < MaxJobs /\ r.kind # "at"
  /\ used' = used + 1
  /\ file' = Whole(With(cli.jobs, used', NewJob(r)))
  /\ acked' = acked \cup {used'}
  /\ cli' = NoCli
  /\ UNCHANGED <<now, up, jobs, running, loop, draft, boots>>

CliRemove(id) ==
  /\ cli.loaded /\ id \in DOMAIN cli.jobs
  /\ file' = Whole(Without(cli.jobs, id))
  /\ acked' = acked \ {id}
  /\ cli' = NoCli
  /\ UNCHANGED <<now, up, jobs, running, loop, draft, used, boots>>

CliEnable(id, on) ==
  /\ cli.loaded /\ id \in DOMAIN cli.jobs
  /\ file' = Whole([cli.jobs EXCEPT ![id] = Enabled(@, on)])
  /\ cli' = NoCli
  /\ UNCHANGED <<now, up, jobs, running, loop, draft, used, boots, acked>>

Tick ==
  /\ now < MaxTime
  /\ now' = now + 1
  /\ UNCHANGED <<up, jobs, file, running, loop, draft, used, boots, offline>>

-----------------------------------------------------------------------------
Init ==
  /\ now = 0 /\ up = FALSE /\ jobs = Empty /\ file = Whole(Empty) /\ running = FALSE
  /\ due = {} /\ calling = 0 /\ draft = NoDraft /\ cli = NoCli
  /\ used = 0 /\ boots = 0 /\ acked = {}
  /\ runs = [i \in Ids |-> 0] /\ last = [i \in Ids |-> 0]

LoopStep == Check \/ (\E id \in Ids : Fetch(id)) \/ Settle

ToolStep ==
  \/ \E r \in Requests, command \in BOOLEAN : AddJob(r, command)
  \/ UpdateJob
  \/ "remove" \in Ops /\ \E id \in Ids : RemoveJob(id)
  \/ "enable" \in Ops /\ \E id \in Ids : EnableJob(id, TRUE)
  \/ "disable" \in Ops /\ \E id \in Ids : EnableJob(id, FALSE)

CliStep ==
  /\ "cli" \in Ops
  /\ \/ CliLoad
     \/ \E r \in Requests : CliAdd(r)
     \/ \E id \in Ids : CliRemove(id)
     \/ \E id \in Ids, on \in BOOLEAN : CliEnable(id, on)

Next ==
  \/ Tick
  \/ Start
  \/ "stop" \in Ops /\ Stop
  \/ "crash" \in Ops /\ Crash
  \/ LoopStep
  \/ ToolStep
  \/ CliStep

Spec == Init /\ [][Next]_vars

\* The run loop ticks for as long as the process lives, and callbacks return:
\* exec has a timeout and so do the provider's calls.
FairSpec ==
  /\ Spec
  /\ WF_vars(Check) /\ WF_vars(\E id \in Ids : Fetch(id)) /\ WF_vars(Settle)

-----------------------------------------------------------------------------
\* The type invariant: every copy of the store is a table of jobs, and the
\* loop works only while the process is up.
TypeOK ==
  /\ now \in 0 .. MaxTime /\ up \in BOOLEAN /\ running \in BOOLEAN
  /\ IsStore(jobs) /\ IsStore(file.jobs)
  /\ file.whole \in BOOLEAN /\ cli.loaded \in BOOLEAN /\ IsStore(cli.jobs)
  /\ due \subseteq Ids /\ calling \in Ids \cup {0}
  /\ draft = NoDraft \/ (draft.id \in Ids /\ draft.job \in Job)
  /\ used \in 0 .. MaxJobs /\ boots \in Nat /\ acked \subseteq Ids
  /\ runs \in [Ids -> Nat] /\ last \in [Ids -> Nat]
  /\ running => up

\* A one-time job's callback runs at most once, through restarts, crashes
\* between the callback and the removal, re-enabling and stale updates
\* (computeNextRun arms a time only while it is in the future).
AtMostOnce ==
  \A id \in DOMAIN jobs : jobs[id].sched.kind = "at" => runs[id] <= 1

\* An enabled recurring job is never forgotten: it has a next run, or the loop
\* holds it and will give it one (checkJobs clears the next run before it
\* unlocks; executeJobByID, EnableJob and Start set it again).
NeverForgotten ==
  \A id \in DOMAIN jobs :
    jobs[id].enabled /\ Recurring(jobs[id].sched) =>
      jobs[id].next # Nil \/ id \in due \/ id = calling

\* "Reset next run for due jobs before unlocking to avoid duplicate execution"
\* (service.go:155): two runs of a recurring job are a whole period apart, or
\* belong to different ticks of its expression.
RunsAreSpaced ==
  [][\A id \in DOMAIN jobs :
       runs'[id] > runs[id] /\ runs[id] > 0 =>
         CASE jobs[id].sched.kind = "every" -> now - last[id] >= jobs[id].sched.t
           [] jobs[id].sched.kind = "cron" ->
                now >= NextTickAfter(jobs[id].sched.t, last[id])
           [] OTHER -> TRUE]_vars

\* While the gateway stays up, a job that is due is run, unless it is removed
\* or disabled first (runLoop, checkJobs, executeJobByID).
DueJobsRun ==
  \A id \in Ids :
    (running /\ id \in DOMAIN jobs /\ IsDue(jobs[id]))
      ~> (calling = id \/ ~running \/ id \notin DOMAIN jobs \/ ~jobs[id].enabled)

\* "Added job": what `tinyclaw cron add` reports stays in jobs.json until
\* somebody removes it (cmd/tinyclaw/internal/cron/add.go:46).
ReportedJobsAreKept == \A id \in acked : id \in DOMAIN file.jobs

-----------------------------------------------------------------------------
\* The inductive invariant.  Everything written about a one-time job, in any
\* copy of the store, that AtMostOnce rests on: it is armed for its own time,
\* and once it has run that time is past.
OneTimeSane(s) ==
  \A id \in DOMAIN s :
    s[id].sched.kind = "at" =>
      /\ s[id].next \in {Nil, s[id].sched.t}
      /\ s[id].enabled \/ s[id].next = Nil
      /\ runs[id] > 0 => s[id].sched.t <= now
      /\ runs[id] <= 1

\* The copies of the store never disagree about a job's schedule.
SameSchedules(s, r) ==
  \A id \in DOMAIN s \cap DOMAIN r : s[id].sched = r[id].sched

CopiesAgree ==
  /\ SameSchedules(jobs, file.jobs)
  /\ SameSchedules(jobs, cli.jobs)
  /\ SameSchedules(file.jobs, cli.jobs)

\* An id that was not generated yet is nowhere.
FreshIds ==
  /\ \A id \in DOMAIN jobs \cup DOMAIN file.jobs \cup DOMAIN cli.jobs \cup due :
       id <= used
  /\ \A id \in Ids : id > used => runs[id] = 0
  /\ calling <= used

\* A one-time job that is armed or collected has not run, unless its callback
\* is running now.
NotYetRun ==
  \A id \in DOMAIN jobs :
    jobs[id].sched.kind = "at" =>
      /\ runs[id] > 0 /\ jobs[id].next # Nil => id = calling
      /\ id \in due => runs[id] = 0 /\ jobs[id].sched.t <= now
      /\ id = calling => jobs[id].sched.t <= now

\* The copy that AddJob returned is the job with the next run it had then; a
\* one-time job that has run since is running still, or gone.
DraftIsStale ==
  draft # NoDraft =>
    /\ draft.id <= used
    /\ Recurring(draft.job.sched) => draft.job.next # Nil
    /\ draft.job.enabled
    /\ draft.job.sched.kind = "at" => draft.job.next \in {Nil, draft.job.sched.t}
    /\ draft.id \in DOMAIN jobs =>
         /\ jobs[draft.id].sched = draft.job.sched
         /\ draft.job.sched.kind = "at" /\ runs[draft.id] > 0 => draft.id = calling

\* Nothing is in flight while the gateway is down.
DownIsIdle == ~up => due = {} /\ calling = 0 /\ draft = NoDraft /\ jobs = Empty

IndInv ==
  /\ TypeOK
  /\ DownIsIdle
  /\ NeverForgotten
  /\ OneTimeSane(jobs) /\ OneTimeSane(file.jobs) /\ OneTimeSane(cli.jobs)
  /\ CopiesAgree
  /\ FreshIds
  /\ NotYetRun
  /\ DraftIsStale
==============================================================================

---------------------------- MODULE CronScheduler ---------------------------
(***************************************************************************)
(* Scheduler of agent/scheduler.py with croniter installed.  A cron        *)
(* expression is a period: it names the multiples of it.  The unit of time *)
(* is the pause of the loop, ten seconds.                                  *)
(***************************************************************************)
EXTENDS Naturals, FiniteSets

CONSTANTS
  Jobs,
  Period,   \* Period[j] \in Nat \ {0}
  MaxTime   \* bound on the clock

VARIABLES
  now,
  jobs,      \* _jobs: the names registered
  enabled,   \* the jobs that are
  lastRun,   \* last_run; 0, None
  tasks,     \* how many tasks of each job run _run_job
  loop,      \* _running
  wokeAt,    \* when the loop last looked at the jobs
  since,     \* since when each job has been in place (for the properties)
  launched   \* the jobs that were ever launched (for the properties)

vars == <<now, jobs, enabled, lastRun, tasks, loop, wokeAt, since, launched>>

\* croniter(...).get_next(): the first time of the expression after base.
NextTime(j, base) == CHOOSE t \in base + 1..base + Period[j] : t % Period[j] = 0

\* next_run_time(): counted from the last run, or from the time of the call.
NextRun(j) == NextTime(j, IF lastRun[j] # 0 THEN lastRun[j] ELSE now)
-----------------------------------------------------------------------------
Init ==
  /\ now = 1
  /\ jobs = {} /\ enabled = {}
  /\ lastRun = [j \in Jobs |-> 0]
  /\ tasks = [j \in Jobs |-> 0]
  /\ loop = FALSE /\ wokeAt = 0
  /\ since = [j \in Jobs |-> 0]
  /\ launched = {}

Tick ==
  /\ now < MaxTime
  /\ now' = now + 1
  /\ UNCHANGED <<jobs, enabled, lastRun, tasks, loop, wokeAt, since, launched>>

\* add_job(): a new Job, in the place of one of that name.
AddJob(j) ==
  /\ jobs' = jobs \cup {j} /\ enabled' = enabled \cup {j}
  /\ lastRun' = [lastRun EXCEPT ![j] = 0]
  /\ since' = [since EXCEPT ![j] = now]
  /\ launched' = launched \ {j}
  /\ UNCHANGED <<now, tasks, loop, wokeAt>>

RemoveJob(j) ==
  /\ j \in jobs
  /\ jobs' = jobs \ {j} /\ enabled' = enabled \ {j}
  /\ UNCHANGED <<now, lastRun, tasks, loop, wokeAt, since, launched>>

EnableJob(j) ==
  /\ j \in jobs \ enabled
  /\ enabled' = enabled \cup {j}
  /\ since' = [since EXCEPT ![j] = now]
  /\ UNCHANGED <<now, jobs, lastRun, tasks, loop, wokeAt, launched>>

DisableJob(j) ==
  /\ j \in enabled
  /\ enabled' = enabled \ {j}
  /\ UNCHANGED <<now, jobs, lastRun, tasks, loop, wokeAt, since, launched>>

\* The loop wakes and makes a task of every job that is due.
Wake ==
  LET due == {j \in enabled : NextRun(j) <= now}
  IN /\ loop /\ wokeAt < now
     /\ wokeAt' = now
     /\ tasks' = [j \in Jobs |-> IF j \in due THEN tasks[j] + 1 ELSE tasks[j]]
     /\ launched' = launched \cup due
     /\ UNCHANGED <<now, jobs, enabled, lastRun, loop, since>>

\* _run_job(): only a run that returns counts as the last one.
Completes(j) ==
  /\ tasks[j] > 0
  /\ tasks' = [tasks EXCEPT ![j] = @ - 1]
  /\ lastRun' = [lastRun EXCEPT ![j] = now]
  /\ UNCHANGED <<now, jobs, enabled, loop, wokeAt, since, launched>>

Fails(j) ==
  /\ tasks[j] > 0
  /\ tasks' = [tasks EXCEPT ![j] = @ - 1]
  /\ UNCHANGED <<now, jobs, enabled, lastRun, loop, wokeAt, since, launched>>

Start ==
  /\ ~loop
  /\ loop' = TRUE
  /\ UNCHANGED <<now, jobs, enabled, lastRun, tasks, wokeAt, since, launched>>

\* stop(): the loop is cancelled, the tasks are not.
Stop ==
  /\ loop
  /\ loop' = FALSE
  /\ UNCHANGED <<now, jobs, enabled, lastRun, tasks, wokeAt, since, launched>>

Next ==
  \/ Tick \/ Wake \/ Start \/ Stop
  \/ \E j \in Jobs : \/ AddJob(j) \/ RemoveJob(j) \/ EnableJob(j) \/ DisableJob(j)
                     \/ Completes(j) \/ Fails(j)

Spec == Init /\ [][Next]_vars
-----------------------------------------------------------------------------
\* "Cron-based job scheduling": a job that has been in place since before a time
\* of its expression has been launched when the loop looked at the jobs later.
CronTimesKept ==
  \A j \in enabled : NextTime(j, since[j]) < wokeAt => j \in launched
=============================================================================

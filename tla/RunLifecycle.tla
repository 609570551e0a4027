---------------------------- MODULE RunLifecycle ----------------------------
(***************************************************************************)
(* The life of a screen's row in `runs`, from the request that inserts it  *)
(* to the last status written on it, on whichever of the three backends of *)
(* jobs.JobQueue the process picked when it started:                       *)
(*                                                                         *)
(*   thread    a background thread of the web process                      *)
(*   rq        a worker on a Redis queue                                   *)
(*   request   inside a request that the page sends, on a host that gives  *)
(*             a function no time after its response                       *)
(*                                                                         *)
(* The row is written by the handler that makes it, by whatever claims it, *)
(* by the job, by an admin who deletes it, and by two sweeps that close a  *)
(* row nobody works on any more: at startup (reap_interrupted_runs) and    *)
(* whenever somebody looks (close_stale_runs).  Time is counted since the  *)
(* row's started_at and since its job began, no further than matters.      *)
(***************************************************************************)
EXTENDS Naturals

CONSTANTS
    Runs,           \* the screens
    Backends,       \* the backends this site may be deployed with
    Killable,       \* those whose processes and requests are killed here
    Accounts,       \* runs of workspaces made by signing up, in no API key
    Limit,          \* FOCI_SCREEN_SECONDS; 0 is no limit
    Unlimited,      \* what _stale_cutoff takes for the limit when there is none
    Grace,          \* how much over the limit _stale_cutoff allows
    Host,           \* how long the host lets a request live
    Wait            \* how long a queued run waits for the request that runs it

ASSUME BackendsAssumption == Backends \cup Killable \subseteq {"thread", "rq", "request"}
ASSUME AccountsAssumption == Accounts \subseteq Runs
ASSUME TimesAssumption == {Limit, Unlimited, Grace, Host, Wait} \subseteq Nat

VARIABLES
    status,         \* runs.status; "none" before the row is made
    age,            \* time since runs.started_at
    desk,           \* the handler that has the run in hand, before it starts
    job,            \* the execution of run_screen_job
    spent,          \* how long that has taken
    starts,         \* how often one has begun, counted to 2
    up,             \* the web process is there
    backend         \* what JobQueue.backend says

runVars == <<status, age, desk, job, spent, starts, up, backend>>

Open == {"queued", "running"}
Final == {"complete", "failed", "interrupted"}
Statuses == {"none", "scheduled", "deleted"} \cup Open \cup Final
Desks == {"none", "created", "swept"}
Jobs == {"none", "waiting", "claimed", "working", "over"}

\* A job that writes, or will write, on its run.
Live(r) == job[r] \in {"waiting", "claimed", "working"}

(* _stale_cutoff: a run older than this is closed. *)
LimitAlone == IF Limit = 0 THEN Unlimited ELSE Limit
Window == (IF Limit = 0 THEN Unlimited ELSE Limit) + Grace

RunInit ==
    /\ status = [r \in Runs |-> "none"]
    /\ age = [r \in Runs |-> 0]
    /\ desk = [r \in Runs |-> "none"]
    /\ job = [r \in Runs |-> "none"]
    /\ spent = [r \in Runs |-> 0]
    /\ starts = [r \in Runs |-> 0]
    /\ up = TRUE
    /\ backend \in Backends

----------------------------------------------------------------------------
(* An UPDATE of a row that was deleted changes nothing. *)
Write(r, value) ==
    status' = [status EXCEPT ![r] = IF @ = "deleted" THEN @ ELSE value]

Begin(r) == starts' = [starts EXCEPT ![r] = IF @ = 2 THEN 2 ELSE @ + 1]

(* create_screen, start_run: a screen asked for outside the screening times *)
(* by somebody who may not override them waits for the next.                *)
CreateScreen(r) ==
    /\ up
    /\ status[r] = "none"
    /\ \/ status' = [status EXCEPT ![r] = "scheduled"] /\ UNCHANGED desk
       \/ /\ status' = [status EXCEPT ![r] = "queued"]
          /\ desk' = [desk EXCEPT ![r] = "created"]
    /\ UNCHANGED <<age, job, spent, starts, up, backend>>

\* What the two claims test, so that each run is claimed once.
NotOver(r) == status[r] \in Open
StillQueued(r) == status[r] = "queued"
StillScheduled(r) == status[r] = "scheduled"

(* scheduled_watchlist, claim_scheduled_run: a screening time has come.    *)
(* The run's start is now.                                                 *)

ClaimScheduledRun(r) ==
    /\ up
    /\ StillScheduled(r)
    /\ status' = [status EXCEPT ![r] = "queued"]
    /\ age' = [age EXCEPT ![r] = 0]
    /\ desk' = [desk EXCEPT ![r] = "swept"]
    /\ UNCHANGED <<job, spent, starts, up, backend>>

(* JobQueue.enqueue: a thread or a worker will run it; where screens run   *)
(* in requests, the page is told to ask.                                   *)
Enqueue(r) ==
    /\ up
    /\ \/ desk[r] = "created"
       \/ desk[r] = "swept" /\ backend # "request"
    /\ job' = IF backend = "request" THEN job ELSE [job EXCEPT ![r] = "waiting"]
    /\ desk' = [desk EXCEPT ![r] = "none"]
    /\ UNCHANGED <<status, age, spent, starts, up, backend>>

(* claim_run: a queued run is this request's, unless something else has    *)
(* claimed it already.                                                     *)
ClaimRun(r) ==
    \/ /\ StillQueued(r)
       /\ status' = [status EXCEPT ![r] = "running"]
       /\ job' = [job EXCEPT ![r] = "claimed"]
       /\ spent' = [spent EXCEPT ![r] = 0]
       /\ Begin(r)
    \/ /\ ~StillQueued(r)
       /\ UNCHANGED <<status, job, spent, starts>>

(* execute_screen: a page asks, perhaps two tabs do. *)
ExecuteScreen(r) ==
    /\ backend = "request"
    /\ status[r] \notin {"none", "deleted"} /\ desk[r] # "created"
    /\ age[r] <= Wait
    /\ ClaimRun(r)
    /\ UNCHANGED <<age, desk, up, backend>>

(* _start_queued, where screens run in requests: in the sweep's own. *)
StartQueued(r) ==
    /\ backend = "request"
    /\ desk[r] = "swept"
    /\ age[r] <= Wait
    /\ ClaimRun(r)
    /\ desk' = [desk EXCEPT ![r] = "none"]
    /\ UNCHANGED <<age, up, backend>>

----------------------------------------------------------------------------
(* run_screen_job: mark_running asks nothing, and goes over whatever the   *)
(* row says by then.                                                       *)
MarkRunning(r) ==
    /\ job[r] \in {"waiting", "claimed"}
    /\ Write(r, "running")
    /\ job' = [job EXCEPT ![r] = "working"]
    /\ IF job[r] = "waiting" THEN Begin(r) ELSE UNCHANGED starts
    /\ UNCHANGED <<age, desk, spent, up, backend>>

(* run_screen_job to its end, or to an exception that it records. *)
OtherWords == {"done", "error"}
Outcomes == {"complete", "failed"}

FinishRun(r) ==
    /\ job[r] = "working"
    /\ \E outcome \in Outcomes : Write(r, outcome)
    /\ job' = [job EXCEPT ![r] = "over"]
    /\ UNCHANGED <<age, desk, spent, starts, up, backend>>

(* OutOfTime, at the first step reported past the deadline. *)
StopAtLimit(r) ==
    /\ backend = "request" /\ Limit # 0
    /\ job[r] = "working"
    /\ spent[r] >= Limit
    /\ Write(r, "interrupted")
    /\ job' = [job EXCEPT ![r] = "over"]
    /\ UNCHANGED <<age, desk, spent, starts, up, backend>>

(* The request that runs a screen is cut off, or the worker dies: nothing  *)
(* writes the closing row.                                                 *)
CutOff(r) ==
    /\ \/ backend = "request" /\ (backend \in Killable \/ spent[r] = Host)
       \/ backend = "rq" /\ backend \in Killable
    /\ job[r] \in {"claimed", "working"}
    /\ job' = [job EXCEPT ![r] = "over"]
    /\ UNCHANGED <<status, age, desk, spent, starts, up, backend>>

(* A handler dies, or the queue cannot be reached, with the row inserted. *)
DropHandler(r) ==
    /\ backend \in Killable
    /\ desk[r] # "none"
    /\ desk' = [desk EXCEPT ![r] = "none"]
    /\ UNCHANGED <<status, age, job, spent, starts, up, backend>>

(* A deploy, or an instance spun down: its threads die with it. *)
Crash ==
    /\ backend = "thread" /\ backend \in Killable
    /\ up
    /\ up' = FALSE
    /\ desk' = [r \in Runs |-> "none"]
    /\ job' = [r \in Runs |-> IF Live(r) THEN "over" ELSE job[r]]
    /\ UNCHANGED <<status, age, spent, starts, backend>>

(* reap_interrupted_runs, at startup: what says it is running in the       *)
(* workspaces that the API keys name, and nothing else.                    *)
NoRows == {}
ReapedRows == Runs \ Accounts

ReapAnyTime ==
    /\ up' = TRUE
    /\ status' = [r \in Runs |-> IF r \in ReapedRows /\ status[r] = "running"
                                 THEN "interrupted" ELSE status[r]]
    /\ UNCHANGED <<age, desk, job, spent, starts, backend>>

Boot ==
    /\ ~up
    /\ up' = TRUE
    /\ status' = [r \in Runs |-> IF r \in ReapedRows /\ status[r] = "running"
                                 THEN "interrupted" ELSE status[r]]
    /\ UNCHANGED <<age, desk, job, spent, starts, backend>>

(* close_stale_runs, when somebody of the workspace lists or reads a       *)
(* screen; the SELECT and the UPDATE have the same condition.              *)
StaleRunning(r) == status[r] = "running" /\ age[r] > Window
Stale(r) == status[r] \in Open /\ age[r] > Window

CloseStaleRuns(workspace) ==
    /\ backend = "request"
    /\ \E r \in workspace : Stale(r)
    /\ status' = [r \in Runs |-> IF r \in workspace /\ Stale(r)
                                 THEN "interrupted" ELSE status[r]]
    /\ UNCHANGED <<age, desk, job, spent, starts, up, backend>>

(* delete_screen: nothing asks whether it is running. *)
DeleteScreen(r) ==
    /\ up
    /\ status[r] \notin {"none", "deleted"}
    /\ status' = [status EXCEPT ![r] = "deleted"]
    /\ UNCHANGED <<age, desk, job, spent, starts, up, backend>>

Waiting(r) == status[r] \in Open \cup {"scheduled"}

(* A unit of time passes; the host ends a request before Host is exceeded. *)
Tick ==
    /\ backend = "request"
    /\ \A r \in Runs : Live(r) => spent[r] < Host
    /\ age' = [r \in Runs |-> IF Waiting(r) /\ age[r] <= Window THEN age[r] + 1 ELSE age[r]]
    /\ spent' = [r \in Runs |-> IF Live(r) THEN spent[r] + 1 ELSE spent[r]]
    /\ UNCHANGED <<status, desk, job, starts, up, backend>>

Job(r) == MarkRunning(r) \/ FinishRun(r) \/ StopAtLimit(r) \/ CutOff(r)
Handler(r) == Enqueue(r) \/ StartQueued(r)
Looks == CloseStaleRuns(Accounts) \/ CloseStaleRuns(Runs \ Accounts)

RunNext ==
    \/ \E r \in Runs :
          \/ CreateScreen(r) \/ ClaimScheduledRun(r) \/ Enqueue(r)
          \/ ExecuteScreen(r) \/ StartQueued(r)
          \/ MarkRunning(r) \/ FinishRun(r) \/ StopAtLimit(r) \/ CutOff(r)
          \/ DropHandler(r) \/ DeleteScreen(r)
    \/ Crash \/ Boot \/ Looks \/ Tick

RunSpec == RunInit /\ [][RunNext]_runVars

(* A job that can go on does, handlers answer, time passes, a process that *)
(* went down is started again, somebody looks at the screens (every open   *)
(* page polls), and the schedule comes round again and again, so that it   *)
(* finds the process up some time.                                         *)
RunFairSpec ==
    /\ RunSpec
    /\ \A r \in Runs : /\ WF_runVars(Job(r)) /\ WF_runVars(Handler(r))
                        /\ SF_runVars(ClaimScheduledRun(r))
    /\ WF_runVars(CloseStaleRuns(Accounts)) /\ WF_runVars(CloseStaleRuns(Runs \ Accounts))
    /\ WF_runVars(Tick) /\ WF_runVars(Boot)

----------------------------------------------------------------------------
(* Every variable keeps its type. *)
RunTypeOK ==
    /\ status \in [Runs -> Statuses]
    /\ age \in [Runs -> 0..Window + 1]
    /\ desk \in [Runs -> Desks]
    /\ job \in [Runs -> Jobs]
    /\ spent \in [Runs -> 0..Host]
    /\ starts \in [Runs -> 0..2]
    /\ up \in BOOLEAN
    /\ backend \in Backends

(* "Only the first is allowed to" (claim_run): however many tabs and       *)
(* sweeps ask for it, a run is worked on once.                             *)
RunsOnce == \A r \in Runs : starts[r] <= 1

\* The page asks and the host ends the request within the window.
PromptRequests == "request" \in Backends => Wait + Host <= Window

(* "Runs started before this, and not finished, can no longer be running"  *)
(* (_stale_cutoff), and what startup closes has no process: no sweep calls *)
(* a run interrupted while its job goes on.                                *)
ClosedIsDead == \A r \in Runs : status[r] = "interrupted" => ~Live(r)

(* The last word on a run is final: a screen that was reported complete,   *)
(* failed or interrupted is not reported otherwise later, whatever job,    *)
(* page or sweep still holds it.                                           *)
OutcomeStays ==
    [][\A r \in Runs : status[r] \in Final => status'[r] \in {status[r], "deleted"}]_runVars

(* A run sits at running only while something works on it, unless its      *)
(* process is down: startup closes what the last process left ("the API    *)
(* now closes those out on startup", DEPLOY.md), in the workspaces it      *)
(* knows.                                                                  *)
RunningIsLive ==
    up /\ backend # "request" =>
        \A r \in Runs \ Accounts : status[r] = "running" => Live(r)

(* A run is worked on by one job, called interrupted only when nothing      *)
(* works on it, and running only while something does.                     *)
RunsAreTrue == RunsOnce /\ ClosedIsDead /\ RunningIsLive

(* A run that was accepted is not open for good, and the page polling it   *)
(* gets an answer, where something looks after a run whose process died    *)
(* or where none dies.                                                     *)
Tended == backend = "request" \/ backend \notin Killable
OpenEnds == \A r \in Runs : Tended /\ status[r] \in Open ~> status[r] \notin Open

(* A screen put off to a screening time is taken up then. *)
ScheduledStarts == \A r \in Runs : status[r] = "scheduled" ~> status[r] # "scheduled"

(* No run waits for good, open or put off. *)
NoneWaits == OpenEnds /\ ScheduledStarts
=============================================================================

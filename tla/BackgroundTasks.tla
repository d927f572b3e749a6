-------------------------- MODULE BackgroundTasks --------------------------
(***************************************************************************)
(* The background monitors of the agent pod (server.py).  POST             *)
(* /tasks/monitor registers a task and starts a runner, a coroutine that   *)
(* sleeps, checks a condition and in the end posts a notification to the   *)
(* operator's webhook.  The table of tasks is written to tasks.json on     *)
(* every change and read back when the pod starts.                         *)
(*                                                                         *)
(* An action runs from one await to the next.  The sections under          *)
(* _tasks_lock hold no await, so nobody ever waits for the lock.           *)
(*                                                                         *)
(* Left out: the status "failed" (the task type is checked when a task is  *)
(* registered), and pods without WEBHOOK_URL.                              *)
(***************************************************************************)
EXTENDS Integers

CONSTANTS
  Tasks,          \* task ids
  Rounds,         \* Rounds[t]: rounds of the runner's loop within t's timeout
  Refused,        \* <<task, verdict>>: notices the webhook answers with 400
  MaxFaults       \* bound: restarts, failed saves, failed POSTs

(* The two ends of a task that are notified. *)
Verdicts == {"completed", "timed_out"}

ASSUME TaskAssumption ==
  /\ Rounds \in [Tasks -> Nat]
  /\ Refused \subseteq Tasks \X Verdicts
  /\ MaxFaults \in Nat

VARIABLES
  memory,         \* memory[t]: status of t in _background_tasks
  file,           \* file[t]: status of t in tasks.json
  runner,         \* runner[t]: the coroutine of t
  notices,        \* notices[t][v]: KubeCopilotNotification objects created
  known,          \* history: has t been registered, has it been deleted
  spoiled,        \* history: a save has failed
  unheard,        \* history: tasks with a POST whose answer was lost
  interrupted,    \* history: tasks that a restart found being notified or not saved as begun
  faults          \* faults that have happened so far

vars ==
  <<memory, file, runner, notices, known, spoiled, unheard, interrupted, faults>>

Statuses == {"absent", "pending", "running"} \cup Verdicts

MaxAttempts == 3

(* left: rounds left; verdict: what is being notified; attempt: of the POST. *)
Runner == [pc : {"none", "begin", "late", "sleep", "check", "post", "backoff"},
           left : Nat, verdict : Verdicts \cup {"none"}, attempt : 0..MaxAttempts]

At(pc, left, verdict, attempt) ==
  [pc |-> pc, left |-> left, verdict |-> verdict, attempt |-> attempt]

NoRunner == At("none", 0, "none", 0)
Beginner == At("begin", 0, "none", 0)

TaskTypeOK ==
  /\ memory \in [Tasks -> Statuses]
  /\ file \in [Tasks -> Statuses]
  /\ runner \in [Tasks -> Runner]
  /\ notices \in [Tasks -> [Verdicts -> Nat]]
  /\ known \in [Tasks -> {"new", "registered", "deleted"}]
  /\ spoiled \in BOOLEAN
  /\ unheard \subseteq Tasks
  /\ interrupted \subseteq Tasks
  /\ faults \in 0..MaxFaults

Init ==
  /\ memory = [t \in Tasks |-> "absent"]
  /\ file = memory
  /\ runner = [t \in Tasks |-> NoRunner]
  /\ notices = [t \in Tasks |-> [v \in Verdicts |-> 0]]
  /\ known = [t \in Tasks |-> "new"]
  /\ spoiled = FALSE
  /\ unheard = {}
  /\ interrupted = {}
  /\ faults = 0

Fault == faults < MaxFaults /\ faults' = faults + 1

-----------------------------------------------------------------------------
(* _save_tasks: the whole table replaces the file at once, or the write    *)
(* fails, which is only printed.                                           *)
SaveTasks ==
  \/ file' = memory' /\ UNCHANGED <<spoiled, faults>>
  \/ Fault /\ spoiled' = TRUE /\ UNCHANGED file

(* Mutant: the status is set by key, which puts a deleted task back. *)
RecordByKey(t, status) ==
  /\ memory' = [memory EXCEPT ![t] = status]
  /\ SaveTasks

(* task["status"] = status: the runner's dict is the table's entry, but    *)
(* not after the task was deleted.                                         *)
Record(t, status) ==
  /\ memory' = IF memory[t] = "absent" THEN memory ELSE [memory EXCEPT ![t] = status]
  /\ SaveTasks

Run(t, r) == runner' = [runner EXCEPT ![t] = r]

Sleep(t, left) == Run(t, At("sleep", left, "none", 0))

(* The end of the loop: record the verdict and start to notify. *)
Conclude(t, verdict) ==
  /\ Record(t, verdict)
  /\ Run(t, At("post", 0, verdict, 1))

(* create_monitor_task *)
CreateTask(t) ==
  /\ known[t] = "new"
  /\ known' = [known EXCEPT ![t] = "registered"]
  /\ memory' = [memory EXCEPT ![t] = "pending"]
  /\ SaveTasks
  /\ Run(t, Beginner)
  /\ UNCHANGED <<notices, unheard, interrupted>>

(* _run_background_task up to its first sleep, if it has one. *)
BeginTask(t) ==
  /\ runner[t].pc = "begin"
  /\ memory[t] # "absent"
  /\ Record(t, "running")
  /\ \/ Rounds[t] > 0 /\ Sleep(t, Rounds[t])
     \/ Rounds[t] = 0 /\ Run(t, At("late", 0, "none", 0))
  /\ UNCHANGED <<notices, known, unheard, interrupted>>

(* The loop has no round: the task times out at once.  A step of its own,  *)
(* since the pod can stop, or a save fail, between the two writes.         *)
TimeOutAtOnce(t) ==
  /\ runner[t].pc = "late"
  /\ Conclude(t, "timed_out")
  /\ UNCHANGED <<notices, known, unheard, interrupted>>

(* The runner finds its task deleted, at its start or after a sleep. *)
QuitDeleted(t) ==
  /\ runner[t].pc \in {"begin", "sleep"}
  /\ memory[t] = "absent"
  /\ Run(t, NoRunner)
  /\ UNCHANGED <<memory, file, notices, known, spoiled, unheard, interrupted, faults>>

(* The sleep is over and the checker is called. *)
WakeUp(t) ==
  /\ runner[t].pc = "sleep"
  /\ memory[t] # "absent"
  /\ Run(t, At("check", runner[t].left - 1, "none", 0))
  /\ UNCHANGED <<memory, file, notices, known, spoiled, unheard, interrupted, faults>>

ConditionMet(t) ==
  /\ runner[t].pc = "check"
  /\ Conclude(t, "completed")
  /\ UNCHANGED <<notices, known, unheard, interrupted>>

(* Mutant: the loop runs on when the timeout is reached exactly. *)
ConditionNotMetInclusive(t) ==
  /\ runner[t].pc = "check"
  /\ \/ /\ runner[t].left >= 0
        /\ Sleep(t, runner[t].left)
        /\ UNCHANGED <<memory, file, spoiled, faults>>
     \/ runner[t].left < 0 /\ Conclude(t, "timed_out")
  /\ UNCHANGED <<notices, known, unheard, interrupted>>

(* Not met, or the checker raised. *)
ConditionNotMet(t) ==
  /\ runner[t].pc = "check"
  /\ \/ /\ runner[t].left > 0
        /\ Sleep(t, runner[t].left)
        /\ UNCHANGED <<memory, file, spoiled, faults>>
     \/ runner[t].left = 0 /\ Conclude(t, "timed_out")
  /\ UNCHANGED <<notices, known, unheard, interrupted>>

-----------------------------------------------------------------------------
(* _post_notification with handleNotification of the webhook. *)
Posting(t) == runner[t].pc = "post"

Notify(t) == notices' = [notices EXCEPT ![t][runner[t].verdict] = @ + 1]

(* Mutant: the last attempt is never made. *)
TryAgainEarlyStop(t) ==
  Run(t, IF runner[t].attempt + 1 < MaxAttempts
           THEN At("backoff", 0, runner[t].verdict, runner[t].attempt + 1)
           ELSE NoRunner)

TryAgain(t) ==
  Run(t, IF runner[t].attempt < MaxAttempts
           THEN At("backoff", 0, runner[t].verdict, runner[t].attempt + 1)
           ELSE NoRunner)

(* Mutant: the runner goes on posting after a success. *)
NoticeCreatedAgain(t) ==
  /\ Posting(t)
  /\ <<t, runner[t].verdict>> \notin Refused
  /\ Notify(t)
  /\ TryAgain(t)
  /\ UNCHANGED <<memory, file, known, spoiled, unheard, interrupted, faults>>

NoticeCreated(t) ==
  /\ Posting(t)
  /\ <<t, runner[t].verdict>> \notin Refused
  /\ Notify(t)
  /\ Run(t, NoRunner)
  /\ UNCHANGED <<memory, file, known, spoiled, unheard, interrupted, faults>>

(* 400: a field is missing or the notification type is unknown. *)
NoticeRefused(t) ==
  /\ Posting(t)
  /\ <<t, runner[t].verdict>> \in Refused
  /\ Run(t, NoRunner)
  /\ UNCHANGED <<memory, file, notices, known, spoiled, unheard, interrupted, faults>>

(* The webhook was not reached or answered 500. *)
NoticeFails(t) ==
  /\ Posting(t)
  /\ Fault
  /\ TryAgain(t)
  /\ UNCHANGED <<memory, file, notices, known, spoiled, unheard, interrupted>>

(* The object was created and the answer lost. *)
AnswerLost(t) ==
  /\ Posting(t)
  /\ <<t, runner[t].verdict>> \notin Refused
  /\ Fault
  /\ Notify(t)
  /\ unheard' = unheard \cup {t}
  /\ TryAgain(t)
  /\ UNCHANGED <<memory, file, known, spoiled, interrupted>>

BackoffOver(t) ==
  /\ runner[t].pc = "backoff"
  /\ Run(t, At("post", 0, runner[t].verdict, runner[t].attempt))
  /\ UNCHANGED <<memory, file, notices, known, spoiled, unheard, interrupted, faults>>

-----------------------------------------------------------------------------
(* delete_task; the runner is not told. *)
DeleteTask(t) ==
  /\ memory[t] # "absent"
  /\ memory' = [memory EXCEPT ![t] = "absent"]
  /\ SaveTasks
  /\ known' = [known EXCEPT ![t] = "deleted"]
  /\ UNCHANGED <<runner, notices, unheard, interrupted>>

(* Mutant: finished tasks are run again. *)
RestoreTasksAll ==
  /\ memory' = file
  /\ runner' = [t \in Tasks |-> IF file[t] = "absent" THEN NoRunner
                                ELSE Beginner]

(* _restore_tasks: running tasks get a runner that starts from the         *)
(* beginning, finished ones are kept for display, pending ones are not     *)
(* taken over.                                                             *)
RestoreTasks ==
  /\ memory' = [t \in Tasks |-> IF file[t] = "pending" THEN "absent" ELSE file[t]]
  /\ runner' = [t \in Tasks |-> IF file[t] = "running" THEN Beginner
                                ELSE NoRunner]

(* The file does not say that a task of the table ever began. *)
Unsaved(t) == memory[t] # "absent" /\ file[t] \in {"absent", "pending"}

RestartPod ==
  /\ Fault
  /\ RestoreTasks
  /\ interrupted' = interrupted \cup
       {t \in Tasks : runner[t].pc \in {"post", "backoff"} \/ Unsaved(t)}
  /\ UNCHANGED <<file, notices, known, spoiled, unheard>>

(* A step of the runner of t. *)
RunTask(t) ==
  \/ BeginTask(t) \/ TimeOutAtOnce(t) \/ QuitDeleted(t) \/ WakeUp(t)
  \/ ConditionMet(t) \/ ConditionNotMet(t)
  \/ NoticeCreated(t) \/ NoticeRefused(t) \/ NoticeFails(t) \/ AnswerLost(t)
  \/ BackoffOver(t)

Next ==
  \/ \E t \in Tasks : CreateTask(t) \/ RunTask(t) \/ DeleteTask(t)
  \/ RestartPod

Spec == Init /\ [][Next]_vars

(* asyncio resumes every coroutine whose sleep or call is over, and both   *)
(* end: the calls have timeouts of their own.                              *)
FairSpec == Spec /\ \A t \in Tasks : WF_vars(RunTask(t))

-----------------------------------------------------------------------------
(* Properties. *)

Notified(t, v) == notices[t][v] > 0

(* The user is told one end of a task and never the other, through any     *)
(* restart: the runner saves the verdict before its first POST, and a      *)
(* restart does not run a concluded task again (server.py 706-741).        *)
OneVerdict ==
  ~spoiled => \A t \in Tasks : ~(Notified(t, "completed") /\ Notified(t, "timed_out"))

(* A deleted task never comes back, neither by the next write of its       *)
(* runner, which goes on until it wakes up, nor by a restart (server.py    *)
(* 697, 707, 741-750, 984-990).                                            *)
DeletedStaysDeleted ==
  ~spoiled => \A t \in Tasks :
    known[t] = "deleted" => memory[t] = "absent" /\ file[t] = "absent"

(* A task is notified at most once, unless the answer to one of its POSTs  *)
(* was lost: restarts, deletions and failed attempts add no second notice  *)
(* (server.py 538-562).                                                    *)
NoticeOnce ==
  ~spoiled => \A t \in Tasks \ unheard :
    notices[t]["completed"] + notices[t]["timed_out"] <= 1

(* Every task ends with a notice to its user, unless the webhook refuses   *)
(* it, the task was deleted, or the pod restarted before the task was      *)
(* saved as running or while it posted: no restart forgets a task that     *)
(* has begun, and none that concluded keeps silent otherwise.  It takes    *)
(* fewer than MaxAttempts faults: the retries absorb them (server.py       *)
(* 538-562, 741-750).                                                      *)
TaskIsTold ==
  \A t \in Tasks :
    known[t] = "registered" ~>
      \/ \E v \in Verdicts : Notified(t, v) \/ <<t, v>> \in Refused
      \/ t \in interrupted
      \/ known[t] = "deleted"
=============================================================================

----------------------- MODULE BackgroundTasksProofs -----------------------
(***************************************************************************)
(* The safety properties of BackgroundTasks, for any tasks, timeouts,      *)
(* refused notices and number of faults.                                   *)
(***************************************************************************)
EXTENDS BackgroundTasks, TLAPS

(* A runner that sleeps has a round left; one that posts knows its verdict *)
(* and counts its attempts from one.                                       *)
RunnersOK ==
  \A t \in Tasks :
    /\ runner[t].pc = "sleep" => runner[t].left > 0
    /\ runner[t].pc \in {"post", "backoff"} =>
         runner[t].verdict \in Verdicts /\ runner[t].attempt \in 1..MaxAttempts

Unfinished == {"pending", "running"}

Silent(t) == notices[t]["completed"] = 0 /\ notices[t]["timed_out"] = 0

(* The file agrees with the table, except for tasks that had not begun at  *)
(* a restart: they have no entry in the table and no runner any more.      *)
FileAgrees(t) ==
  \/ file[t] = memory[t]
  \/ memory[t] = "absent" /\ file[t] = "pending" /\ runner[t].pc = "none"

(* A runner below its verdict has notified nobody, and neither has a task  *)
(* that a restart may run again.                                           *)
WorkingIsSilent(t) ==
  /\ runner[t].pc \in {"begin", "late", "sleep", "check"} =>
       memory[t] \in Unfinished \cup {"absent"} /\ Silent(t)
  /\ memory[t] \in Unfinished \/ file[t] \in Unfinished => Silent(t)

(* A posting runner posts the verdict in the table, and has told nobody    *)
(* the other one.                                                          *)
PostingIsRecorded(t) ==
  runner[t].pc \in {"post", "backoff"} =>
    /\ memory[t] \in {runner[t].verdict, "absent"}
    /\ \A v \in Verdicts :
         notices[t][v] > 0 => v = runner[t].verdict /\ t \in unheard

(* Tasks that do not exist yet, and tasks that do not exist any more.      *)
NewAndDeleted(t) ==
  /\ known[t] = "new" =>
       /\ memory[t] = "absent" /\ file[t] = "absent"
       /\ runner[t].pc = "none" /\ Silent(t)
  /\ known[t] = "deleted" => memory[t] = "absent" /\ file[t] = "absent"

Told(t) ==
  /\ notices[t]["completed"] = 0 \/ notices[t]["timed_out"] = 0
  /\ t \notin unheard => notices[t]["completed"] + notices[t]["timed_out"] <= 1

TaskOK(t) ==
  /\ FileAgrees(t)
  /\ WorkingIsSilent(t)
  /\ PostingIsRecorded(t)
  /\ NewAndDeleted(t)
  /\ Told(t)

(* The inductive invariant.                                                *)
TasksInv ==
  /\ TaskTypeOK
  /\ RunnersOK
  /\ ~spoiled => \A t \in Tasks : TaskOK(t)

-----------------------------------------------------------------------------
(* The helpers of the actions. *)

LEMMA RunEffect ==
  ASSUME runner \in [Tasks -> Runner], RunnersOK, NEW t \in Tasks, NEW r \in Runner, Run(t, r),
         r.pc = "sleep" => r.left > 0,
         r.pc \in {"post", "backoff"} => r.verdict \in Verdicts /\ r.attempt \in 1..MaxAttempts
  PROVE  /\ runner' \in [Tasks -> Runner]
         /\ RunnersOK'
         /\ runner'[t] = r
         /\ \A u \in Tasks \ {t} : runner'[u] = runner[u]
  BY DEF Run, RunnersOK

LEMMA FaultEffect == TaskTypeOK /\ Fault => faults' \in 0..MaxFaults
  BY TaskAssumption DEF TaskTypeOK, Fault

LEMMA SaveEffect ==
  ASSUME TaskTypeOK, SaveTasks, memory' \in [Tasks -> Statuses]
  PROVE  /\ file' \in [Tasks -> Statuses]
         /\ spoiled' \in BOOLEAN
         /\ faults' \in 0..MaxFaults
         /\ ~spoiled' => ~spoiled /\ file' = memory'
  BY FaultEffect DEF TaskTypeOK, SaveTasks, Fault

LEMMA RecordEffect ==
  ASSUME TaskTypeOK, NEW t \in Tasks, NEW status \in Statuses, Record(t, status)
  PROVE  /\ memory' \in [Tasks -> Statuses]
         /\ memory'[t] = IF memory[t] = "absent" THEN "absent" ELSE status
         /\ \A u \in Tasks \ {t} : memory'[u] = memory[u]
         /\ SaveTasks
  BY DEF TaskTypeOK, Record

LEMMA NotifyEffect ==
  ASSUME TaskTypeOK, NEW t \in Tasks, runner[t].verdict \in Verdicts, Notify(t)
  PROVE  /\ notices' \in [Tasks -> [Verdicts -> Nat]]
         /\ notices'[t][runner[t].verdict] = notices[t][runner[t].verdict] + 1
         /\ \A v \in Verdicts \ {runner[t].verdict} : notices'[t][v] = notices[t][v]
         /\ \A u \in Tasks \ {t} : notices'[u] = notices[u]
  BY DEF TaskTypeOK, Notify

(* The runners that the actions start or leave. *)
LEMMA RunnerValues ==
  ASSUME NEW pc \in {"none", "begin", "late", "sleep", "check", "post", "backoff"},
         NEW left \in Nat,
         NEW verdict \in Verdicts \cup {"none"}, NEW attempt \in 0..MaxAttempts
  PROVE  LET r == At(pc, left, verdict, attempt)
         IN  r \in Runner /\ r.pc = pc /\ r.left = left /\ r.verdict = verdict /\ r.attempt = attempt
  BY DEF At, Runner

LEMMA IdleValues ==
  /\ NoRunner \in Runner /\ NoRunner.pc = "none"
  /\ Beginner \in Runner /\ Beginner.pc = "begin"
  BY RunnerValues DEF NoRunner, Beginner, MaxAttempts

(* An action writes runner[t] and nothing else of the runners. *)
OnlyRunner(t) ==
  /\ runner' \in [Tasks -> Runner]
  /\ RunnersOK'
  /\ \A u \in Tasks \ {t} : runner'[u] = runner[u]

LEMMA StopEffect ==
  ASSUME TaskTypeOK, RunnersOK, NEW t \in Tasks, Run(t, NoRunner)
  PROVE  OnlyRunner(t) /\ runner'[t].pc = "none"
  BY RunEffect, IdleValues DEF TaskTypeOK, OnlyRunner

LEMMA SleepEffect ==
  ASSUME TaskTypeOK, RunnersOK, NEW t \in Tasks, NEW n \in Nat, n > 0, Sleep(t, n)
  PROVE  OnlyRunner(t) /\ runner'[t].pc = "sleep"
<1> DEFINE r == At("sleep", n, "none", 0)
<1>1. r \in Runner /\ r.pc = "sleep" /\ r.left = n
  BY RunnerValues DEF MaxAttempts
<1>2. Run(t, r)
  BY DEF Sleep
<1> HIDE DEF r
<1>3. QED
  BY <1>1, <1>2, RunEffect DEF TaskTypeOK, OnlyRunner

LEMMA LateEffect ==
  ASSUME TaskTypeOK, RunnersOK, NEW t \in Tasks, Run(t, At("late", 0, "none", 0))
  PROVE  OnlyRunner(t) /\ runner'[t].pc = "late"
<1> DEFINE r == At("late", 0, "none", 0)
<1>1. r \in Runner /\ r.pc = "late"
  BY RunnerValues DEF MaxAttempts
<1> HIDE DEF r
<1>2. QED
  BY <1>1, RunEffect DEF TaskTypeOK, OnlyRunner, r

LEMMA WakeUpEffect ==
  ASSUME TaskTypeOK, RunnersOK, NEW t \in Tasks, WakeUp(t)
  PROVE  OnlyRunner(t) /\ runner'[t].pc = "check"
<1> DEFINE r == At("check", runner[t].left - 1, "none", 0)
<1>1. runner[t].left - 1 \in Nat
  BY DEF TaskTypeOK, RunnersOK, Runner, WakeUp
<1>2. r \in Runner /\ r.pc = "check"
  BY <1>1, RunnerValues DEF MaxAttempts
<1>3. Run(t, r)
  BY DEF WakeUp
<1> HIDE DEF r
<1>4. QED
  BY <1>2, <1>3, RunEffect DEF TaskTypeOK, OnlyRunner

(* A runner that posts, or waits to post again. *)
LEMMA PostEffect ==
  ASSUME TaskTypeOK, RunnersOK, NEW t \in Tasks, NEW pc \in {"post", "backoff"},
         NEW v \in Verdicts, NEW n \in 1..MaxAttempts, Run(t, At(pc, 0, v, n))
  PROVE  OnlyRunner(t) /\ runner'[t].pc = pc /\ runner'[t].verdict = v
<1> DEFINE r == At(pc, 0, v, n)
<1>1. r \in Runner /\ r.pc = pc /\ r.verdict = v /\ r.attempt = n
  BY RunnerValues DEF MaxAttempts
<1> HIDE DEF r
<1>2. QED
  BY <1>1, RunEffect DEF TaskTypeOK, OnlyRunner, r

LEMMA ConcludeEffect ==
  ASSUME TaskTypeOK, RunnersOK, NEW t \in Tasks, NEW v \in Verdicts, Conclude(t, v)
  PROVE  /\ OnlyRunner(t)
         /\ runner'[t].pc = "post" /\ runner'[t].verdict = v
         /\ Record(t, v)
  BY PostEffect DEF Conclude, MaxAttempts

(* A runner that is not stopped goes on posting the same verdict. *)
LEMMA TryAgainEffect ==
  ASSUME TaskTypeOK, RunnersOK, NEW t \in Tasks, runner[t].pc = "post", TryAgain(t)
  PROVE  /\ OnlyRunner(t)
         /\ \/ runner'[t].pc = "none"
            \/ runner'[t].pc = "backoff" /\ runner'[t].verdict = runner[t].verdict
<1>1. runner[t].verdict \in Verdicts /\ runner[t].attempt \in 1..MaxAttempts
  BY DEF RunnersOK
<1>2. CASE runner[t].attempt < MaxAttempts
  <2>1. runner[t].attempt + 1 \in 1..MaxAttempts
    BY <1>1, <1>2 DEF MaxAttempts
  <2>2. Run(t, At("backoff", 0, runner[t].verdict, runner[t].attempt + 1))
    BY <1>2 DEF TryAgain
  <2>3. QED
    BY <1>1, <2>1, <2>2, PostEffect
<1>3. CASE ~(runner[t].attempt < MaxAttempts)
  BY <1>3, StopEffect DEF TryAgain
<1>4. QED
  BY <1>2, <1>3

LEMMA BackoffEffect ==
  ASSUME TaskTypeOK, RunnersOK, NEW t \in Tasks, BackoffOver(t)
  PROVE  /\ OnlyRunner(t)
         /\ runner'[t].pc = "post" /\ runner'[t].verdict = runner[t].verdict
<1>1. runner[t].verdict \in Verdicts /\ runner[t].attempt \in 1..MaxAttempts
  BY DEF RunnersOK, BackoffOver
<1>2. QED
  BY <1>1, PostEffect DEF BackoffOver

(* What a restart makes of the table and the runners. *)
LEMMA RestartEffect ==
  ASSUME TaskTypeOK, RestoreTasks
  PROVE  /\ memory' \in [Tasks -> Statuses]
         /\ runner' \in [Tasks -> Runner]
         /\ RunnersOK'
         /\ \A u \in Tasks :
              /\ memory'[u] = IF file[u] = "pending" THEN "absent" ELSE file[u]
              /\ runner'[u].pc = IF file[u] = "running" THEN "begin" ELSE "none"
<1>1. memory' \in [Tasks -> Statuses] /\ runner' \in [Tasks -> Runner]
  BY IdleValues DEF TaskTypeOK, RestoreTasks, Statuses
<1>2. \A u \in Tasks :
        /\ memory'[u] = IF file[u] = "pending" THEN "absent" ELSE file[u]
        /\ runner'[u].pc = IF file[u] = "running" THEN "begin" ELSE "none"
  BY IdleValues DEF TaskTypeOK, RestoreTasks
<1>3. QED
  BY <1>1, <1>2 DEF RunnersOK

-----------------------------------------------------------------------------
(* Type correctness. *)

LEMMA TypeStep ==
  ASSUME TaskTypeOK, RunnersOK, [Next]_vars
  PROVE  TaskTypeOK' /\ RunnersOK'
<1> USE DEF TaskTypeOK
<1>1. ASSUME NEW t \in Tasks, CreateTask(t) PROVE TaskTypeOK' /\ RunnersOK'
  <2>1. memory' \in [Tasks -> Statuses] /\ known' \in [Tasks -> {"new", "registered", "deleted"}]
    BY <1>1 DEF CreateTask, Statuses
  <2>2. runner' \in [Tasks -> Runner] /\ RunnersOK'
    BY <1>1, RunEffect, IdleValues DEF CreateTask
  <2>3. QED
    BY <1>1, <2>1, <2>2, SaveEffect DEF CreateTask
<1>2. ASSUME NEW t \in Tasks, NEW v \in Verdicts, Conclude(t, v),
             UNCHANGED <<notices, known, unheard, interrupted>>
      PROVE  TaskTypeOK' /\ RunnersOK'
  BY <1>2, ConcludeEffect, RecordEffect, SaveEffect DEF OnlyRunner, Statuses
<1>3. ASSUME NEW t \in Tasks, BeginTask(t) PROVE TaskTypeOK' /\ RunnersOK'
  <2>1. OnlyRunner(t)
    BY <1>3, TaskAssumption, SleepEffect, LateEffect DEF BeginTask
  <2>2. QED
    BY <1>3, <2>1, RecordEffect, SaveEffect DEF BeginTask, OnlyRunner, Statuses
<1>l. ASSUME NEW t \in Tasks, TimeOutAtOnce(t) PROVE TaskTypeOK' /\ RunnersOK'
  BY <1>2, <1>l DEF TimeOutAtOnce, Verdicts
<1>4. ASSUME NEW t \in Tasks, QuitDeleted(t) PROVE TaskTypeOK' /\ RunnersOK'
  BY <1>4, StopEffect DEF QuitDeleted, OnlyRunner
<1>5. ASSUME NEW t \in Tasks, WakeUp(t) PROVE TaskTypeOK' /\ RunnersOK'
  BY <1>5, WakeUpEffect DEF WakeUp, OnlyRunner
<1>6. ASSUME NEW t \in Tasks, ConditionMet(t) PROVE TaskTypeOK' /\ RunnersOK'
  BY <1>2, <1>6 DEF ConditionMet, Verdicts
<1>7. ASSUME NEW t \in Tasks, ConditionNotMet(t) PROVE TaskTypeOK' /\ RunnersOK'
  <2>1. runner[t].left \in Nat
    BY DEF Runner
  <2>2. QED
    BY <1>2, <1>7, <2>1, SleepEffect DEF ConditionNotMet, OnlyRunner, Verdicts
<1>8. ASSUME NEW t \in Tasks, NoticeCreated(t) PROVE TaskTypeOK' /\ RunnersOK'
  <2>1. runner[t].verdict \in Verdicts
    BY <1>8 DEF NoticeCreated, Posting, RunnersOK
  <2>2. QED
    BY <1>8, <2>1, StopEffect, NotifyEffect DEF NoticeCreated, OnlyRunner
<1>9. ASSUME NEW t \in Tasks, NoticeRefused(t) PROVE TaskTypeOK' /\ RunnersOK'
  BY <1>9, StopEffect DEF NoticeRefused, OnlyRunner
<1>10. ASSUME NEW t \in Tasks, NoticeFails(t) PROVE TaskTypeOK' /\ RunnersOK'
  BY <1>10, TryAgainEffect, FaultEffect DEF NoticeFails, Posting, OnlyRunner
<1>11. ASSUME NEW t \in Tasks, AnswerLost(t) PROVE TaskTypeOK' /\ RunnersOK'
  <2>1. runner[t].verdict \in Verdicts
    BY <1>11 DEF AnswerLost, Posting, RunnersOK
  <2>2. QED
    BY <1>11, <2>1, TryAgainEffect, FaultEffect, NotifyEffect DEF AnswerLost, Posting, OnlyRunner
<1>12. ASSUME NEW t \in Tasks, BackoffOver(t) PROVE TaskTypeOK' /\ RunnersOK'
  BY <1>12, BackoffEffect DEF BackoffOver, OnlyRunner
<1>13. ASSUME NEW t \in Tasks, DeleteTask(t) PROVE TaskTypeOK' /\ RunnersOK'
  <2>1. memory' \in [Tasks -> Statuses] /\ known' \in [Tasks -> {"new", "registered", "deleted"}]
    BY <1>13 DEF DeleteTask, Statuses
  <2>2. QED
    BY <1>13, <2>1, SaveEffect DEF DeleteTask, RunnersOK
<1>14. CASE RestartPod
  BY <1>14, RestartEffect, FaultEffect DEF RestartPod
<1>15. CASE UNCHANGED vars
  BY <1>15 DEF vars, RunnersOK
<1>16. QED
  BY <1>1, <1>3, <1>l, <1>4, <1>5, <1>6, <1>7, <1>8, <1>9, <1>10, <1>11, <1>12, <1>13, <1>14, <1>15
     DEF Next, RunTask

-----------------------------------------------------------------------------
(* What holds of each task as long as every save succeeds. *)

(* A task the step is not about: at most its file entry is refreshed. *)
LEMMA OtherTask ==
  ASSUME NEW u \in Tasks, TaskOK(u),
         memory'[u] = memory[u], runner'[u] = runner[u], notices'[u] = notices[u],
         known'[u] = known[u], u \in unheard => u \in unheard', u \in unheard' => u \in unheard,
         file'[u] = file[u] \/ file'[u] = memory'[u]
  PROVE  TaskOK(u)'
  BY DEF TaskOK, FileAgrees, WorkingIsSilent, PostingIsRecorded, NewAndDeleted, Told,
         Silent, Unfinished

(* A save that succeeded leaves the other tasks alone. *)
LEMMA OtherSaved ==
  ASSUME TaskTypeOK, NEW t \in Tasks, NEW u \in Tasks \ {t}, TaskOK(u), file' = memory',
         memory'[u] = memory[u], runner'[u] = runner[u], known'[u] = known[u],
         UNCHANGED <<notices, unheard>>
  PROVE  TaskOK(u)'
  BY OtherTask

LEMMA TaskStep ==
  ASSUME TasksInv, [Next]_vars, ~spoiled', NEW u \in Tasks
  PROVE  TaskOK(u)'
<1>0. TaskTypeOK /\ RunnersOK
  BY DEF TasksInv
<1>t. /\ memory[u] \in Statuses /\ file[u] \in Statuses /\ runner[u] \in Runner
      /\ notices[u] \in [Verdicts -> Nat]
  BY <1>0 DEF TaskTypeOK
<1>o. ~spoiled => TaskOK(u)
  BY DEF TasksInv
<1>s. ASSUME SaveTasks, memory' \in [Tasks -> Statuses]
      PROVE  TaskOK(u) /\ file' = memory'
  BY <1>0, <1>o, <1>s, SaveEffect
<1> USE DEF FileAgrees, WorkingIsSilent, PostingIsRecorded, NewAndDeleted, Told, Silent, Unfinished
<1>1. ASSUME NEW t \in Tasks, CreateTask(t) PROVE TaskOK(u)'
  <2>1. /\ memory' \in [Tasks -> Statuses] /\ memory'[t] = "pending"
        /\ known'[t] = "registered"
        /\ t # u => memory'[u] = memory[u] /\ known'[u] = known[u]
    BY <1>0, <1>1 DEF CreateTask, TaskTypeOK, Statuses
  <2>2. runner'[t].pc = "begin" /\ (t # u => runner'[u] = runner[u])
    BY <1>0, <1>1, RunEffect, IdleValues DEF CreateTask, TaskTypeOK
  <2>3. TaskOK(u) /\ file' = memory'
    BY <1>1, <1>s, <2>1 DEF CreateTask
  <2>4. CASE t = u
    BY <1>1, <2>1, <2>2, <2>3, <2>4 DEF CreateTask, TaskOK
  <2>5. QED
    BY <1>0, <1>1, <2>1, <2>2, <2>3, <2>4, OtherSaved DEF CreateTask
<1>2. ASSUME NEW t \in Tasks, NEW v \in Verdicts, Conclude(t, v),
             runner[t].pc \in {"late", "check"},
             UNCHANGED <<notices, known, unheard, interrupted>>
      PROVE  TaskOK(u)'
  <2>1. /\ runner'[t].pc = "post" /\ runner'[t].verdict = v
        /\ t # u => runner'[u] = runner[u]
        /\ Record(t, v)
    BY <1>0, <1>2, ConcludeEffect DEF OnlyRunner
  <2>2. /\ memory' \in [Tasks -> Statuses] /\ SaveTasks
        /\ memory'[t] = IF memory[t] = "absent" THEN "absent" ELSE v
        /\ t # u => memory'[u] = memory[u]
    BY <1>0, <2>1, RecordEffect DEF Statuses
  <2>3. TaskOK(u) /\ file' = memory'
    BY <1>s, <2>2
  <2>4. CASE t = u
    BY <1>2, <1>t, <2>1, <2>2, <2>3, <2>4 DEF TaskOK, Verdicts
  <2>5. QED
    BY <1>0, <1>2, <2>1, <2>2, <2>3, <2>4, OtherSaved
<1>3. ASSUME NEW t \in Tasks, BeginTask(t) PROVE TaskOK(u)'
  <2>1. runner'[t].pc \in {"late", "sleep"} /\ (t # u => runner'[u] = runner[u])
    BY <1>0, <1>3, TaskAssumption, SleepEffect, LateEffect DEF BeginTask, OnlyRunner
  <2>2. /\ memory' \in [Tasks -> Statuses] /\ SaveTasks
        /\ memory'[t] = IF memory[t] = "absent" THEN "absent" ELSE "running"
        /\ t # u => memory'[u] = memory[u]
    BY <1>0, <1>3, RecordEffect DEF BeginTask, Statuses
  <2>3. TaskOK(u) /\ file' = memory'
    BY <1>s, <2>2
  <2>4. CASE t = u
    BY <1>3, <1>t, <2>1, <2>2, <2>3, <2>4 DEF BeginTask, TaskOK
  <2>5. QED
    BY <1>0, <1>3, <2>1, <2>2, <2>3, <2>4, OtherSaved DEF BeginTask
<1>l. ASSUME NEW t \in Tasks, TimeOutAtOnce(t) PROVE TaskOK(u)'
  BY <1>2, <1>l DEF TimeOutAtOnce, Verdicts
<1>4. ASSUME NEW t \in Tasks, OnlyRunner(t), TaskOK(u),
             \/ runner'[t].pc = "none"
             \/ /\ runner[t].pc \in {"sleep", "check"}
                /\ runner'[t].pc \in {"sleep", "check"},
             UNCHANGED <<memory, file, notices, known, unheard>>,
             known[t] # "new"
      PROVE  TaskOK(u)'
  <2>1. CASE t = u
    BY <1>4, <2>1 DEF TaskOK
  <2>2. QED
    BY <1>4, <2>1, OtherTask DEF OnlyRunner
<1>k. ASSUME NEW t \in Tasks, runner[t].pc # "none", ~spoiled PROVE known[t] # "new"
  BY <1>k DEF TasksInv, TaskOK
<1>5. ASSUME NEW t \in Tasks, QuitDeleted(t) PROVE TaskOK(u)'
  BY <1>0, <1>o, <1>4, <1>5, <1>k, StopEffect DEF QuitDeleted
<1>6. ASSUME NEW t \in Tasks, WakeUp(t) PROVE TaskOK(u)'
  BY <1>0, <1>o, <1>4, <1>6, <1>k, WakeUpEffect DEF WakeUp
<1>7. ASSUME NEW t \in Tasks, ConditionMet(t) PROVE TaskOK(u)'
  BY <1>2, <1>7 DEF ConditionMet, Verdicts
<1>8. ASSUME NEW t \in Tasks, ConditionNotMet(t) PROVE TaskOK(u)'
  <2>1. CASE runner[t].left > 0 /\ Sleep(t, runner[t].left)
             /\ UNCHANGED <<memory, file, spoiled, faults>>
    <3>1. runner[t].left \in Nat
      BY <1>0 DEF TaskTypeOK, Runner
    <3>2. QED
      BY <1>0, <1>o, <1>4, <1>8, <1>k, <2>1, <3>1, SleepEffect DEF ConditionNotMet
  <2>2. QED
    BY <1>2, <1>8, <2>1 DEF ConditionNotMet, Verdicts
<1>9. ASSUME NEW t \in Tasks, NoticeCreated(t) PROVE TaskOK(u)'
  <2>1. runner[t].pc = "post" /\ runner[t].verdict \in Verdicts /\ ~spoiled
    BY <1>0, <1>9 DEF NoticeCreated, Posting, RunnersOK
  <2>2. runner'[t].pc = "none" /\ (t # u => runner'[u] = runner[u])
    BY <1>0, <1>9, StopEffect DEF NoticeCreated, OnlyRunner
  <2>3. /\ notices'[t][runner[t].verdict] = notices[t][runner[t].verdict] + 1
        /\ \A v \in Verdicts \ {runner[t].verdict} : notices'[t][v] = notices[t][v]
        /\ t # u => notices'[u] = notices[u]
    BY <1>0, <1>9, <2>1, NotifyEffect DEF NoticeCreated
  <2>4. CASE t = u
    <3>1. TaskOK(u) /\ UNCHANGED <<memory, file, known, unheard>>
      BY <1>9, <1>o, <2>1 DEF NoticeCreated
    <3>2. notices[u]["completed"] \in Nat /\ notices[u]["timed_out"] \in Nat
      BY <1>t DEF Verdicts
    <3>3. /\ notices[u]["completed"] > 0 => runner[u].verdict = "completed" /\ u \in unheard
          /\ notices[u]["timed_out"] > 0 => runner[u].verdict = "timed_out" /\ u \in unheard
          /\ memory[u] \in {runner[u].verdict, "absent"}
      BY <2>1, <2>4, <3>1 DEF TaskOK, Verdicts
    <3>4. /\ runner[u].verdict = "completed" =>
               /\ notices'[u]["completed"] = notices[u]["completed"] + 1
               /\ notices'[u]["timed_out"] = notices[u]["timed_out"]
          /\ runner[u].verdict = "timed_out" =>
               /\ notices'[u]["timed_out"] = notices[u]["timed_out"] + 1
               /\ notices'[u]["completed"] = notices[u]["completed"]
      BY <2>3, <2>4 DEF Verdicts
    <3>5. runner[u].verdict \in {"completed", "timed_out"}
      BY <2>1, <2>4 DEF Verdicts
    <3>6. FileAgrees(u)' /\ NewAndDeleted(u)' /\ WorkingIsSilent(u)'
      BY <1>o, <2>1, <2>2, <2>4, <3>1, <3>3, <3>5 DEF TaskOK
    <3>7. Told(u)'
      BY <3>1, <3>2, <3>3, <3>4, <3>5
    <3>8. PostingIsRecorded(u)'
      BY <2>1, <2>2, <2>4, <3>1, <3>2, <3>3, <3>4, <3>5 DEF Verdicts
    <3>9. QED
      BY <3>6, <3>7, <3>8 DEF TaskOK
  <2>5. QED
    BY <1>9, <1>o, <2>1, <2>2, <2>3, <2>4, OtherTask DEF NoticeCreated
<1>10. ASSUME NEW t \in Tasks, NoticeRefused(t) PROVE TaskOK(u)'
  BY <1>0, <1>o, <1>4, <1>10, <1>k, StopEffect DEF NoticeRefused, Posting
<1>11. ASSUME NEW t \in Tasks, NoticeFails(t) PROVE TaskOK(u)'
  <2>1. /\ runner[t].pc = "post" /\ ~spoiled
        /\ \/ runner'[t].pc = "none"
           \/ runner'[t].pc = "backoff" /\ runner'[t].verdict = runner[t].verdict
        /\ t # u => runner'[u] = runner[u]
    BY <1>0, <1>11, TryAgainEffect DEF NoticeFails, Posting, OnlyRunner
  <2>2. CASE t = u
    BY <1>11, <1>o, <2>1, <2>2 DEF NoticeFails, TaskOK
  <2>3. QED
    BY <1>11, <1>o, <2>1, <2>2, OtherTask DEF NoticeFails
<1>12. ASSUME NEW t \in Tasks, AnswerLost(t) PROVE TaskOK(u)'
  <2>1. /\ runner[t].pc = "post" /\ runner[t].verdict \in Verdicts /\ ~spoiled
        /\ \/ runner'[t].pc = "none"
           \/ runner'[t].pc = "backoff" /\ runner'[t].verdict = runner[t].verdict
        /\ t # u => runner'[u] = runner[u]
    BY <1>0, <1>12, TryAgainEffect DEF AnswerLost, Posting, OnlyRunner, RunnersOK
  <2>2. /\ notices'[t][runner[t].verdict] = notices[t][runner[t].verdict] + 1
        /\ \A v \in Verdicts \ {runner[t].verdict} : notices'[t][v] = notices[t][v]
        /\ t # u => notices'[u] = notices[u]
    BY <1>0, <1>12, <2>1, NotifyEffect DEF AnswerLost
  <2>3. CASE t = u
    <3>1. TaskOK(u) /\ UNCHANGED <<memory, file, known>> /\ u \in unheard'
      BY <1>12, <1>o, <2>1, <2>3 DEF AnswerLost
    <3>2. notices[u]["completed"] \in Nat /\ notices[u]["timed_out"] \in Nat
      BY <1>t DEF Verdicts
    <3>3. /\ notices[u]["completed"] > 0 => runner[u].verdict = "completed" /\ u \in unheard
          /\ notices[u]["timed_out"] > 0 => runner[u].verdict = "timed_out" /\ u \in unheard
          /\ memory[u] \in {runner[u].verdict, "absent"}
      BY <2>1, <2>3, <3>1 DEF TaskOK, Verdicts
    <3>4. /\ runner[u].verdict = "completed" =>
               /\ notices'[u]["completed"] = notices[u]["completed"] + 1
               /\ notices'[u]["timed_out"] = notices[u]["timed_out"]
          /\ runner[u].verdict = "timed_out" =>
               /\ notices'[u]["timed_out"] = notices[u]["timed_out"] + 1
               /\ notices'[u]["completed"] = notices[u]["completed"]
      BY <2>2, <2>3 DEF Verdicts
    <3>5. runner[u].verdict \in {"completed", "timed_out"}
      BY <2>1, <2>3 DEF Verdicts
    <3>6. FileAgrees(u)' /\ NewAndDeleted(u)' /\ WorkingIsSilent(u)'
      BY <1>o, <2>1, <2>3, <3>1, <3>3, <3>5 DEF TaskOK
    <3>7. Told(u)'
      BY <3>1, <3>2, <3>3, <3>4, <3>5
    <3>8. PostingIsRecorded(u)'
      BY <2>1, <2>3, <3>1, <3>2, <3>3, <3>4, <3>5 DEF Verdicts
    <3>9. QED
      BY <3>6, <3>7, <3>8 DEF TaskOK
  <2>4. QED
    BY <1>12, <1>o, <2>1, <2>2, <2>3, OtherTask DEF AnswerLost
<1>13. ASSUME NEW t \in Tasks, BackoffOver(t) PROVE TaskOK(u)'
  <2>1. /\ runner'[t].pc = "post" /\ runner'[t].verdict = runner[t].verdict
        /\ runner[t].pc = "backoff" /\ ~spoiled
        /\ t # u => runner'[u] = runner[u]
    BY <1>0, <1>13, BackoffEffect DEF BackoffOver, OnlyRunner
  <2>2. CASE t = u
    BY <1>13, <1>o, <2>1, <2>2 DEF BackoffOver, TaskOK
  <2>3. QED
    BY <1>13, <1>o, <2>1, <2>2, OtherTask DEF BackoffOver
<1>14. ASSUME NEW t \in Tasks, DeleteTask(t) PROVE TaskOK(u)'
  <2>1. /\ memory' \in [Tasks -> Statuses] /\ memory'[t] = "absent"
        /\ known'[t] = "deleted"
        /\ t # u => memory'[u] = memory[u] /\ known'[u] = known[u]
    BY <1>0, <1>14 DEF DeleteTask, TaskTypeOK, Statuses
  <2>2. TaskOK(u) /\ file' = memory'
    BY <1>14, <1>s, <2>1 DEF DeleteTask
  <2>3. CASE t = u
    BY <1>14, <2>1, <2>2, <2>3 DEF DeleteTask, TaskOK
  <2>4. QED
    BY <1>0, <1>14, <2>1, <2>2, <2>3, OtherSaved DEF DeleteTask
<1>15. CASE RestartPod
  <2>1. /\ memory'[u] = IF file[u] = "pending" THEN "absent" ELSE file[u]
        /\ runner'[u].pc = IF file[u] = "running" THEN "begin" ELSE "none"
    BY <1>0, <1>15, RestartEffect DEF RestartPod
  <2>2. QED
    BY <1>15, <1>o, <2>1 DEF RestartPod, TaskOK
<1>16. CASE UNCHANGED vars
  BY <1>16, <1>o, OtherTask DEF vars
<1>17. QED
  BY <1>1, <1>3, <1>l, <1>5, <1>6, <1>7, <1>8, <1>9, <1>10, <1>11, <1>12, <1>13, <1>14, <1>15, <1>16
     DEF Next, RunTask

THEOREM TasksInvariant == Spec => []TasksInv
<1>1. Init => TasksInv
  <2> SUFFICES ASSUME Init PROVE TasksInv
    OBVIOUS
  <2>1. TaskTypeOK
    <3>1. MaxFaults \in Nat /\ 0 \in 0..MaxFaults
      BY TaskAssumption
    <3>2. notices \in [Tasks -> [Verdicts -> Nat]]
      BY DEF Init
    <3>3. runner \in [Tasks -> Runner]
      BY IdleValues DEF Init
    <3>4. QED
      BY <3>1, <3>2, <3>3 DEF Init, TaskTypeOK, Statuses
  <2>2. RunnersOK
    BY IdleValues DEF Init, RunnersOK
  <2>3. ASSUME NEW t \in Tasks PROVE TaskOK(t)
    BY IdleValues DEF Init, Verdicts, TaskOK, FileAgrees, WorkingIsSilent, PostingIsRecorded,
       NewAndDeleted, Told, Silent, Unfinished
  <2>4. QED
    BY <2>1, <2>2, <2>3 DEF TasksInv
<1>2. TasksInv /\ [Next]_vars => TasksInv'
  BY TypeStep, TaskStep DEF TasksInv
<1>3. QED
  BY <1>1, <1>2, PTL DEF Spec

(* The table, the file, the runners and the notices have their types in    *)
(* every reachable state.                                                  *)
THEOREM TasksTyped == Spec => []TaskTypeOK
<1>1. TasksInv => TaskTypeOK
  BY DEF TasksInv
<1>2. QED
  BY <1>1, TasksInvariant, PTL

(* No task is told both ends, whatever restarts and lost answers there are *)
(* (_run_background_task, _restore_tasks).                                 *)
THEOREM OneVerdictHolds == Spec => []OneVerdict
<1>1. TasksInv => OneVerdict
  <2> SUFFICES ASSUME TasksInv, ~spoiled, NEW t \in Tasks
               PROVE  ~(Notified(t, "completed") /\ Notified(t, "timed_out"))
    BY DEF OneVerdict
  <2>1. notices[t]["completed"] = 0 \/ notices[t]["timed_out"] = 0
    BY DEF TasksInv, TaskOK, Told
  <2>2. QED
    BY <2>1 DEF Notified
<1>2. QED
  BY <1>1, TasksInvariant, PTL

(* A deleted task is never written back nor restored (delete_task).        *)
THEOREM DeletedForGood == Spec => []DeletedStaysDeleted
<1>1. TasksInv => DeletedStaysDeleted
  BY DEF TasksInv, TaskOK, NewAndDeleted, DeletedStaysDeleted
<1>2. QED
  BY <1>1, TasksInvariant, PTL

(* A task whose POSTs were all answered is notified at most once           *)
(* (_post_notification).                                                   *)
THEOREM NoticeOnceHolds == Spec => []NoticeOnce
<1>1. TasksInv => NoticeOnce
  BY DEF TasksInv, TaskOK, Told, NoticeOnce
<1>2. QED
  BY <1>1, TasksInvariant, PTL
=============================================================================

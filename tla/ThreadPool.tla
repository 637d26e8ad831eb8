------------------------------ MODULE ThreadPool ------------------------------
(***************************************************************************)
(* 03-concurrency/exercises/thread_pool.cpp: workers that run the tasks of *)
(* one queue, submit(), the destructor, and the main that uses them: it    *)
(* submits its tasks, gets every result in order and destroys the pool.    *)
(*                                                                         *)
(* The class lets a task submit another while the pool exists, and until   *)
(* the destructor has joined the workers it does: Child gives the task     *)
(* that a task submits, if any. It is what brings submit() and the         *)
(* destructor together, for main itself calls them one after the other.    *)
(*                                                                         *)
(* A critical section of mtx is one step; submit() notifies after it, in a *)
(* step of its own. A future is the state of the shared state that         *)
(* packaged_task and std::future have in common.                           *)
(***************************************************************************)
EXTENDS Naturals, Sequences, FiniteSets

CONSTANTS Workers,
          NumTasks,   \* tasks that main submits
          Child       \* the task that some tasks submit when they run

ASSUME WorkersAssumption == IsFiniteSet(Workers) /\ Workers # {}
ASSUME NumTasksAssumption == NumTasks \in Nat \ {0}

MainTasks == 1 .. NumTasks
Tasks == MainTasks \cup {Child[t] : t \in DOMAIN Child}

ASSUME ChildAssumption ==
  /\ \A t \in DOMAIN Child : t \in Tasks /\ Child[t] \in Nat \ MainTasks
  /\ \A t, u \in DOMAIN Child : Child[t] = Child[u] => t = u
  /\ \A t \in DOMAIN Child : t < Child[t]

VARIABLES
  tasks, stop,    \* fields of ThreadPool
  cv,             \* the workers blocked on the condition variable
  wpc, task,      \* where a worker is; the task it holds
  future,         \* the state of the future of each task
  runs,           \* history: how many times each task was run
  taken,          \* history: tasks in the order the workers took them
  main, i         \* where main is; the index of its loop

vars == <<tasks, stop, cv, wpc, task, future, runs, taken, main, i>>
mainVars == <<main, i>>

NoTask == 0

Init == /\ tasks = <<>>
        /\ stop = FALSE
        /\ cv = {}
        /\ wpc = [w \in Workers |-> "loop"]
        /\ task = [w \in Workers |-> NoTask]
        /\ future = [t \in Tasks |-> "none"]
        /\ runs = [t \in Tasks |-> 0]
        /\ taken = <<>>
        /\ main = "submit"
        /\ i = 1

NotifyOne(blocked) ==
  IF blocked = {} THEN {{}} ELSE {blocked \ {w} : w \in blocked}

-----------------------------------------------------------------------------
(* submit *)

(* The critical section of submit, when it does not throw. *)
Enqueue(t) ==
  /\ ~stop
  /\ tasks' = Append(tasks, t)
  /\ future' = [future EXCEPT ![t] = "pending"]

(* Bug variant: the call of notify_one is missing. *)
NotifyNobody == UNCHANGED cv

(* cv.notify_one(), after the lock is released. *)
Notify == cv' \in NotifyOne(cv)

MainSubmit ==
  /\ main = "submit"
  /\ Enqueue(i)
  /\ main' = "notify"
  /\ UNCHANGED <<stop, cv, wpc, task, runs, taken, i>>

MainNotify ==
  /\ main = "notify"
  /\ Notify
  /\ IF i < NumTasks THEN main' = "submit" /\ i' = i + 1
                     ELSE main' = "get" /\ i' = 1
  /\ UNCHANGED <<tasks, stop, wpc, task, future, runs, taken>>

(* result.get() returns, or rethrows, once the shared state is ready. *)
MainGet ==
  /\ main = "get"
  /\ future[i] \in {"value", "exception"}
  /\ IF i < NumTasks THEN i' = i + 1 /\ UNCHANGED main
                     ELSE main' = "set stop" /\ UNCHANGED i
  /\ UNCHANGED <<tasks, stop, cv, wpc, task, future, runs, taken>>

-----------------------------------------------------------------------------
(* A worker *)

AtLoop(w) == wpc[w] = "loop" /\ w \notin cv

WorkerWaits(w) ==
  /\ AtLoop(w)
  /\ ~stop /\ tasks = <<>>
  /\ cv' = cv \cup {w}
  /\ UNCHANGED <<tasks, stop, wpc, task, future, runs, taken, mainVars>>

(* Bug variant: a stopped worker leaves the tasks that are queued. *)
WorkerReturnsOnStop(w) ==
  /\ AtLoop(w)
  /\ stop
  /\ wpc' = [wpc EXCEPT ![w] = "done"]
  /\ UNCHANGED <<tasks, stop, cv, task, future, runs, taken, mainVars>>

(* if (stop && tasks.empty()) return; *)
WorkerReturns(w) ==
  /\ AtLoop(w)
  /\ stop /\ tasks = <<>>
  /\ wpc' = [wpc EXCEPT ![w] = "done"]
  /\ UNCHANGED <<tasks, stop, cv, task, future, runs, taken, mainVars>>

(* Bug variant: the workers take the newest task. *)
TakeNewest(w) ==
  /\ AtLoop(w)
  /\ tasks # <<>>
  /\ task' = [task EXCEPT ![w] = tasks[Len(tasks)]]
  /\ taken' = Append(taken, tasks[Len(tasks)])
  /\ tasks' = SubSeq(tasks, 1, Len(tasks) - 1)
  /\ wpc' = [wpc EXCEPT ![w] = "run"]
  /\ UNCHANGED <<stop, cv, future, runs, mainVars>>

(* task = move(tasks.front()); tasks.pop(); *)
Take(w) ==
  /\ AtLoop(w)
  /\ tasks # <<>>
  /\ task' = [task EXCEPT ![w] = Head(tasks)]
  /\ taken' = Append(taken, Head(tasks))
  /\ tasks' = Tail(tasks)
  /\ wpc' = [wpc EXCEPT ![w] = "run"]
  /\ UNCHANGED <<stop, cv, future, runs, mainVars>>

(* The task ends and the worker goes back to its loop: packaged_task has    *)
(* stored the value, or the exception the function threw.                   *)
Finish(w, outcome) ==
  /\ future' = [future EXCEPT ![task[w]] = outcome]
  /\ runs' = [runs EXCEPT ![task[w]] = @ + 1]
  /\ task' = [task EXCEPT ![w] = NoTask]
  /\ wpc' = [wpc EXCEPT ![w] = "loop"]

(* task(), a task that submits nothing. *)
RunTask(w) ==
  /\ wpc[w] = "run"
  /\ task[w] \notin DOMAIN Child
  /\ Finish(w, "value")
  /\ UNCHANGED <<tasks, stop, cv, taken, mainVars>>

(* task(), a task that calls submit(): the critical section. *)
RunSubmits(w) ==
  /\ wpc[w] = "run"
  /\ task[w] \in DOMAIN Child
  /\ Enqueue(Child[task[w]])
  /\ wpc' = [wpc EXCEPT ![w] = "notify"]
  /\ UNCHANGED <<stop, cv, task, runs, taken, mainVars>>

(* submit() throws in the task, and the task's future gets the exception. *)
RunThrows(w) ==
  /\ wpc[w] = "run"
  /\ task[w] \in DOMAIN Child
  /\ stop
  /\ Finish(w, "exception")
  /\ UNCHANGED <<tasks, stop, cv, taken, mainVars>>

RunNotifies(w) ==
  /\ wpc[w] = "notify"
  /\ Notify
  /\ Finish(w, "value")
  /\ UNCHANGED <<tasks, stop, taken, mainVars>>

WorkerStep(w) ==
  \/ WorkerWaits(w) \/ WorkerReturns(w) \/ Take(w)
  \/ RunTask(w) \/ RunSubmits(w) \/ RunThrows(w) \/ RunNotifies(w)

SpuriousWakeup ==
  /\ \E w \in cv : cv' = cv \ {w}
  /\ UNCHANGED <<tasks, stop, wpc, task, future, runs, taken, mainVars>>

-----------------------------------------------------------------------------
(* The destructor *)

SetStop ==
  /\ main = "set stop"
  /\ stop' = TRUE
  /\ main' = "notify all"
  /\ UNCHANGED <<tasks, cv, wpc, task, future, runs, taken, i>>

(* Bug variant: one worker is notified. *)
DestructorNotifyOne ==
  /\ main = "notify all"
  /\ cv' \in NotifyOne(cv)
  /\ main' = "join"
  /\ UNCHANGED <<tasks, stop, wpc, task, future, runs, taken, i>>

NotifyAll ==
  /\ main = "notify all"
  /\ cv' = {}
  /\ main' = "join"
  /\ UNCHANGED <<tasks, stop, wpc, task, future, runs, taken, i>>

JoinWorkers ==
  /\ main = "join"
  /\ \A w \in Workers : wpc[w] = "done"
  /\ main' = "end"
  /\ UNCHANGED <<tasks, stop, cv, wpc, task, future, runs, taken, i>>

MainStep == \/ MainSubmit \/ MainNotify \/ MainGet
            \/ SetStop \/ NotifyAll \/ JoinWorkers

Terminated == main = "end" /\ UNCHANGED vars

-----------------------------------------------------------------------------
Next == MainStep \/ (\E w \in Workers : WorkerStep(w)) \/ SpuriousWakeup \/ Terminated

(* Every thread that can run is scheduled and gets the mutex; a spurious    *)
(* wakeup may never come.                                                   *)
Fairness == WF_vars(MainStep) /\ \A w \in Workers : WF_vars(WorkerStep(w))

Spec == Init /\ [][Next]_vars /\ Fairness

-----------------------------------------------------------------------------
TypeOK ==
  /\ tasks \in Seq(Tasks)
  /\ stop \in BOOLEAN
  /\ cv \in SUBSET {w \in Workers : wpc[w] = "loop"}
  /\ wpc \in [Workers -> {"loop", "run", "notify", "done"}]
  /\ task \in [Workers -> Tasks \cup {NoTask}]
  /\ future \in [Tasks -> {"none", "pending", "value", "exception"}]
  /\ runs \in [Tasks -> Nat]
  /\ taken \in Seq(Tasks)
  /\ main \in {"submit", "notify", "get", "set stop", "notify all", "join", "end"}
  /\ i \in MainTasks

(* A task whose future is pending is in the queue once or held by one       *)
(* worker, and has not run; a task whose future is ready has run exactly    *)
(* once and is nowhere: no worker can run it again (51-55, 96-113).         *)
Queued(t) == \E k \in 1 .. Len(tasks) : tasks[k] = t
Held(t) == \E w \in Workers : task[w] = t

NoneTwice ==
  /\ \A k, l \in 1 .. Len(tasks) : tasks[k] = tasks[l] => k = l
  /\ \A v, w \in Workers : task[v] = task[w] /\ task[v] # NoTask => v = w
  /\ \A t \in Tasks : ~(Queued(t) /\ Held(t))

EachTaskOnce ==
  /\ NoneTwice
  /\ \A t \in Tasks : /\ future[t] = "pending" <=> Queued(t) \/ Held(t)
                      /\ runs[t] = IF future[t] \in {"value", "exception"} THEN 1 ELSE 0

(* No lost wakeup, although submit() notifies outside the lock and a worker *)
(* may take the task before: while a worker is blocked, each queued task    *)
(* has a worker on its way to the queue or a notification still to come;    *)
(* and a worker blocked after stop is about to be notified (47, 66, 118).   *)
WorkersNotStranded ==
  cv # {} =>
    /\ stop => main = "notify all"
    /\ Len(tasks) <= Cardinality({w \in Workers \ cv : wpc[w] = "loop"})
                       + Cardinality({w \in Workers : wpc[w] = "notify"})
                       + (IF main = "notify" THEN 1 ELSE 0)

(* The destructor returns when every task accepted has run: no future is    *)
(* abandoned (49, 67-69).                                                   *)
DestructorDrains ==
  main = "end" => tasks = <<>> /\ \A t \in Tasks : future[t] # "pending"

(* What makes the above inductive: what a worker and main are in the middle *)
(* of, that a task not yet submitted is new, and that a worker leaves only  *)
(* when nothing is queued and nothing can be (47-49).                       *)
Holding == \A w \in Workers : task[w] # NoTask <=> wpc[w] \in {"run", "notify"}

MainNew == /\ main = "submit" => \A t \in MainTasks : t >= i => future[t] = "none"
           /\ main = "notify" => \A t \in MainTasks : t > i => future[t] = "none"

ChildrenNew ==
  \A t \in DOMAIN Child :
    \/ future[Child[t]] = "none"
    \/ future[t] \in {"value", "exception"}
    \/ \E w \in Workers : task[w] = t /\ wpc[w] = "notify"

TakenOnce == \A k \in 1 .. Len(taken) : future[taken[k]] # "none"

Stopping ==
  /\ stop <=> main \in {"notify all", "join", "end"}
  /\ \A w \in Workers : wpc[w] = "done" => stop /\ tasks = <<>>
  /\ main = "end" => \A w \in Workers : wpc[w] = "done"

(* What the pool promises at every moment (21-123): no task twice, no       *)
(* worker asleep beside one, none left behind.                              *)
Inv == /\ TypeOK /\ EachTaskOnce /\ WorkersNotStranded /\ DestructorDrains
       /\ Holding /\ MainNew /\ ChildrenNew /\ TakenOnce /\ Stopping

(* Every future handed out becomes ready, whoever waits for it (get, 144).  *)
EveryFutureReady == \A t \in Tasks : future[t] = "pending" ~> future[t] \in {"value", "exception"}

(* main gets its results and the destructor returns.                        *)
MainReturns == <>(main = "end")

(* Tasks are started in the order of their submission, each once.           *)
Queue == INSTANCE FIFOQueue WITH items <- tasks, delivered <- taken, Values <- Tasks
QueueSpec == Queue!Spec
=============================================================================

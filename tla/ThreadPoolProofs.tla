--------------------------- MODULE ThreadPoolProofs ---------------------------
(***************************************************************************)
(* For any number of workers and of tasks, and whichever tasks submit      *)
(* another: Inv of ThreadPool is inductive. So no task runs twice, no      *)
(* wakeup is lost, the destructor leaves nothing behind, tasks start in    *)
(* the order of their submission, and whoever waits, waits for one that    *)
(* can go on.                                                              *)
(***************************************************************************)
EXTENDS ThreadPool, FiniteSetTheorems, TLAPS

(* A task is a positive number, and a child is not a task of main.          *)
LEMMA TaskNumbers ==
  /\ MainTasks \subseteq Tasks
  /\ NoTask \notin Tasks
  /\ \A t \in MainTasks : t \in Nat
  /\ \A t \in DOMAIN Child : t \in Tasks /\ Child[t] \in Tasks \ MainTasks
<1>1. MainTasks \subseteq Tasks /\ \A t \in MainTasks : t \in Nat /\ t # 0
  BY NumTasksAssumption DEF Tasks, MainTasks
<1>2. \A t \in Tasks : t \in Nat
  BY <1>1, ChildAssumption DEF Tasks
<1>3. ASSUME NEW t \in DOMAIN Child PROVE Child[t] # 0
  BY <1>2, ChildAssumption
<1> QED
  BY <1>1, <1>3, ChildAssumption DEF Tasks, NoTask

(* The loops of main stay within its tasks. *)
LEMMA LoopOfMain ==
  /\ 1 \in MainTasks
  /\ \A k \in MainTasks : /\ k < NumTasks => k + 1 \in MainTasks
                          /\ \A t \in MainTasks : t >= k + 1 => t > k
  BY NumTasksAssumption DEF MainTasks

(* A set of workers can be counted, and grows by the one that is added.     *)
LEMMA Count ==
  ASSUME NEW S \in SUBSET Workers
  PROVE  /\ IsFiniteSet(S) /\ Cardinality(S) \in Nat
         /\ \A w \in Workers : Cardinality(S \cup {w}) =
                                 IF w \in S THEN Cardinality(S) ELSE Cardinality(S) + 1
<1>1. IsFiniteSet(S)
  BY WorkersAssumption, FS_Subset
<1> QED
  BY <1>1, FS_CardinalityType, FS_AddElement

(* More workers count for more.                                             *)
LEMMA CountMore ==
  ASSUME NEW T \in SUBSET Workers, NEW S \in SUBSET T
  PROVE  Cardinality(S) <= Cardinality(T)
  BY Count, FS_Subset

(* What submit does to the queue, and a worker that takes.                  *)
LEMMA AppendTask ==
  ASSUME NEW s \in Seq(Tasks), NEW t \in Tasks
  PROVE  /\ Len(s) \in Nat
         /\ Append(s, t) \in Seq(Tasks) /\ Len(Append(s, t)) = Len(s) + 1
         /\ \A k \in 1 .. Len(s) : Append(s, t)[k] = s[k]
         /\ Append(s, t)[Len(s) + 1] = t
  OBVIOUS

(* The front leaves the queue.                                              *)
LEMMA TakeTask ==
  ASSUME NEW s \in Seq(Tasks), s # <<>>
  PROVE  /\ Len(s) \in Nat /\ Len(s) > 0
         /\ Head(s) = s[1] /\ Head(s) \in Tasks
         /\ Tail(s) \in Seq(Tasks) /\ Len(Tail(s)) = Len(s) - 1
         /\ \A k \in 1 .. Len(s) - 1 : Tail(s)[k] = s[k + 1]
  OBVIOUS

(* The queue is one of tasks. *)
LEMMA TasksType == TypeOK => tasks \in Seq(Tasks) /\ Len(tasks) \in Nat
<1> SUFFICES ASSUME TypeOK PROVE tasks \in Seq(Tasks) /\ Len(tasks) \in Nat
  OBVIOUS
<1>1. tasks \in Seq(Tasks)
  BY DEF TypeOK
<1> QED
  BY <1>1

(* What notify_one does to the blocked workers. *)
LEMMA NotifyCases ==
  ASSUME NEW S, NEW T \in NotifyOne(S)
  PROVE  \/ S = {} /\ T = {}
         \/ \E w \in S : T = S \ {w}
  BY DEF NotifyOne

(* The two sets of workers that WorkersNotStranded counts, and the          *)
(* notification that main still owes.                                       *)
Awake == {w \in Workers \ cv : wpc[w] = "loop"}
Notifying == {w \in Workers : wpc[w] = "notify"}
Owed == IF main = "notify" THEN 1 ELSE 0

(* They are numbers.                                                        *)
LEMMA Counts ==
  /\ Awake \in SUBSET Workers /\ Awake' \in SUBSET Workers
  /\ Notifying \in SUBSET Workers /\ Notifying' \in SUBSET Workers
  /\ Cardinality(Awake) \in Nat /\ Cardinality(Awake') \in Nat
  /\ Cardinality(Notifying) \in Nat /\ Cardinality(Notifying') \in Nat
<1>1. /\ Awake \in SUBSET Workers /\ Awake' \in SUBSET Workers
      /\ Notifying \in SUBSET Workers /\ Notifying' \in SUBSET Workers
  BY DEF Awake, Notifying
<1> QED
  BY <1>1, Count

(* WorkersNotStranded in these terms.                                       *)
LEMMA StrandedDef ==
  WorkersNotStranded <=>
    (cv # {} => /\ stop => main = "notify all"
                /\ Len(tasks) <= Cardinality(Awake) + Cardinality(Notifying) + Owed)
  BY DEF WorkersNotStranded, Awake, Notifying, Owed

(* A step leaves as many workers and notifications on their way.            *)
AsMany == Cardinality(Awake) + Cardinality(Notifying) + Owed
            <= Cardinality(Awake') + Cardinality(Notifying') + Owed'

(* The destructor still has to notify. *)
StopTold == stop => main = "notify all"

(* A step keeps WorkersNotStranded when those it relies on are as many.     *)
LEMMA StrandedKept ==
  ASSUME TypeOK, WorkersNotStranded, cv' # {} => cv # {},
         StopTold => StopTold', tasks' = tasks, AsMany
  PROVE  WorkersNotStranded'
<1> SUFFICES ASSUME cv' # {}
             PROVE  /\ StopTold'
                    /\ Len(tasks') <= Cardinality(Awake') + Cardinality(Notifying') + Owed'
  BY DEF WorkersNotStranded, Awake, Notifying, Owed, StopTold
<1>1. StopTold
  BY DEF WorkersNotStranded, StopTold
<1>2. /\ Len(tasks) \in Nat /\ Owed \in Nat /\ Owed' \in Nat
      /\ Cardinality(Awake) \in Nat /\ Cardinality(Awake') \in Nat
      /\ Cardinality(Notifying) \in Nat /\ Cardinality(Notifying') \in Nat
  BY TasksType, Counts DEF Owed
<1>3. Len(tasks) <= Cardinality(Awake) + Cardinality(Notifying) + Owed
  BY StrandedDef
<1>4. Len(tasks) <= Cardinality(Awake') + Cardinality(Notifying') + Owed'
  BY <1>2, <1>3 DEF AsMany
<1> QED
  BY <1>1, <1>4

-----------------------------------------------------------------------------
(* What the steps do to the tasks *)

(* A step that leaves the tasks where they are.                             *)
LEMMA TasksStay ==
  ASSUME EachTaskOnce, UNCHANGED <<tasks, task, future, runs>>
  PROVE  EachTaskOnce'
  BY DEF EachTaskOnce, NoneTwice, Queued, Held

(* A task whose future is new is nowhere; it is queued (55).                *)
LEMMA Enqueued ==
  ASSUME TypeOK, EachTaskOnce, NEW t \in Tasks, future[t] = "none",
         Enqueue(t), UNCHANGED <<task, runs>>
  PROVE  /\ EachTaskOnce'
         /\ tasks' \in Seq(Tasks) /\ Len(tasks') = Len(tasks) + 1
<1>1. /\ tasks' = Append(tasks, t)
      /\ future' = [future EXCEPT ![t] = "pending"]
  BY DEF Enqueue
<1>2. ~Queued(t) /\ ~Held(t)
  BY DEF EachTaskOnce
<1>3. Len(tasks) \in Nat
  BY TasksType
<1>4. /\ tasks' \in Seq(Tasks) /\ Len(tasks') = Len(tasks) + 1
      /\ \A k \in 1 .. Len(tasks) : tasks'[k] = tasks[k]
      /\ tasks'[Len(tasks) + 1] = t
  BY <1>1, TasksType, AppendTask
<1>5. \A k \in 1 .. Len(tasks') : k \in 1 .. Len(tasks) \/ k = Len(tasks) + 1
  BY <1>3, <1>4
<1>6. \A k \in 1 .. Len(tasks) : k \in 1 .. Len(tasks') /\ tasks[k] # t
  BY <1>2, <1>3, <1>4 DEF Queued
<1>7. Len(tasks) + 1 \in 1 .. Len(tasks')
  BY <1>3, <1>4
<1>8. \A u : Queued(u)' <=> Queued(u) \/ u = t
  BY <1>4, <1>5, <1>6, <1>7 DEF Queued
<1>9. \A u : Held(u)' <=> Held(u)
  BY DEF Held
<1>10. \A k, l \in 1 .. Len(tasks') : tasks'[k] = tasks'[l] => k = l
  BY <1>4, <1>5, <1>6 DEF EachTaskOnce, NoneTwice
<1>11. NoneTwice'
  BY <1>2, <1>8, <1>9, <1>10 DEF EachTaskOnce, NoneTwice
<1>12. ASSUME NEW u \in Tasks
       PROVE  /\ future'[u] = "pending" <=> Queued(u)' \/ Held(u)'
              /\ runs'[u] = IF future'[u] \in {"value", "exception"} THEN 1 ELSE 0
  <2>1. CASE u = t
    BY <1>1, <1>8, <2>1 DEF EachTaskOnce, TypeOK
  <2>2. CASE u # t
    BY <1>1, <1>8, <1>9, <2>2 DEF EachTaskOnce, TypeOK
  <2> QED
    BY <2>1, <2>2
<1>13. EachTaskOnce'
  BY <1>11, <1>12 DEF EachTaskOnce
<1> QED
  BY <1>4, <1>13

(* A worker that runs a task holds one whose future is pending.             *)
LEMMA RunsPending ==
  ASSUME TypeOK, EachTaskOnce, Holding, NEW w \in Workers, wpc[w] \in {"run", "notify"}
  PROVE  task[w] \in Tasks /\ future[task[w]] = "pending"
<1>1. task[w] \in Tasks
  BY DEF TypeOK, Holding
<1> QED
  BY <1>1 DEF EachTaskOnce, Held

(* A task that ends has run once and is nowhere (96-113).                   *)
LEMMA Finished ==
  ASSUME TypeOK, EachTaskOnce, Holding,
         NEW w \in Workers, wpc[w] \in {"run", "notify"},
         NEW outcome \in {"value", "exception"}, Finish(w, outcome), UNCHANGED tasks
  PROVE  EachTaskOnce' /\ Holding'
<1> DEFINE t == task[w]
<1>1. /\ future' = [future EXCEPT ![t] = outcome]
      /\ runs' = [runs EXCEPT ![t] = @ + 1]
      /\ task' = [task EXCEPT ![w] = NoTask]
      /\ wpc' = [wpc EXCEPT ![w] = "loop"]
  BY DEF Finish
<1>2. t \in Tasks /\ future[t] = "pending" /\ t # NoTask
  BY RunsPending, TaskNumbers
<1>3. \A u \in Tasks : Queued(u)' <=> Queued(u)
  BY DEF Queued
<1>4. \A v \in Workers : task'[v] = IF v = w THEN NoTask ELSE task[v]
  BY <1>1 DEF TypeOK
<1>5. Held(t) /\ ~Queued(t)
  BY <1>2 DEF EachTaskOnce, NoneTwice, Held
<1>6. \A u \in Tasks : Held(u)' <=> Held(u) /\ u # t
  <2> SUFFICES ASSUME NEW u \in Tasks PROVE Held(u)' <=> Held(u) /\ u # t
    OBVIOUS
  <2>1. u # NoTask
    BY TaskNumbers
  <2>2. ASSUME NEW v \in Workers, task'[v] = u PROVE task[v] = u /\ u # t
    BY <1>2, <1>4, <2>1, <2>2 DEF EachTaskOnce, NoneTwice
  <2>3. ASSUME NEW v \in Workers, task[v] = u, u # t PROVE task'[v] = u
    BY <1>4, <2>3
  <2> QED
    BY <2>2, <2>3 DEF Held
<1>7. NoneTwice'
  <2>1. \A k, l \in 1 .. Len(tasks') : tasks'[k] = tasks'[l] => k = l
    BY DEF EachTaskOnce, NoneTwice
  <2>2. \A u, v \in Workers : task'[u] = task'[v] /\ task'[u] # NoTask => u = v
    BY <1>4 DEF EachTaskOnce, NoneTwice
  <2>3. \A u \in Tasks : ~(Queued(u)' /\ Held(u)')
    BY <1>3, <1>6 DEF EachTaskOnce, NoneTwice
  <2> QED
    BY <2>1, <2>2, <2>3 DEF NoneTwice
<1>8. ASSUME NEW u \in Tasks
      PROVE  /\ future'[u] = "pending" <=> Queued(u)' \/ Held(u)'
             /\ runs'[u] = IF future'[u] \in {"value", "exception"} THEN 1 ELSE 0
  <2>1. CASE u = t
    <3>1. runs[t] = 0 /\ runs'[t] = runs[t] + 1 /\ future'[t] = outcome
      BY <1>1, <1>2 DEF EachTaskOnce, TypeOK
    <3>2. ~Queued(u)' /\ ~Held(u)'
      BY <1>3, <1>5, <1>6, <2>1
    <3> QED
      BY <2>1, <3>1, <3>2
  <2>2. CASE u # t
    BY <1>1, <1>3, <1>6, <2>2 DEF EachTaskOnce, TypeOK
  <2> QED
    BY <2>1, <2>2
<1>9. Holding'
  BY <1>1, <1>4 DEF Holding, TypeOK
<1> QED
  BY <1>7, <1>8, <1>9 DEF EachTaskOnce

(* The front of the queue goes to one worker (46-52).                       *)
LEMMA Taken ==
  ASSUME TypeOK, EachTaskOnce, Holding, NEW w \in Workers, Take(w)
  PROVE  /\ EachTaskOnce' /\ Holding'
         /\ Head(tasks) \in Tasks /\ future[Head(tasks)] = "pending"
         /\ tasks' \in Seq(Tasks) /\ Len(tasks') = Len(tasks) - 1
<1> DEFINE t == Head(tasks)
<1>1. /\ wpc[w] = "loop" /\ tasks # <<>>
      /\ task' = [task EXCEPT ![w] = t]
      /\ tasks' = Tail(tasks)
      /\ wpc' = [wpc EXCEPT ![w] = "run"]
      /\ UNCHANGED <<future, runs>>
  BY DEF Take, AtLoop
<1>2. Len(tasks) \in Nat /\ Len(tasks) > 0
  BY <1>1, TasksType, TakeTask
<1>3. /\ t = tasks[1] /\ t \in Tasks
      /\ tasks' \in Seq(Tasks) /\ Len(tasks') = Len(tasks) - 1
      /\ \A k \in 1 .. Len(tasks) - 1 : tasks'[k] = tasks[k + 1]
  BY <1>1, TasksType, TakeTask
<1>4. 1 \in 1 .. Len(tasks)
  BY <1>2
<1>5. Queued(t) /\ ~Held(t) /\ future[t] = "pending" /\ t # NoTask
  BY <1>3, <1>4, TaskNumbers DEF EachTaskOnce, NoneTwice, Queued
<1>6. \A k \in 1 .. Len(tasks) - 1 : k + 1 \in 1 .. Len(tasks) /\ k + 1 # 1
  BY <1>2
<1>7. \A k \in 1 .. Len(tasks) : k # 1 => k - 1 \in 1 .. Len(tasks) - 1 /\ (k - 1) + 1 = k
  BY <1>2
<1>8. \A u \in Tasks : Queued(u)' <=> Queued(u) /\ u # t
  <2> SUFFICES ASSUME NEW u \in Tasks PROVE Queued(u)' <=> Queued(u) /\ u # t
    OBVIOUS
  <2>1. ASSUME NEW k \in 1 .. Len(tasks'), tasks'[k] = u PROVE Queued(u) /\ u # t
    <3>1. k \in 1 .. Len(tasks) - 1 /\ tasks[k + 1] = u
      BY <1>3, <2>1
    <3> QED
      BY <1>3, <1>4, <1>6, <3>1 DEF EachTaskOnce, NoneTwice, Queued
  <2>2. ASSUME NEW k \in 1 .. Len(tasks), tasks[k] = u, u # t PROVE Queued(u)'
    <3>1. k # 1
      BY <1>3, <2>2
    <3>2. k - 1 \in 1 .. Len(tasks') /\ tasks'[k - 1] = u
      BY <1>3, <1>7, <2>2, <3>1
    <3> QED
      BY <3>2 DEF Queued
  <2> QED
    BY <2>1, <2>2 DEF Queued
<1>9. task[w] = NoTask /\ \A v \in Workers : task'[v] = IF v = w THEN t ELSE task[v]
  BY <1>1 DEF Holding, TypeOK
<1>10. \A u \in Tasks : Held(u)' <=> Held(u) \/ u = t
  BY <1>9, TaskNumbers DEF Held
<1>11. NoneTwice'
  <2>1. \A k, l \in 1 .. Len(tasks') : tasks'[k] = tasks'[l] => k = l
    <3> SUFFICES ASSUME NEW k \in 1 .. Len(tasks'), NEW l \in 1 .. Len(tasks'),
                        tasks'[k] = tasks'[l]
                 PROVE  k = l
      OBVIOUS
    <3>1. /\ k \in 1 .. Len(tasks) - 1 /\ l \in 1 .. Len(tasks) - 1
          /\ tasks[k + 1] = tasks[l + 1]
      BY <1>3
    <3>2. k + 1 = l + 1
      BY <1>6, <3>1 DEF EachTaskOnce, NoneTwice
    <3> QED
      BY <3>1, <3>2
  <2>2. \A u, v \in Workers : task'[u] = task'[v] /\ task'[u] # NoTask => u = v
    BY <1>5, <1>9 DEF EachTaskOnce, NoneTwice, Held
  <2>3. \A u \in Tasks : ~(Queued(u)' /\ Held(u)')
    BY <1>8, <1>10 DEF EachTaskOnce, NoneTwice
  <2> QED
    BY <2>1, <2>2, <2>3 DEF NoneTwice
<1>12. \A u \in Tasks : Queued(u)' \/ Held(u)' <=> Queued(u) \/ Held(u)
  BY <1>5, <1>8, <1>10
<1>13. EachTaskOnce'
  BY <1>1, <1>11, <1>12 DEF EachTaskOnce
<1>14. Holding'
  BY <1>1, <1>5, <1>9 DEF Holding, TypeOK
<1> QED
  BY <1>3, <1>5, <1>13, <1>14

-----------------------------------------------------------------------------
(* The steps *)

(* All workers are at their loops, and no task has been submitted.          *)
LEMMA InitInv == Init => Inv
<1> SUFFICES ASSUME Init PROVE Inv
  OBVIOUS
<1> USE DEF Init
<1>1. TypeOK
  <2>1. 1 \in MainTasks
    BY NumTasksAssumption DEF MainTasks
  <2>2. tasks \in Seq(Tasks) /\ taken \in Seq(Tasks)
    OBVIOUS
  <2>3. runs \in [Tasks -> Nat]
    OBVIOUS
  <2> QED
    BY <2>1, <2>2, <2>3 DEF TypeOK
<1>2. Len(tasks) = 0 /\ Len(taken) = 0
  OBVIOUS
<1>3. EachTaskOnce
  <2>1. \A t \in Tasks : ~Queued(t) /\ ~Held(t)
    BY TaskNumbers, <1>2 DEF Queued, Held
  <2>2. NoneTwice
    BY <1>2, <2>1 DEF NoneTwice
  <2> QED
    BY <2>1, <2>2 DEF EachTaskOnce
<1>4. WorkersNotStranded /\ DestructorDrains
  BY DEF WorkersNotStranded, DestructorDrains
<1>5. Holding /\ MainNew /\ Stopping
  BY TaskNumbers DEF Holding, MainNew, Stopping
<1>6. ChildrenNew
  BY TaskNumbers DEF ChildrenNew
<1>7. TakenOnce
  BY <1>2 DEF TakenOnce
<1> QED
  BY <1>1, <1>3, <1>4, <1>5, <1>6, <1>7 DEF Inv

(* main submits a task that is new (51-55). *)
LEMMA MainSubmitInv == ASSUME Inv, MainSubmit PROVE Inv'
<1> USE DEF Inv
<1>1. /\ main = "submit" /\ main' = "notify" /\ ~stop
      /\ tasks' = Append(tasks, i)
      /\ future' = [future EXCEPT ![i] = "pending"]
      /\ UNCHANGED <<stop, cv, wpc, task, runs, taken, i>>
  BY DEF MainSubmit, Enqueue
<1>2. /\ i \in MainTasks /\ i \in Tasks /\ i \in Nat
      /\ \A t \in MainTasks : t \in Nat
  BY TaskNumbers DEF TypeOK
<1>3. i >= i /\ \A t \in MainTasks : t > i => t >= i /\ t # i
  BY <1>2
<1>4. future[i] = "none"
  BY <1>1, <1>2, <1>3 DEF MainNew
<1>5. /\ EachTaskOnce'
      /\ tasks' \in Seq(Tasks) /\ Len(tasks') = Len(tasks) + 1
  BY <1>1, <1>2, <1>4, Enqueued DEF MainSubmit
<1>6. TypeOK'
  BY <1>1, <1>2, <1>5 DEF TypeOK
<1>7. WorkersNotStranded'
  <2>1. Awake' = Awake /\ Notifying' = Notifying /\ Owed = 0 /\ Owed' = 1
    BY <1>1 DEF Awake, Notifying, Owed
  <2>2. /\ Len(tasks) \in Nat
        /\ Cardinality(Awake) \in Nat /\ Cardinality(Notifying) \in Nat
    BY TasksType, Counts
  <2>3. cv # {} => Len(tasks) <= Cardinality(Awake) + Cardinality(Notifying) + Owed
    BY StrandedDef
  <2>4. cv # {} => Len(tasks') <= Cardinality(Awake') + Cardinality(Notifying') + Owed'
    BY <1>5, <2>1, <2>2, <2>3
  <2> QED
    BY <1>1, <2>4 DEF WorkersNotStranded, Awake, Notifying, Owed
<1>8. DestructorDrains' /\ Holding'
  BY <1>1 DEF DestructorDrains, Holding
<1>9. MainNew'
  BY <1>1, <1>2, <1>3, TaskNumbers DEF MainNew, TypeOK
<1>10. ChildrenNew'
  BY <1>1, <1>2, <1>4, TaskNumbers DEF ChildrenNew, TypeOK
<1>11. TakenOnce'
  BY <1>1, <1>2 DEF TakenOnce, TypeOK
<1>12. Stopping'
  BY <1>1 DEF Stopping
<1> QED
  BY <1>5, <1>6, <1>7, <1>8, <1>9, <1>10, <1>11, <1>12

(* A worker less is blocked, if any was: it makes up for the notification.  *)
LEMMA OneAwake ==
  ASSUME TypeOK, NEW w \in cv, cv' = cv \ {w}, UNCHANGED wpc
  PROVE  /\ Cardinality(Awake') = Cardinality(Awake) + 1
         /\ Notifying' = Notifying
<1>1. w \in Workers /\ wpc[w] = "loop"
  BY DEF TypeOK
<1>2. Awake' = Awake \cup {w} /\ w \notin Awake
  BY <1>1 DEF Awake
<1>3. Cardinality(Awake') = Cardinality(Awake) + 1
  BY <1>1, <1>2, Counts, Count
<1> QED
  BY <1>3 DEF Notifying

(* main notifies one worker (56), and goes on.                              *)
LEMMA MainNotifyInv == ASSUME Inv, MainNotify PROVE Inv'
<1> USE DEF Inv
<1>1. /\ main = "notify" /\ cv' \in NotifyOne(cv)
      /\ UNCHANGED <<tasks, stop, wpc, task, future, runs, taken>>
  BY DEF MainNotify, Notify
<1>2. \/ i < NumTasks /\ main' = "submit" /\ i' = i + 1
      \/ main' = "get" /\ i' = 1
  BY DEF MainNotify
<1>3. /\ 1 \in MainTasks /\ i \in MainTasks
      /\ i < NumTasks => i + 1 \in MainTasks
      /\ \A t \in MainTasks : t >= i + 1 => t > i
  BY LoopOfMain DEF TypeOK
<1>4. (cv' = {} /\ cv = {}) \/ (\E w \in cv : cv' = cv \ {w})
  BY <1>1, NotifyCases
<1>5. TypeOK'
  BY <1>1, <1>2, <1>3, <1>4 DEF TypeOK
<1>6. WorkersNotStranded'
  <2>1. CASE cv' = {}
    BY <2>1 DEF WorkersNotStranded
  <2>2. CASE \E w \in cv : cv' = cv \ {w}
    <3>1. PICK w \in cv : cv' = cv \ {w}
      BY <2>2
    <3>2. Cardinality(Awake') = Cardinality(Awake) + 1 /\ Notifying' = Notifying
      BY <1>1, <3>1, OneAwake
    <3>3. Owed = 1 /\ Owed' = 0
      BY <1>1, <1>2 DEF Owed
    <3>4. AsMany
      BY <3>2, <3>3, Counts DEF AsMany
    <3>5. StopTold => StopTold'
      BY <1>1 DEF StopTold, Stopping
    <3> QED
      BY <1>1, <3>1, <3>4, <3>5, StrandedKept
  <2> QED
    BY <1>4, <2>1, <2>2
<1>7. EachTaskOnce'
  BY <1>1, TasksStay
<1>8. DestructorDrains' /\ Holding' /\ ChildrenNew' /\ TakenOnce'
  BY <1>1, <1>2 DEF DestructorDrains, Holding, ChildrenNew, TakenOnce
<1>9. MainNew'
  BY <1>1, <1>2, <1>3 DEF MainNew
<1>10. Stopping'
  BY <1>1, <1>2 DEF Stopping
<1> QED
  BY <1>5, <1>6, <1>7, <1>8, <1>9, <1>10

(* main gets a result (144), or starts the destructor (63-65).              *)
LEMMA MainGetInv == ASSUME Inv, MainGet PROVE Inv'
<1> USE DEF Inv
<1>1. /\ main = "get"
      /\ UNCHANGED <<tasks, stop, cv, wpc, task, future, runs, taken>>
  BY DEF MainGet
<1>2. \/ i < NumTasks /\ main' = "get" /\ i' = i + 1
      \/ main' = "set stop" /\ i' = i
  BY <1>1 DEF MainGet
<1>3. i \in MainTasks /\ (i < NumTasks => i + 1 \in MainTasks)
  BY LoopOfMain DEF TypeOK
<1>4. TypeOK'
  BY <1>1, <1>2, <1>3 DEF TypeOK
<1>5. EachTaskOnce'
  BY <1>1, TasksStay
<1>6. WorkersNotStranded'
  <2>1. Awake' = Awake /\ Notifying' = Notifying /\ Owed = 0 /\ Owed' = 0
    BY <1>1, <1>2 DEF Awake, Notifying, Owed
  <2>2. AsMany
    BY <2>1, Counts DEF AsMany
  <2>3. StopTold => StopTold'
    BY <1>1 DEF StopTold
  <2> QED
    BY <1>1, <2>2, <2>3, StrandedKept
<1>7. DestructorDrains' /\ Holding' /\ ChildrenNew' /\ TakenOnce'
  BY <1>1, <1>2 DEF DestructorDrains, Holding, ChildrenNew, TakenOnce
<1>8. MainNew' /\ Stopping'
  BY <1>1, <1>2 DEF MainNew, Stopping
<1> QED
  BY <1>4, <1>5, <1>6, <1>7, <1>8

(* A worker blocks only when there is nothing to take (47).                 *)
LEMMA WorkerWaitsInv == ASSUME Inv, NEW w \in Workers, WorkerWaits(w) PROVE Inv'
<1> USE DEF Inv
<1>1. /\ wpc[w] = "loop" /\ ~stop /\ tasks = <<>> /\ cv' = cv \cup {w}
      /\ UNCHANGED <<tasks, stop, wpc, task, future, runs, taken, main, i>>
  BY DEF WorkerWaits, AtLoop, mainVars
<1>2. TypeOK'
  BY <1>1 DEF TypeOK
<1>3. EachTaskOnce'
  BY <1>1, TasksStay
<1>4. WorkersNotStranded'
  <2>1. Len(tasks') = 0
    BY <1>1
  <2>2. Owed' \in Nat
    BY DEF Owed
  <2>3. Len(tasks') <= Cardinality(Awake') + Cardinality(Notifying') + Owed'
    BY <2>1, <2>2, Counts
  <2> QED
    BY <1>1, <2>3 DEF WorkersNotStranded, Awake, Notifying, Owed
<1>5. /\ DestructorDrains' /\ Holding' /\ ChildrenNew' /\ TakenOnce'
      /\ MainNew' /\ Stopping'
  BY <1>1 DEF DestructorDrains, Holding, ChildrenNew, TakenOnce, MainNew, Stopping
<1> QED
  BY <1>2, <1>3, <1>4, <1>5

(* A worker leaves when nothing is queued and nothing will be (49).         *)
LEMMA WorkerReturnsInv == ASSUME Inv, NEW w \in Workers, WorkerReturns(w) PROVE Inv'
<1> USE DEF Inv
<1>1. /\ wpc[w] = "loop" /\ w \notin cv /\ stop /\ tasks = <<>>
      /\ wpc' = [wpc EXCEPT ![w] = "done"]
      /\ UNCHANGED <<tasks, stop, cv, task, future, runs, taken, main, i>>
  BY DEF WorkerReturns, AtLoop, mainVars
<1>2. TypeOK'
  BY <1>1 DEF TypeOK
<1>3. EachTaskOnce'
  BY <1>1, TasksStay
<1>4. WorkersNotStranded'
  <2>1. Len(tasks') = 0
    BY <1>1
  <2>2. Owed' \in Nat
    BY DEF Owed
  <2>3. Len(tasks') <= Cardinality(Awake') + Cardinality(Notifying') + Owed'
    BY <2>1, <2>2, Counts
  <2>4. cv # {} => main = "notify all"
    BY <1>1 DEF WorkersNotStranded
  <2> QED
    BY <1>1, <2>3, <2>4 DEF WorkersNotStranded, Awake, Notifying, Owed
<1>5. DestructorDrains' /\ MainNew' /\ TakenOnce'
  BY <1>1 DEF DestructorDrains, MainNew, TakenOnce
<1>6. Holding' /\ Stopping'
  BY <1>1 DEF Holding, Stopping, TypeOK
<1>7. ChildrenNew'
  BY <1>1 DEF ChildrenNew, TypeOK
<1> QED
  BY <1>2, <1>3, <1>4, <1>5, <1>6, <1>7

(* One task less is queued, and one worker less on its way (51-52).         *)
LEMMA TakeInv == ASSUME Inv, NEW w \in Workers, Take(w) PROVE Inv'
<1> USE DEF Inv
<1>1. /\ wpc[w] = "loop" /\ w \notin cv /\ tasks # <<>>
      /\ task' = [task EXCEPT ![w] = Head(tasks)]
      /\ taken' = Append(taken, Head(tasks))
      /\ wpc' = [wpc EXCEPT ![w] = "run"]
      /\ UNCHANGED <<stop, cv, future, runs, main, i>>
  BY DEF Take, AtLoop, mainVars
<1>2. /\ EachTaskOnce' /\ Holding'
      /\ Head(tasks) \in Tasks /\ future[Head(tasks)] = "pending"
      /\ tasks' \in Seq(Tasks) /\ Len(tasks') = Len(tasks) - 1
  BY Taken
<1>3. TypeOK'
  <2>1. taken \in Seq(Tasks)
    BY DEF TypeOK
  <2>2. taken' \in Seq(Tasks)
    BY <1>1, <1>2, <2>1, AppendTask
  <2> QED
    BY <1>1, <1>2, <2>2 DEF TypeOK
<1>4. WorkersNotStranded'
  <2>1. Awake = Awake' \cup {w} /\ w \notin Awake'
    BY <1>1 DEF Awake, TypeOK
  <2>2. Cardinality(Awake) = Cardinality(Awake') + 1
    BY <2>1, Count, Counts
  <2>3. Notifying' = Notifying /\ Owed' = Owed
    BY <1>1 DEF Notifying, Owed, TypeOK
  <2>4. /\ Len(tasks) \in Nat /\ Owed \in Nat
        /\ Cardinality(Awake') \in Nat /\ Cardinality(Notifying) \in Nat
    BY TasksType, Counts DEF Owed
  <2>5. cv # {} => Len(tasks) <= Cardinality(Awake) + Cardinality(Notifying) + Owed
    BY StrandedDef
  <2>6. cv # {} => Len(tasks') <= Cardinality(Awake') + Cardinality(Notifying') + Owed'
    BY <1>2, <2>2, <2>3, <2>4, <2>5
  <2>7. (cv # {} => (stop => main = "notify all")) /\ UNCHANGED <<cv, stop, main>>
    BY <1>1 DEF WorkersNotStranded
  <2> QED
    BY <2>6, <2>7 DEF WorkersNotStranded, Awake, Notifying, Owed
<1>5. DestructorDrains'
  BY <1>1 DEF DestructorDrains
<1>6. MainNew'
  BY <1>1 DEF MainNew
<1>7. ChildrenNew'
  <2>1. task[w] = NoTask
    BY <1>1 DEF Holding
  <2> QED
    BY <1>1, <2>1, TaskNumbers DEF ChildrenNew, TypeOK
<1>8. TakenOnce'
  <2>1. taken \in Seq(Tasks)
    BY DEF TypeOK
  <2>2. /\ Len(taken) \in Nat /\ Len(taken') = Len(taken) + 1
        /\ \A k \in 1 .. Len(taken) : taken'[k] = taken[k]
        /\ taken'[Len(taken) + 1] = Head(tasks)
    BY <1>1, <1>2, <2>1, AppendTask
  <2>3. \A k \in 1 .. Len(taken') : k \in 1 .. Len(taken) \/ k = Len(taken) + 1
    BY <2>2
  <2> QED
    BY <1>1, <1>2, <2>2, <2>3 DEF TakenOnce
<1>9. Stopping'
  <2>1. \A v \in Workers : wpc[v] # "done"
    BY <1>1 DEF Stopping
  <2> QED
    BY <1>1, <2>1 DEF Stopping, TypeOK
<1> QED
  BY <1>2, <1>3, <1>4, <1>5, <1>6, <1>7, <1>8, <1>9

(* The parts of Inv that the end of a task touches, whether it returns,     *)
(* throws or has just submitted another (96-113).                           *)
LEMMA FinishKeeps ==
  ASSUME Inv, NEW w \in Workers, wpc[w] \in {"run", "notify"},
         NEW outcome \in {"value", "exception"}, Finish(w, outcome),
         UNCHANGED <<tasks, stop, taken, main, i>>
  PROVE  /\ EachTaskOnce' /\ Holding' /\ DestructorDrains' /\ MainNew'
         /\ ChildrenNew' /\ TakenOnce' /\ Stopping'
         /\ future' \in [Tasks -> {"none", "pending", "value", "exception"}]
         /\ runs' \in [Tasks -> Nat]
         /\ wpc' = [wpc EXCEPT ![w] = "loop"]
         /\ task' \in [Workers -> Tasks \cup {NoTask}]
<1> USE DEF Inv
<1>1. /\ future' = [future EXCEPT ![task[w]] = outcome]
      /\ runs' = [runs EXCEPT ![task[w]] = @ + 1]
      /\ task' = [task EXCEPT ![w] = NoTask]
      /\ wpc' = [wpc EXCEPT ![w] = "loop"]
  BY DEF Finish
<1>2. task[w] \in Tasks /\ future[task[w]] = "pending"
  BY RunsPending
<1>3. EachTaskOnce' /\ Holding'
  BY Finished
<1>4. runs' \in [Tasks -> Nat]
  <2>1. /\ runs \in [Tasks -> Nat] /\ task[w] \in Tasks
        /\ runs' = [runs EXCEPT ![task[w]] = runs[task[w]] + 1]
    BY <1>1, <1>2 DEF TypeOK
  <2>2. runs[task[w]] + 1 \in Nat
    BY <2>1
  <2> QED
    BY <2>1, <2>2, Zenon
<1>5. /\ future' \in [Tasks -> {"none", "pending", "value", "exception"}]
      /\ task' \in [Workers -> Tasks \cup {NoTask}]
  BY <1>1, <1>2 DEF TypeOK
<1>6. \A t \in Tasks : future[t] = "none" => future'[t] = "none"
  BY <1>1, <1>2 DEF TypeOK
<1>7. \A t \in Tasks : future[t] # "none" => future'[t] # "none"
  BY <1>1, <1>2 DEF TypeOK
<1>8. \A t \in Tasks : future[t] \in {"value", "exception"} => future'[t] \in {"value", "exception"}
  BY <1>1, <1>2 DEF TypeOK
<1>9. main # "end"
  BY DEF Stopping
<1>10. DestructorDrains'
  BY <1>9 DEF DestructorDrains
<1>11. MainNew'
  BY <1>6, TaskNumbers DEF MainNew
<1>12. ChildrenNew'
  <2> SUFFICES ASSUME NEW t \in DOMAIN Child
               PROVE  \/ future'[Child[t]] = "none"
                      \/ future'[t] \in {"value", "exception"}
                      \/ \E v \in Workers : task'[v] = t /\ wpc'[v] = "notify"
    BY DEF ChildrenNew
  <2>1. t \in Tasks /\ Child[t] \in Tasks
    BY TaskNumbers
  <2>2. CASE future[Child[t]] = "none" \/ future[t] \in {"value", "exception"}
    BY <1>6, <1>8, <2>1, <2>2
  <2>3. ASSUME NEW v \in Workers, task[v] = t, wpc[v] = "notify"
        PROVE  \/ future'[t] \in {"value", "exception"}
               \/ \E u \in Workers : task'[u] = t /\ wpc'[u] = "notify"
    <3>1. CASE v = w
      BY <1>1, <1>2, <2>3, <3>1 DEF TypeOK
    <3>2. CASE v # w
      BY <1>1, <2>3, <3>2 DEF TypeOK
    <3> QED
      BY <3>1, <3>2
  <2> QED
    BY <2>2, <2>3 DEF ChildrenNew
<1>13. TakenOnce'
  <2>1. taken \in Seq(Tasks)
    BY DEF TypeOK
  <2> QED
    BY <1>7, <2>1 DEF TakenOnce
<1>14. Stopping'
  BY <1>1 DEF Stopping, TypeOK
<1> QED
  BY <1>1, <1>3, <1>4, <1>5, <1>10, <1>11, <1>12, <1>13, <1>14

(* A worker that ends a task is on its way to the queue again.              *)
LEMMA BackToLoop ==
  ASSUME TypeOK, NEW w \in Workers, wpc[w] = "run", wpc' = [wpc EXCEPT ![w] = "loop"],
         UNCHANGED <<cv, main>>
  PROVE  AsMany
<1>1. w \notin cv
  BY DEF TypeOK
<1>2. Awake' = Awake \cup {w} /\ w \notin Awake
  BY <1>1 DEF Awake, TypeOK
<1>3. Cardinality(Awake') = Cardinality(Awake) + 1
  BY <1>2, Count, Counts
<1>4. Notifying' = Notifying /\ Owed' = Owed /\ Owed \in Nat
  BY DEF Notifying, Owed, TypeOK
<1> QED
  BY <1>3, <1>4, Counts DEF AsMany

(* A task that submits nothing, or whose submit throws, ends (58-60).       *)
LEMMA RunTaskInv == ASSUME Inv, NEW w \in Workers, RunTask(w) \/ RunThrows(w) PROVE Inv'
<1>1. /\ wpc[w] = "run"
      /\ UNCHANGED <<tasks, stop, cv, taken, main, i>>
  BY DEF RunTask, RunThrows, mainVars
<1>2. PICK outcome \in {"value", "exception"} : Finish(w, outcome)
  BY DEF RunTask, RunThrows
<1>3. /\ EachTaskOnce' /\ Holding' /\ DestructorDrains' /\ MainNew'
      /\ ChildrenNew' /\ TakenOnce' /\ Stopping'
      /\ future' \in [Tasks -> {"none", "pending", "value", "exception"}]
      /\ runs' \in [Tasks -> Nat]
      /\ wpc' = [wpc EXCEPT ![w] = "loop"]
      /\ task' \in [Workers -> Tasks \cup {NoTask}]
  BY <1>1, <1>2, FinishKeeps
<1>4. TypeOK'
  BY <1>1, <1>3 DEF Inv, TypeOK
<1>5. AsMany
  BY <1>1, <1>3, BackToLoop DEF Inv
<1>6. StopTold => StopTold'
  BY <1>1 DEF StopTold
<1>7. WorkersNotStranded'
  BY <1>1, <1>5, <1>6, StrandedKept DEF Inv
<1> QED
  BY <1>3, <1>4, <1>7 DEF Inv

(* A task submits another, which is new (51-55).                            *)
LEMMA RunSubmitsInv == ASSUME Inv, NEW w \in Workers, RunSubmits(w) PROVE Inv'
<1> USE DEF Inv
<1> DEFINE t == task[w]
<1> DEFINE c == Child[t]
<1>1. /\ wpc[w] = "run" /\ t \in DOMAIN Child /\ ~stop
      /\ tasks' = Append(tasks, c)
      /\ future' = [future EXCEPT ![c] = "pending"]
      /\ wpc' = [wpc EXCEPT ![w] = "notify"]
      /\ UNCHANGED <<stop, cv, task, runs, taken, main, i>>
  BY DEF RunSubmits, Enqueue, mainVars
<1>2. c \in Tasks \ MainTasks
  BY <1>1, TaskNumbers
<1>3. t \in Tasks /\ t # NoTask /\ future[t] = "pending"
  BY <1>1, RunsPending, TaskNumbers
<1>4. \A v \in Workers : task[v] = t => v = w
  BY <1>3 DEF EachTaskOnce, NoneTwice
<1>5. future[c] = "none"
  BY <1>1, <1>3, <1>4 DEF ChildrenNew
<1>6. /\ EachTaskOnce'
      /\ tasks' \in Seq(Tasks) /\ Len(tasks') = Len(tasks) + 1
  BY <1>1, <1>2, <1>5, Enqueued DEF RunSubmits
<1>7. TypeOK'
  BY <1>1, <1>2, <1>6 DEF TypeOK
<1>8. WorkersNotStranded'
  <2>1. Notifying' = Notifying \cup {w} /\ w \notin Notifying
    BY <1>1 DEF Notifying, TypeOK
  <2>2. Cardinality(Notifying') = Cardinality(Notifying) + 1
    BY <2>1, Count, Counts
  <2>3. Awake' = Awake /\ Owed' = Owed
    BY <1>1 DEF Awake, Owed, TypeOK
  <2>4. /\ Len(tasks) \in Nat /\ Owed \in Nat
        /\ Cardinality(Awake) \in Nat /\ Cardinality(Notifying) \in Nat
    BY TasksType, Counts DEF Owed
  <2>5. cv # {} => Len(tasks) <= Cardinality(Awake) + Cardinality(Notifying) + Owed
    BY StrandedDef
  <2>6. cv # {} => Len(tasks') <= Cardinality(Awake') + Cardinality(Notifying') + Owed'
    BY <1>6, <2>2, <2>3, <2>4, <2>5
  <2> QED
    BY <1>1, <2>6 DEF WorkersNotStranded, Awake, Notifying, Owed
<1>9. DestructorDrains'
  BY <1>1 DEF DestructorDrains, Stopping
<1>10. Holding'
  BY <1>1, <1>3 DEF Holding, TypeOK
<1>11. MainNew'
  BY <1>1, <1>2, TaskNumbers DEF MainNew, TypeOK
<1>12. ChildrenNew'
  <2> SUFFICES ASSUME NEW u \in DOMAIN Child
               PROVE  \/ future'[Child[u]] = "none"
                      \/ future'[u] \in {"value", "exception"}
                      \/ \E v \in Workers : task'[v] = u /\ wpc'[v] = "notify"
    BY DEF ChildrenNew
  <2>1. u \in Tasks /\ Child[u] \in Tasks
    BY TaskNumbers
  <2>2. CASE Child[u] = c
    <3>1. u = t
      BY <1>1, <2>2, ChildAssumption
    <3>2. task'[w] = u /\ wpc'[w] = "notify"
      BY <1>1, <3>1 DEF TypeOK
    <3> QED
      BY <3>2
  <2>3. CASE Child[u] # c
    <3>1. CASE future[Child[u]] = "none"
      BY <1>1, <2>1, <2>3, <3>1 DEF TypeOK
    <3>2. CASE future[u] \in {"value", "exception"}
      BY <1>1, <1>5, <2>1, <3>2 DEF TypeOK
    <3>3. CASE \E v \in Workers : task[v] = u /\ wpc[v] = "notify"
      BY <1>1, <3>3 DEF TypeOK
    <3> QED
      BY <3>1, <3>2, <3>3 DEF ChildrenNew
  <2> QED
    BY <2>2, <2>3
<1>13. TakenOnce'
  <2>1. taken \in Seq(Tasks)
    BY DEF TypeOK
  <2>2. \A u \in Tasks : future[u] # "none" => future'[u] # "none"
    BY <1>1, <1>2 DEF TypeOK
  <2> QED
    BY <1>1, <2>1, <2>2 DEF TakenOnce
<1>14. Stopping'
  BY <1>1 DEF Stopping, TypeOK
<1> QED
  BY <1>6, <1>7, <1>8, <1>9, <1>10, <1>11, <1>12, <1>13, <1>14

(* submit, in a task, notifies one worker and returns (56).                 *)
LEMMA RunNotifiesInv == ASSUME Inv, NEW w \in Workers, RunNotifies(w) PROVE Inv'
<1>1. /\ wpc[w] = "notify" /\ cv' \in NotifyOne(cv) /\ Finish(w, "value")
      /\ UNCHANGED <<tasks, stop, taken, main, i>>
  BY DEF RunNotifies, Notify, mainVars
<1>2. /\ EachTaskOnce' /\ Holding' /\ DestructorDrains' /\ MainNew'
      /\ ChildrenNew' /\ TakenOnce' /\ Stopping'
      /\ future' \in [Tasks -> {"none", "pending", "value", "exception"}]
      /\ runs' \in [Tasks -> Nat]
      /\ wpc' = [wpc EXCEPT ![w] = "loop"]
      /\ task' \in [Workers -> Tasks \cup {NoTask}]
  BY <1>1, FinishKeeps
<1>3. (cv' = {} /\ cv = {}) \/ (\E v \in cv : cv' = cv \ {v})
  BY <1>1, NotifyCases
<1>4. TypeOK'
  BY <1>1, <1>2, <1>3 DEF Inv, TypeOK
<1>5. WorkersNotStranded'
  <2>1. CASE cv' = {}
    BY <2>1 DEF WorkersNotStranded
  <2>2. CASE \E v \in cv : cv' = cv \ {v}
    <3>1. PICK v \in cv : cv' = cv \ {v}
      BY <2>2
    <3>2. Notifying = Notifying' \cup {w} /\ w \notin Notifying'
      BY <1>1, <1>2 DEF Notifying, Inv, TypeOK
    <3>3. Cardinality(Notifying) = Cardinality(Notifying') + 1
      BY <3>2, Count, Counts
    <3>4. Awake \cup {w} \subseteq Awake' /\ w \notin Awake
      BY <1>1, <1>2, <3>1, ZenonT(60) DEF Awake, Inv, TypeOK
    <3>5. Cardinality(Awake \cup {w}) = Cardinality(Awake) + 1
      BY <3>4, Count, Counts
    <3>6. Cardinality(Awake \cup {w}) <= Cardinality(Awake')
      BY <3>4, CountMore, Counts
    <3>7. Owed' = Owed /\ Owed \in Nat
      BY <1>1 DEF Owed
    <3>8. AsMany
      BY <3>3, <3>5, <3>6, <3>7, Counts DEF AsMany
    <3>9. StopTold => StopTold'
      BY <1>1 DEF StopTold
    <3> QED
      BY <1>1, <3>1, <3>8, <3>9, StrandedKept DEF Inv
  <2> QED
    BY <1>3, <2>1, <2>2
<1> QED
  BY <1>2, <1>4, <1>5 DEF Inv

(* A worker wakes by itself (47). *)
LEMMA SpuriousWakeupInv == ASSUME Inv, SpuriousWakeup PROVE Inv'
<1> USE DEF Inv
<1>1. PICK w \in cv : cv' = cv \ {w}
  BY DEF SpuriousWakeup
<1>2. UNCHANGED <<tasks, stop, wpc, task, future, runs, taken, main, i>>
  BY DEF SpuriousWakeup, mainVars
<1>3. TypeOK'
  BY <1>1, <1>2 DEF TypeOK
<1>4. WorkersNotStranded'
  <2>1. Cardinality(Awake') = Cardinality(Awake) + 1 /\ Notifying' = Notifying
    BY <1>1, <1>2, OneAwake
  <2>2. Owed' = Owed /\ Owed \in Nat
    BY <1>2 DEF Owed
  <2>3. AsMany
    BY <2>1, <2>2, Counts DEF AsMany
  <2>4. StopTold => StopTold'
    BY <1>2 DEF StopTold
  <2> QED
    BY <1>1, <1>2, <2>3, <2>4, StrandedKept
<1>5. EachTaskOnce'
  BY <1>2, TasksStay
<1>6. /\ DestructorDrains' /\ Holding' /\ ChildrenNew' /\ TakenOnce'
      /\ MainNew' /\ Stopping'
  BY <1>2 DEF DestructorDrains, Holding, ChildrenNew, TakenOnce, MainNew, Stopping
<1> QED
  BY <1>3, <1>4, <1>5, <1>6

(* The destructor: stop, notify_all, and the joins (63-70), after which     *)
(* every worker is done, so that nothing is queued or held.                 *)
LEMMA DestructorInv == ASSUME Inv, SetStop \/ NotifyAll \/ JoinWorkers PROVE Inv'
<1> USE DEF Inv
<1>1. /\ UNCHANGED <<tasks, wpc, task, future, runs, taken, i>>
      /\ main \in {"set stop", "notify all", "join"}
      /\ main' \in {"notify all", "join", "end"}
  BY DEF SetStop, NotifyAll, JoinWorkers
<1>2. cv' = cv \/ cv' = {}
  BY DEF SetStop, NotifyAll, JoinWorkers
<1>3. TypeOK'
  BY <1>1, <1>2 DEF TypeOK, SetStop, NotifyAll, JoinWorkers
<1>4. EachTaskOnce'
  BY <1>1, TasksStay
<1>5. WorkersNotStranded'
  <2>1. CASE cv' = {}
    BY <2>1 DEF WorkersNotStranded
  <2>2. CASE cv' = cv
    <3>1. Awake' = Awake /\ Notifying' = Notifying /\ Owed = 0 /\ Owed' = 0
      BY <1>1, <2>2 DEF Awake, Notifying, Owed
    <3>2. AsMany
      BY <3>1, Counts DEF AsMany
    <3>3. CASE cv = {}
      BY <2>2, <3>3 DEF WorkersNotStranded
    <3>4. CASE SetStop \/ JoinWorkers
      <4>1. StopTold => StopTold'
        BY <1>1, <3>4 DEF StopTold, SetStop, JoinWorkers, Stopping
      <4> QED
        BY <1>1, <2>2, <3>2, <4>1, StrandedKept
    <3>5. CASE NotifyAll
      BY <2>2, <3>3, <3>5 DEF NotifyAll, WorkersNotStranded
    <3> QED
      BY <3>4, <3>5
  <2> QED
    BY <1>2, <2>1, <2>2
<1>6. Holding' /\ ChildrenNew' /\ TakenOnce' /\ MainNew'
  BY <1>1 DEF Holding, ChildrenNew, TakenOnce, MainNew
<1>7. DestructorDrains'
  <2> SUFFICES ASSUME main' = "end"
               PROVE  tasks = <<>> /\ \A t \in Tasks : future[t] # "pending"
    BY <1>1 DEF DestructorDrains
  <2>1. \A w \in Workers : wpc[w] = "done"
    BY DEF SetStop, NotifyAll, JoinWorkers
  <2>2. tasks = <<>>
    BY <2>1, WorkersAssumption DEF Stopping
  <2>3. \A w \in Workers : task[w] = NoTask
    BY <2>1 DEF Holding
  <2>4. \A t \in Tasks : ~Queued(t) /\ ~Held(t)
    BY <2>2, <2>3, TaskNumbers DEF Queued, Held
  <2> QED
    BY <2>2, <2>4 DEF EachTaskOnce
<1>8. Stopping'
  BY <1>1 DEF Stopping, SetStop, NotifyAll, JoinWorkers
<1> QED
  BY <1>3, <1>4, <1>5, <1>6, <1>7, <1>8

(* A stuttering step. *)
LEMMA StutterInv == ASSUME Inv, UNCHANGED vars PROVE Inv'
<1> USE DEF Inv, vars
<1>1. TypeOK'
  BY DEF TypeOK
<1>2. EachTaskOnce'
  BY TasksStay
<1>3. WorkersNotStranded' /\ DestructorDrains'
  BY DEF WorkersNotStranded, DestructorDrains
<1>4. Holding' /\ MainNew' /\ ChildrenNew' /\ TakenOnce' /\ Stopping'
  BY DEF Holding, MainNew, ChildrenNew, TakenOnce, Stopping
<1> QED
  BY <1>1, <1>2, <1>3, <1>4

(* Every step of every thread.                                              *)
LEMMA StepInv == Inv /\ [Next]_vars => Inv'
<1> SUFFICES ASSUME Inv, [Next]_vars PROVE Inv'
  OBVIOUS
<1>1. CASE MainStep
  BY <1>1, MainSubmitInv, MainNotifyInv, MainGetInv, DestructorInv DEF MainStep
<1>2. ASSUME NEW w \in Workers, WorkerStep(w) PROVE Inv'
  BY <1>2, WorkerWaitsInv, WorkerReturnsInv, TakeInv, RunTaskInv, RunSubmitsInv,
     RunNotifiesInv DEF WorkerStep
<1>3. CASE SpuriousWakeup
  BY <1>3, SpuriousWakeupInv
<1>4. CASE Terminated \/ UNCHANGED vars
  BY <1>4, StutterInv DEF Terminated
<1> QED
  BY <1>1, <1>2, <1>3, <1>4 DEF Next

-----------------------------------------------------------------------------
(* The inductive invariant of the pool (21-123): each task once, no worker  *)
(* asleep beside one, nothing left by the destructor, for any workers and   *)
(* tasks.                                                                   *)
THEOREM Invariance == Spec => []Inv
<1> QED
  BY InitInv, StepInv, PTL DEF Spec

(* A task that is queued has a worker on its way or a notification to come, *)
(* although submit notifies outside the lock (47, 56, 66).                  *)
THEOREM NoLostWakeup == Spec => []WorkersNotStranded
<1>1. Inv => WorkersNotStranded
  BY DEF Inv
<1> QED
  BY <1>1, Invariance, PTL

(* When the destructor returns (67-69), every task accepted has run.        *)
THEOREM NothingAbandoned == Spec => []DestructorDrains
<1>1. Inv => DestructorDrains
  BY DEF Inv
<1> QED
  BY <1>1, Invariance, PTL

(* A task enters the queue once: its future tells whether it ever did.      *)
LEMMA EnqueueImplements ==
  ASSUME Inv, NEW t \in Tasks, future[t] = "none", Enqueue(t), UNCHANGED taken
  PROVE  Queue!Enqueue(t)
<1> USE DEF Inv
<1>1. tasks \in Seq(Tasks) /\ taken \in Seq(Tasks)
  BY DEF TypeOK
<1>2. ASSUME NEW k \in DOMAIN tasks PROVE tasks[k] # t
  <2>1. k \in 1 .. Len(tasks)
    BY <1>1, <1>2
  <2> QED
    BY <2>1 DEF EachTaskOnce, Queued
<1>3. ASSUME NEW k \in DOMAIN taken PROVE taken[k] # t
  <2>1. k \in 1 .. Len(taken)
    BY <1>1, <1>3
  <2> QED
    BY <2>1 DEF TakenOnce
<1>4. t \notin Queue!Entered
  BY <1>2, <1>3 DEF Queue!Entered
<1> QED
  BY <1>4 DEF Enqueue, Queue!Enqueue

(* Tasks start in the order in which they were submitted, whoever submits   *)
(* and whoever runs them (51-55).                                           *)
THEOREM ImplementsQueue == Spec => QueueSpec
<1>1. Init => Queue!Init
  BY DEF Init, Queue!Init
<1>2. Inv /\ [Next]_vars => [Queue!Next]_Queue!vars
  <2> SUFFICES ASSUME Inv, [Next]_vars PROVE [Queue!Next]_Queue!vars
    OBVIOUS
  <2>1. CASE MainSubmit
    <3>1. i \in Tasks /\ future[i] = "none"
      <4>1. i \in MainTasks /\ i \in Nat
        BY TaskNumbers DEF Inv, TypeOK
      <4>2. i >= i
        BY <4>1
      <4> QED
        BY <2>1, <4>1, <4>2, TaskNumbers DEF MainSubmit, Inv, MainNew
    <3> QED
      BY <2>1, <3>1, EnqueueImplements DEF MainSubmit, Queue!Next
  <2>2. ASSUME NEW w \in Workers, RunSubmits(w) PROVE Queue!Next
    <3>1. /\ wpc[w] = "run" /\ task[w] \in DOMAIN Child
          /\ Enqueue(Child[task[w]]) /\ UNCHANGED taken
      BY <2>2 DEF RunSubmits
    <3>2. Child[task[w]] \in Tasks
      BY <3>1, TaskNumbers
    <3>3. task[w] \in Tasks /\ task[w] # NoTask /\ future[task[w]] = "pending"
      BY <3>1, RunsPending, TaskNumbers DEF Inv
    <3>4. \A v \in Workers : task[v] = task[w] => v = w
      BY <3>3 DEF Inv, EachTaskOnce, NoneTwice
    <3>5. future[Child[task[w]]] = "none"
      BY <3>1, <3>3, <3>4 DEF Inv, ChildrenNew
    <3> QED
      BY <3>1, <3>2, <3>5, EnqueueImplements DEF Queue!Next
  <2>3. ASSUME NEW w \in Workers, Take(w) PROVE Queue!Next
    BY <2>3 DEF Take, Queue!Next, Queue!Dequeue
  <2>4. CASE UNCHANGED <<tasks, taken>>
    BY <2>4 DEF Queue!vars
  <2>5. CASE MainStep
    BY <2>1, <2>4, <2>5 DEF MainStep, MainNotify, MainGet, SetStop, NotifyAll, JoinWorkers
  <2>6. ASSUME NEW w \in Workers, WorkerStep(w) PROVE [Queue!Next]_Queue!vars
    BY <2>2, <2>3, <2>4, <2>6 DEF WorkerStep, WorkerWaits, WorkerReturns, RunTask,
       RunThrows, RunNotifies
  <2>7. CASE SpuriousWakeup \/ Terminated \/ UNCHANGED vars
    BY <2>4, <2>7 DEF SpuriousWakeup, Terminated, vars
  <2> QED
    BY <2>5, <2>6, <2>7 DEF Next
<1> QED
  BY Invariance, <1>1, <1>2, PTL DEF Spec, QueueSpec, Queue!Spec

-----------------------------------------------------------------------------
Ready(t) == future[t] \in {"value", "exception"}

(* How far main has come (131-146): what it has submitted has a future, and *)
(* what it has got was ready.                                               *)
MainProgress ==
  /\ main = "submit" => \A t \in MainTasks : t < i => future[t] # "none"
  /\ main = "notify" => \A t \in MainTasks : t <= i => future[t] # "none"
  /\ main = "get" => \A t \in MainTasks : /\ future[t] # "none"
                                          /\ t < i => Ready(t)
  /\ main \in {"set stop", "notify all", "join", "end"} =>
       \A t \in MainTasks : Ready(t)

(* main has every result before the destructor starts (143, 62): only the   *)
(* tasks that tasks submit can meet it.                                     *)
ResultsBeforeStop == stop => \A t \in MainTasks : Ready(t)

(* Who can go on, without being notified or woken.                          *)
MainCanGo ==
  \/ main \in {"notify", "set stop", "notify all"}
  \/ main = "submit" /\ ~stop
  \/ main = "get" /\ Ready(i)
  \/ main = "join" /\ \A w \in Workers : wpc[w] = "done"

WorkerCanGo(w) ==
  \/ wpc[w] \in {"run", "notify"}
  \/ AtLoop(w) /\ (stop \/ tasks # <<>>)

(* Until main has ended, main or a worker can go on: neither a get nor the  *)
(* joins of the destructor wait for ever (47, 67-69, 144).                  *)
NeverDeadlocked == main # "end" => MainCanGo \/ \E w \in Workers : WorkerCanGo(w)

(* A step leaves the future of a task of main's as it is, or ready, but for *)
(* MainSubmit.                                                              *)
LEMMA FuturesAdvance ==
  ASSUME TypeOK, NEW w \in Workers, WorkerStep(w), NEW t \in MainTasks
  PROVE  /\ future[t] # "none" => future'[t] # "none"
         /\ Ready(t) => Ready(t)'
<1>0. future \in [Tasks -> {"none", "pending", "value", "exception"}] /\ t \in Tasks
  BY TaskNumbers DEF TypeOK
<1>1. ASSUME NEW outcome \in {"value", "exception"}, Finish(w, outcome)
      PROVE  /\ future[t] # "none" => future'[t] # "none"
             /\ Ready(t) => Ready(t)'
  BY <1>0, <1>1 DEF Finish, Ready
<1>2. CASE RunSubmits(w)
  <2>1. task[w] \in DOMAIN Child /\ future' = [future EXCEPT ![Child[task[w]]] = "pending"]
    BY <1>2 DEF RunSubmits, Enqueue
  <2>2. Child[task[w]] # t
    BY <2>1, TaskNumbers
  <2>3. future'[t] = future[t]
    BY <1>0, <2>1, <2>2
  <2> QED
    BY <2>3 DEF Ready
<1>3. CASE UNCHANGED future
  BY <1>3 DEF Ready
<1> QED
  BY <1>1, <1>2, <1>3
  DEF WorkerStep, WorkerWaits, WorkerReturns, Take, RunTask, RunThrows, RunNotifies

(* The steps of main carry MainProgress on.                                 *)
LEMMA MainProgressMain ==
  ASSUME Inv, MainProgress, MainStep PROVE MainProgress'
<1>0. /\ future \in [Tasks -> {"none", "pending", "value", "exception"}]
      /\ i \in MainTasks /\ NumTasks \in Nat
      /\ \A t \in MainTasks : t \in Tasks /\ t \in 1 .. NumTasks
  BY TaskNumbers, NumTasksAssumption DEF Inv, TypeOK, MainTasks
<1>1. CASE MainSubmit
  <2>1. /\ main = "submit" /\ main' = "notify" /\ i' = i
        /\ future' = [future EXCEPT ![i] = "pending"]
    BY <1>1 DEF MainSubmit, Enqueue
  <2>2. ASSUME NEW t \in MainTasks, t <= i PROVE future'[t] # "none"
    <3>1. CASE t = i
      BY <1>0, <2>1, <3>1
    <3>2. CASE t < i
      BY <1>0, <2>1, <3>2 DEF MainProgress
    <3> QED
      BY <1>0, <2>2, <3>1, <3>2
  <2> QED
    BY <2>1, <2>2 DEF MainProgress
<1>2. CASE MainNotify
  <2>1. main = "notify" /\ future' = future
    BY <1>2 DEF MainNotify
  <2>2. \A t \in MainTasks : t <= i => future[t] # "none"
    BY <2>1 DEF MainProgress
  <2>3. CASE i < NumTasks
    <3>1. main' = "submit" /\ i' = i + 1
      BY <1>2, <2>3 DEF MainNotify
    <3>2. \A t \in MainTasks : t < i + 1 => t <= i
      BY <1>0
    <3> QED
      BY <2>1, <2>2, <3>1, <3>2 DEF MainProgress
  <2>4. CASE ~(i < NumTasks)
    <3>1. main' = "get" /\ i' = 1
      BY <1>2, <2>4 DEF MainNotify
    <3>2. \A t \in MainTasks : t <= i /\ ~(t < 1)
      BY <1>0, <2>4
    <3> QED
      BY <2>1, <2>2, <3>1, <3>2 DEF MainProgress
  <2> QED
    BY <2>3, <2>4
<1>3. CASE MainGet
  <2>1. main = "get" /\ Ready(i) /\ future' = future
    BY <1>3 DEF MainGet, Ready
  <2>2. \A t \in MainTasks : future[t] # "none" /\ (t < i => Ready(t))
    BY <2>1 DEF MainProgress
  <2>3. \A t \in MainTasks : Ready(t)' <=> Ready(t)
    BY <2>1 DEF Ready
  <2>4. CASE i < NumTasks
    <3>1. main' = "get" /\ i' = i + 1
      BY <1>3, <2>1, <2>4 DEF MainGet
    <3>2. \A t \in MainTasks : t < i + 1 => t < i \/ t = i
      BY <1>0
    <3> QED
      BY <2>1, <2>2, <2>3, <3>1, <3>2 DEF MainProgress
  <2>5. CASE ~(i < NumTasks)
    <3>1. main' = "set stop"
      BY <1>3, <2>5 DEF MainGet
    <3>2. \A t \in MainTasks : t < i \/ t = i
      BY <1>0, <2>5
    <3> QED
      BY <2>1, <2>2, <2>3, <3>1, <3>2 DEF MainProgress
  <2> QED
    BY <2>4, <2>5
<1>4. CASE SetStop \/ NotifyAll \/ JoinWorkers
  <2>1. /\ main \in {"set stop", "notify all", "join"}
        /\ main' \in {"notify all", "join", "end"} /\ future' = future
    BY <1>4 DEF SetStop, NotifyAll, JoinWorkers
  <2> QED
    BY <2>1 DEF MainProgress, Ready
<1> QED
  BY <1>1, <1>2, <1>3, <1>4 DEF MainStep

(* So do those of the workers.                                              *)
LEMMA MainProgressStep == Inv /\ MainProgress /\ [Next]_vars => MainProgress'
<1> SUFFICES ASSUME Inv, MainProgress, [Next]_vars PROVE MainProgress'
  OBVIOUS
<1>1. ASSUME NEW w \in Workers, WorkerStep(w) PROVE MainProgress'
  <2>1. main' = main /\ i' = i
    BY <1>1 DEF WorkerStep, WorkerWaits, WorkerReturns, Take, RunTask, RunSubmits,
       RunThrows, RunNotifies, mainVars
  <2>2. \A t \in MainTasks : /\ future[t] # "none" => future'[t] # "none"
                             /\ Ready(t) => Ready(t)'
    BY <1>1, FuturesAdvance DEF Inv
  <2> QED
    BY <2>1, <2>2 DEF MainProgress
<1>2. CASE SpuriousWakeup \/ Terminated \/ UNCHANGED vars
  <2>1. main' = main /\ i' = i /\ future' = future
    BY <1>2 DEF SpuriousWakeup, Terminated, vars, mainVars
  <2> QED
    BY <2>1 DEF MainProgress, Ready
<1> QED
  BY <1>1, <1>2, MainProgressMain DEF Next

(* A task that is pending is in the hands of a worker who can go on, or of  *)
(* the queue, and then a worker is on its way to it.                        *)
LEMMA PendingMoves ==
  ASSUME Inv, ~stop, main # "notify", NEW t \in Tasks, future[t] = "pending"
  PROVE  \E w \in Workers : WorkerCanGo(w)
<1>0. Queued(t) \/ Held(t)
  BY DEF Inv, EachTaskOnce
<1>1. CASE Held(t)
  <2>1. PICK w \in Workers : task[w] = t
    BY <1>1 DEF Held
  <2>2. wpc[w] \in {"run", "notify"}
    BY <2>1, TaskNumbers DEF Inv, Holding
  <2> QED
    BY <2>2 DEF WorkerCanGo
<1>2. CASE Queued(t)
  <2>1. tasks \in Seq(Tasks) /\ Len(tasks) \in Nat
    BY TasksType DEF Inv
  <2>2. tasks # <<>> /\ Len(tasks) >= 1
    BY <1>2, <2>1 DEF Queued
  <2>3. \A w \in Workers : wpc[w] \in {"loop", "run", "notify"}
    BY DEF Inv, Stopping, TypeOK
  <2>4. CASE cv = {}
    <3>1. PICK w \in Workers : TRUE
      BY WorkersAssumption
    <3> QED
      BY <2>2, <2>3, <2>4, <3>1 DEF WorkerCanGo, AtLoop
  <2>5. CASE cv # {}
    <3>1. Len(tasks) <= Cardinality(Awake) + Cardinality(Notifying) + Owed
      BY <2>5, StrandedDef DEF Inv
    <3>2. Owed = 0
      BY DEF Owed
    <3>3. Awake # {} \/ Notifying # {}
      <4>1. SUFFICES ASSUME Awake = {}, Notifying = {} PROVE FALSE
        OBVIOUS
      <4>2. Cardinality(Awake) = 0 /\ Cardinality(Notifying) = 0
        BY <4>1, FS_EmptySet
      <4> QED
        BY <2>1, <2>2, <3>1, <3>2, <4>2
    <3> QED
      BY <2>2, <3>3 DEF Awake, Notifying, WorkerCanGo, AtLoop
  <2> QED
    BY <2>4, <2>5
<1> QED
  BY <1>0, <1>1, <1>2

(* The pool does not deadlock, for any workers and any tasks, submitted by  *)
(* main and by tasks: whoever waits, for a result, for a task or in a join, *)
(* waits for one that can go on.                                            *)
THEOREM NoDeadlock == Spec => [](NeverDeadlocked /\ ResultsBeforeStop)
<1>1. Init => MainProgress
  BY NumTasksAssumption DEF Init, MainProgress, MainTasks
<1>2. Inv /\ MainProgress => ResultsBeforeStop
  BY DEF Inv, Stopping, MainProgress, ResultsBeforeStop
<1>3. Inv /\ MainProgress => NeverDeadlocked
  <2> SUFFICES ASSUME Inv, MainProgress, main # "end", ~MainCanGo
               PROVE  \E w \in Workers : WorkerCanGo(w)
    BY DEF NeverDeadlocked
  <2>1. main \in {"get", "join"}
    BY DEF Inv, TypeOK, Stopping, MainCanGo
  <2>2. CASE main = "get"
    <3>1. i \in MainTasks /\ i \in Tasks /\ ~stop
      BY <2>2, TaskNumbers DEF Inv, TypeOK, Stopping
    <3>2. future[i] # "none" /\ ~Ready(i)
      BY <2>2, <3>1 DEF MainProgress, MainCanGo
    <3>3. future[i] = "pending"
      BY <3>1, <3>2 DEF Inv, TypeOK, Ready
    <3> QED
      BY <2>2, <3>1, <3>3, PendingMoves
  <2>3. CASE main = "join"
    <3>1. stop /\ cv = {}
      BY <2>3 DEF Inv, Stopping, WorkersNotStranded
    <3>2. PICK w \in Workers : wpc[w] # "done"
      BY <2>3 DEF MainCanGo
    <3>3. wpc[w] \in {"loop", "run", "notify"}
      BY <3>2 DEF Inv, TypeOK
    <3> QED
      BY <3>1, <3>3 DEF WorkerCanGo, AtLoop
  <2> QED
    BY <2>1, <2>2, <2>3
<1> QED
  BY <1>1, <1>2, <1>3, Invariance, MainProgressStep, InitInv, StepInv, PTL DEF Spec
=============================================================================

--------------------------- MODULE ThreadPoolProofs ---------------------------
(***************************************************************************)
(* Proofs about ThreadPool for any number of workers, callers and tasks.    *)
(* The inductive invariant adds to the properties what they rest on: a      *)
(* worker leaves only a stopped pool with an empty queue, and the           *)
(* destructor has returned only when every worker has left.                 *)
(***************************************************************************)
EXTENDS ThreadPool, TLAPS

\* Where the shutdown stands: workers leave after stop and when the queue is empty, and all
\* of them have left when the destructor returns.
ShutdownOrder ==
  /\ owner = "alive" <=> ~stop
  /\ \A w \in Workers : worker[w].pc = "exit" => stop /\ tasks = <<>>
  /\ owner = "gone" => \A w \in Workers : worker[w].pc = "exit"

PoolInv == TypeOK /\ RunsOnce /\ ShutdownOrder /\ NoLostWakeup

\* The pool as the constructor leaves it satisfies the invariant.
LEMMA InitPool == Init => PoolInv
<1> SUFFICES ASSUME Init PROVE PoolInv
  OBVIOUS
<1> DEFINE Idle == [pc |-> "check", task |-> NoTask]
<1>a. Idle \in [pc : {"check", "wait", "run", "exit"}, task : Tasks \cup {NoTask}]
  OBVIOUS
<1>b. Idle.pc = "check" /\ Idle.task = NoTask
  OBVIOUS
<1> HIDE DEF Idle
<1>c. worker = [w \in Workers |-> Idle]
  BY DEF Init, Idle
<1>1. TypeOK
  <2>1. worker \in [Workers -> [pc : {"check", "wait", "run", "exit"}, task : Tasks \cup {NoTask}]]
    BY <1>a, <1>c
  <2>2. \A w \in Workers : worker[w].pc = "run" <=> worker[w].task # NoTask
    BY <1>b, <1>c
  <2>3. tasks \in Seq(Tasks) /\ caller \in [Callers -> {"idle", "notify"}]
    BY DEF Init
  <2>5. stop \in BOOLEAN
    BY DEF Init
  <2>4. owner \in {"alive", "notify", "join", "gone"} /\ refused \subseteq Tasks /\ ran \in [Tasks -> Nat]
    BY DEF Init
  <2> QED
    BY <2>1, <2>2, <2>3, <2>4, <2>5 DEF TypeOK
<1>2. RunsOnce
  BY DEF Init, RunsOnce, Busy
<1>3. ShutdownOrder /\ NoLostWakeup
  BY DEF Init, ShutdownOrder, NoLostWakeup
<1> QED
  BY <1>1, <1>2, <1>3 DEF PoolInv

\* Waking threads changes nothing but their place in the loop.
LEMMA WakingKeepsTasks ==
  ASSUME TypeOK, NEW ws \in SUBSET Waiting, worker' = Woken(ws),
         UNCHANGED <<tasks, stop, refused, ran>>,
         caller' \in [Callers -> {"idle", "notify"}],
         owner' \in {"alive", "notify", "join", "gone"}
  PROVE  /\ TypeOK' /\ Busy' = Busy
         /\ \A w \in Workers : worker'[w].task = worker[w].task
         /\ \A w \in Workers : worker'[w].pc = "exit" <=> worker[w].pc = "exit"
         /\ \A w \in ws : worker'[w].pc = "check"
         /\ \A w \in Workers \ ws : worker'[w] = worker[w]
         /\ (RunsOnce => RunsOnce')
<1>1. \A w \in ws : /\ worker'[w] = [pc |-> "check", task |-> NoTask]
                    /\ worker[w].pc = "wait" /\ worker[w].task = NoTask
  BY DEF Woken, Waiting, TypeOK
<1>2. \A w \in Workers \ ws : worker'[w] = worker[w]
  BY DEF Woken
<1>3. /\ \A w \in Workers : worker'[w].task = worker[w].task
      /\ \A w \in Workers : worker'[w].pc = "exit" <=> worker[w].pc = "exit"
      /\ \A w \in Workers : worker'[w].pc = "run" <=> worker[w].pc = "run"
      /\ \A w \in ws : worker'[w].pc = "check"
  <2>1. \A w \in ws : /\ worker'[w].task = worker[w].task
                      /\ worker'[w].pc = "check" /\ worker[w].pc = "wait"
    BY <1>1
  <2> QED
    BY <1>2, <2>1
<1>4. worker' \in [Workers -> [pc : {"check", "wait", "run", "exit"}, task : Tasks \cup {NoTask}]]
  <2> DEFINE Rec == [pc : {"check", "wait", "run", "exit"}, task : Tasks \cup {NoTask}]
  <2>1. \A w \in Workers : worker'[w] \in Rec
    BY <1>1, <1>2 DEF TypeOK
  <2>2. worker' = [w \in Workers |-> worker'[w]]
    BY DEF Woken
  <2> HIDE DEF Rec
  <2>3. worker' \in [Workers -> Rec]
    BY <2>1, <2>2
  <2> QED
    BY <2>3 DEF Rec
<1>5. TypeOK'
  BY <1>3, <1>4 DEF TypeOK
<1>6. Busy' = Busy
  BY <1>3 DEF Busy
<1>7. RunsOnce => RunsOnce'
  <2> SUFFICES ASSUME RunsOnce PROVE RunsOnce'
    OBVIOUS
  <2>1. \A w \in Busy : worker'[w].task = worker[w].task
    BY <1>3 DEF Busy
  <2> QED
    BY <2>1, <1>6 DEF RunsOnce
<1> QED
  BY <1>2, <1>3, <1>5, <1>6, <1>7

\* Every step keeps the invariant.
LEMMA NextPool == PoolInv /\ [Next]_vars => PoolInv'
<1> SUFFICES ASSUME PoolInv, [Next]_vars PROVE PoolInv'
  OBVIOUS
<1> USE NoTaskAssumption, WorkersAssumption DEF PoolInv
<1>1. ASSUME NEW c \in Callers, NEW t \in Tasks, Enqueue(c, t) PROVE PoolInv'
  <2>1. CASE stop /\ refused' = refused \cup {t} /\ UNCHANGED <<tasks, caller>>
    BY <1>1, <2>1 DEF Enqueue, TypeOK, RunsOnce, ShutdownOrder, NoLostWakeup, Busy
  <2>2. CASE /\ ~stop /\ tasks' = Append(tasks, t)
             /\ caller' = [caller EXCEPT ![c] = "notify"] /\ UNCHANGED refused
    <3> USE <1>1, <2>2 DEF Enqueue
    <3>1. TypeOK'
      BY DEF TypeOK
    <3>2. /\ DOMAIN tasks' = DOMAIN tasks \cup {Len(tasks) + 1}
          /\ \A i \in DOMAIN tasks : tasks'[i] = tasks[i] /\ i # Len(tasks) + 1
          /\ tasks'[Len(tasks) + 1] = t
      BY DEF TypeOK
    <3>3. ran[t] = 0 /\ \A w \in Busy : worker[w].task # t
      BY DEF Enqueued, TypeOK, Busy
    <3>4. \A i \in DOMAIN tasks : tasks[i] # t
      BY DEF Enqueued
    <3>5. RunsOnce'
      BY <3>2, <3>3, <3>4 DEF RunsOnce, Busy
    <3>6. ShutdownOrder'
      BY DEF ShutdownOrder
    <3>7. NoLostWakeup'
      BY DEF NoLostWakeup, TypeOK
    <3> QED
      BY <3>1, <3>5, <3>6, <3>7
  <2> QED
    BY <1>1, <2>1, <2>2 DEF Enqueue
<1>2. ASSUME NEW c \in Callers, NotifyOne(c) PROVE PoolInv'
  <2> USE <1>2 DEF NotifyOne
  <2>1. PICK ws \in SUBSET Waiting : worker' = Woken(ws) /\ (Waiting # {} => ws # {})
    <3>1. CASE Waiting = {} /\ worker' = worker
      <4>1. worker' = Woken({})
        BY <3>1 DEF Woken, TypeOK
      <4> QED
        BY <3>1, <4>1
    <3>2. CASE \E w \in Waiting : worker' = Woken({w})
      BY <3>2
    <3> QED
      BY <3>1, <3>2
  <2>2. /\ TypeOK' /\ RunsOnce'
        /\ \A w \in Workers : worker'[w].pc = "exit" <=> worker[w].pc = "exit"
        /\ \A w \in ws : worker'[w].pc = "check"
        /\ \A w \in Workers \ ws : worker'[w] = worker[w]
    <3>1. caller' \in [Callers -> {"idle", "notify"}] /\ owner' \in {"alive", "notify", "join", "gone"}
      BY DEF TypeOK
    <3> QED
      BY <2>1, <3>1, WakingKeepsTasks
  <2>3. ShutdownOrder'
    BY <2>2 DEF ShutdownOrder
  <2>4. NoLostWakeup'
    <3> SUFFICES ASSUME tasks # <<>> PROVE \E w \in Workers : worker'[w].pc \in {"check", "run"}
      BY DEF NoLostWakeup
    <3>1. CASE Waiting = {}
      <4>1. PICK w \in Workers : TRUE
        OBVIOUS
      <4>2. worker[w].pc \in {"check", "run"}
        BY <3>1 DEF TypeOK, ShutdownOrder, Waiting
      <4> QED
        BY <4>2, <2>2, <3>1
    <3>2. CASE Waiting # {}
      BY <3>2, <2>1, <2>2 DEF Waiting
    <3> QED
      BY <3>1, <3>2
  <2> QED
    BY <2>2, <2>3, <2>4
<1>3. ASSUME NEW w \in Workers, SpuriousWakeup(w) PROVE PoolInv'
  <2> USE <1>3 DEF SpuriousWakeup
  <2>1. /\ TypeOK' /\ RunsOnce'
        /\ \A v \in Workers : worker'[v].pc = "exit" <=> worker[v].pc = "exit"
        /\ worker'[w].pc = "check"
    <3>1. {w} \in SUBSET Waiting
      BY DEF Waiting
    <3>2. caller' \in [Callers -> {"idle", "notify"}] /\ owner' \in {"alive", "notify", "join", "gone"}
      BY DEF TypeOK
    <3> QED
      BY <3>1, <3>2, WakingKeepsTasks
  <2>2. ShutdownOrder'
    BY <2>1 DEF ShutdownOrder
  <2>3. NoLostWakeup'
    BY <2>1 DEF NoLostWakeup
  <2> QED
    BY <2>1, <2>2, <2>3
<1>4. ASSUME NEW w \in Workers, Check(w) PROVE PoolInv'
  <2> USE <1>4 DEF Check, Becomes
  <2>1. CASE tasks = <<>> /\ UNCHANGED tasks /\ ~stop /\ Becomes(w, "wait", NoTask)
    BY <2>1 DEF TypeOK, RunsOnce, ShutdownOrder, NoLostWakeup, Busy
  <2>2. CASE tasks = <<>> /\ UNCHANGED tasks /\ stop /\ Becomes(w, "exit", NoTask)
    BY <2>2 DEF TypeOK, RunsOnce, ShutdownOrder, NoLostWakeup, Busy
  <2>3. CASE tasks # <<>> /\ Becomes(w, "run", Head(tasks)) /\ tasks' = Tail(tasks)
    <3> USE <2>3
    <3>1. /\ Head(tasks) = tasks[1] /\ 1 \in DOMAIN tasks /\ Head(tasks) \in Tasks
          /\ tasks' \in Seq(Tasks)
          /\ \A i \in DOMAIN tasks' : i + 1 \in DOMAIN tasks /\ tasks'[i] = tasks[i + 1] /\ i + 1 # 1
      BY DEF TypeOK
    <3>2. /\ worker'[w] = [pc |-> "run", task |-> Head(tasks)]
          /\ \A v \in Workers \ {w} : worker'[v] = worker[v]
          /\ Busy' = Busy \cup {w} /\ w \notin Busy
      BY DEF TypeOK, Busy
    <3>3. TypeOK'
      BY <3>1, <3>2 DEF TypeOK
    <3>4. RunsOnce'
      <4>1. \A i, j \in DOMAIN tasks' : tasks'[i] = tasks'[j] => i = j
        BY <3>1 DEF RunsOnce, TypeOK
      <4>2. \A i \in DOMAIN tasks' : ran[tasks'[i]] = 0 /\ tasks'[i] # Head(tasks)
        BY <3>1 DEF RunsOnce
      <4>3. \A v \in Busy : worker[v].task # Head(tasks) /\ worker'[v] = worker[v]
        BY <3>1, <3>2 DEF RunsOnce, Busy
      <4>4. \A i \in DOMAIN tasks' : \A v \in Busy' : worker'[v].task # tasks'[i]
        BY <3>1, <3>2, <4>2, <4>3 DEF RunsOnce
      <4>5. ran[Head(tasks)] = 0
        BY <3>1 DEF RunsOnce
      <4>6. \A u, v \in Busy' : worker'[u].task = worker'[v].task => u = v
        BY <3>2, <4>3 DEF RunsOnce
      <4>7. \A v \in Busy' : ran[worker'[v].task] = 0
        BY <3>2, <4>3, <4>5 DEF RunsOnce
      <4> QED
        BY <4>1, <4>2, <4>4, <4>6, <4>7 DEF RunsOnce
    <3>5. ShutdownOrder'
      BY <3>2 DEF ShutdownOrder, TypeOK
    <3>6. NoLostWakeup'
      BY <3>2 DEF NoLostWakeup
    <3> QED
      BY <3>3, <3>4, <3>5, <3>6
  <2> QED
    BY <2>1, <2>2, <2>3
<1>5. ASSUME NEW w \in Workers, Run(w) PROVE PoolInv'
  <2> USE <1>5 DEF Run, Becomes
  <2>1. w \in Busy /\ worker[w].task \in Tasks
    BY DEF TypeOK, Busy
  <2>2. /\ worker'[w] = [pc |-> "check", task |-> NoTask]
        /\ \A v \in Workers \ {w} : worker'[v] = worker[v]
        /\ Busy' = Busy \ {w}
    BY <2>1 DEF TypeOK, Busy
  <2>3. TypeOK'
    BY <2>1, <2>2 DEF TypeOK
  <2>4. ran'[worker[w].task] = 1 /\ \A t \in Tasks \ {worker[w].task} : ran'[t] = ran[t]
    BY <2>1 DEF TypeOK, RunsOnce
  <2>5. \A i \in DOMAIN tasks : tasks[i] \in Tasks \ {worker[w].task}
    BY <2>1 DEF RunsOnce, TypeOK
  <2>6. \A v \in Busy' : worker'[v] = worker[v] /\ worker[v].task \in Tasks \ {worker[w].task}
    BY <2>1, <2>2 DEF RunsOnce, TypeOK, Busy
  <2>7. RunsOnce'
    BY <2>2, <2>4, <2>5, <2>6 DEF RunsOnce
  <2>8. ShutdownOrder'
    BY <2>2 DEF ShutdownOrder, TypeOK
  <2>9. NoLostWakeup'
    BY <2>2 DEF NoLostWakeup
  <2> QED
    BY <2>3, <2>7, <2>8, <2>9
<1>6. CASE SetStop
  BY <1>6 DEF SetStop, TypeOK, RunsOnce, ShutdownOrder, NoLostWakeup, Busy
<1>7. CASE NotifyAll
  <2> USE <1>7 DEF NotifyAll
  <2>1. /\ TypeOK' /\ RunsOnce'
        /\ \A w \in Workers : worker'[w].pc = "exit" <=> worker[w].pc = "exit"
        /\ \A w \in Waiting : worker'[w].pc = "check"
        /\ \A w \in Workers \ Waiting : worker'[w] = worker[w]
    <3>1. caller' \in [Callers -> {"idle", "notify"}] /\ owner' \in {"alive", "notify", "join", "gone"}
      BY DEF TypeOK
    <3> QED
      BY <3>1, WakingKeepsTasks
  <2>2. ShutdownOrder'
    BY <2>1 DEF ShutdownOrder
  <2>3. NoLostWakeup'
    <3>1. \A w \in Workers : worker[w].pc \in {"check", "run"} => worker'[w].pc \in {"check", "run"}
      BY <2>1 DEF Waiting
    <3> QED
      BY <3>1 DEF NoLostWakeup
  <2> QED
    BY <2>1, <2>2, <2>3
<1>8. CASE Join
  BY <1>8 DEF Join, TypeOK, RunsOnce, ShutdownOrder, NoLostWakeup, Busy
<1>9. CASE UNCHANGED vars
  BY <1>9 DEF vars, TypeOK, RunsOnce, ShutdownOrder, NoLostWakeup, Busy
<1> QED
  BY <1>1, <1>2, <1>3, <1>4, <1>5, <1>6, <1>7, <1>8, <1>9 DEF Next
-----------------------------------------------------------------------------
(* The theorems *)

\* Whatever the number of workers, callers and tasks, the pool's variables keep their types,
\* no task runs twice or is in two places, no queued task is left to sleeping workers, and
\* workers leave only when the queue is empty.
THEOREM PoolCorrect == Spec => []PoolInv
<1> QED
  BY InitPool, NextPool, PTL DEF Spec

\* Every accepted task runs at most once.
THEOREM TasksRunOnce == Spec => []RunsOnce
<1>1. PoolInv => RunsOnce
  BY DEF PoolInv
<1> QED
  BY <1>1, PoolCorrect, PTL

\* No wakeup is lost: the condition variable is notified after the mutex is released, and
\* still a queued task always has a worker or a notification on its way to it.
THEOREM WakeupsReachWorkers == Spec => []NoLostWakeup
<1>1. PoolInv => NoLostWakeup
  BY DEF PoolInv
<1> QED
  BY <1>1, PoolCorrect, PTL

\* The destructor of the pool returns only when every accepted task has been run.
THEOREM DestructorDrains == Spec => []ShutdownDrains
<1>1. PoolInv => ShutdownDrains
  BY WorkersAssumption DEF PoolInv, ShutdownOrder, ShutdownDrains, Busy
<1> QED
  BY <1>1, PoolCorrect, PTL

\* A step of the pool is a step of the queue it promises, or none.
LEMMA StepImplements == PoolInv /\ PoolInv' /\ [Next]_vars => [Queue!TQNext]_Queue!tqVars
<1> DEFINE Now == [w \in Workers |-> worker[w].task]
           Goal == [Queue!TQNext]_Queue!tqVars
<1> SUFFICES ASSUME PoolInv, PoolInv', [Next]_vars
             PROVE  Goal
  OBVIOUS
<1> USE DEF PoolInv
<1>a. ASSUME UNCHANGED <<tasks, stop, ran>>, \A w \in Workers : worker'[w].task = worker[w].task
      PROVE  Goal
  <2>1. Now' = Now
    BY <1>a
  <2>2. Finished' = Finished
    BY <1>a DEF Finished
  <2> QED
    BY <1>a, <2>1, <2>2 DEF Queue!tqVars
<1>b. ASSUME NEW w \in Workers, NEW x, worker'[w].task = x,
             \A v \in Workers \ {w} : worker'[v] = worker[v]
      PROVE  Now' = [Now EXCEPT ![w] = x] /\ Now[w] = worker[w].task
  BY <1>b
<1>1. ASSUME NEW c \in Callers, NEW t \in Tasks, Enqueue(c, t) PROVE Goal
  <2>1. CASE stop
    BY <1>a, <1>1, <2>1 DEF Enqueue
  <2>2. CASE ~stop
    <3>1. ~Queue!Accepted(t)
      BY <1>1 DEF Enqueue, Enqueued, Queue!Accepted, Finished
    <3>2. Now' = Now /\ Finished' = Finished
      BY <1>1 DEF Enqueue, Finished
    <3>3. Queue!Accept(t)
      BY <1>1, <2>2, <3>1, <3>2 DEF Enqueue, Queue!Accept
    <3> QED
      BY <3>3 DEF Queue!TQNext
  <2> QED
    BY <2>1, <2>2
<1>2. ASSUME NEW ws \in SUBSET Waiting, worker' = Woken(ws), UNCHANGED <<tasks, stop, refused, ran>>
      PROVE  Goal
  <2>1. caller' \in [Callers -> {"idle", "notify"}] /\ owner' \in {"alive", "notify", "join", "gone"}
    BY DEF TypeOK
  <2>2. \A w \in Workers : worker'[w].task = worker[w].task
    BY <1>2, <2>1, WakingKeepsTasks
  <2> QED
    BY <1>a, <1>2, <2>2
<1>3. ASSUME NEW c \in Callers, NotifyOne(c) PROVE Goal
  <2>1. CASE Waiting = {} /\ worker' = worker
    BY <1>a, <1>3, <2>1 DEF NotifyOne
  <2>2. CASE \E w \in Waiting : worker' = Woken({w})
    BY <1>2, <1>3, <2>2 DEF NotifyOne
  <2> QED
    BY <1>3, <2>1, <2>2 DEF NotifyOne
<1>4. ASSUME NEW w \in Workers, SpuriousWakeup(w) PROVE Goal
  <2>1. {w} \in SUBSET Waiting
    BY <1>4 DEF SpuriousWakeup, Waiting
  <2> QED
    BY <1>2, <1>4, <2>1 DEF SpuriousWakeup
<1>5. ASSUME NEW w \in Workers, Check(w) PROVE Goal
  <2> USE <1>5 DEF Check, Becomes
  <2>1. worker[w].task = NoTask
    BY DEF TypeOK
  <2>2. CASE tasks = <<>> /\ UNCHANGED tasks
    <3>1. \A v \in Workers : worker'[v].task = worker[v].task
      BY <2>1, <2>2 DEF TypeOK
    <3> QED
      BY <1>a, <2>2, <3>1
  <2>3. CASE tasks # <<>> /\ Becomes(w, "run", Head(tasks)) /\ tasks' = Tail(tasks)
    <3>1. worker'[w].task = Head(tasks) /\ \A v \in Workers \ {w} : worker'[v] = worker[v]
      BY <2>3 DEF TypeOK
    <3>2. Now' = [Now EXCEPT ![w] = Head(tasks)] /\ Now[w] = NoTask
      BY <1>b, <2>1, <3>1
    <3>3. Finished' = Finished /\ stop' = stop
      BY DEF Finished
    <3>4. Queue!Start(w)
      BY <2>3, <3>2, <3>3 DEF Queue!Start
    <3> QED
      BY <3>4 DEF Queue!TQNext
  <2> QED
    BY <2>2, <2>3
<1>6. ASSUME NEW w \in Workers, Run(w) PROVE Goal
  <2> USE <1>6 DEF Run, Becomes
  <2>1. worker[w].task \in Tasks /\ worker[w].task # NoTask
    BY DEF TypeOK
  <2>2. worker'[w].task = NoTask /\ \A v \in Workers \ {w} : worker'[v] = worker[v]
    BY DEF TypeOK
  <2>3. Now' = [Now EXCEPT ![w] = NoTask] /\ Now[w] = worker[w].task
    BY <1>b, <2>2
  <2>4. Finished' = Finished \cup {worker[w].task}
    BY <2>1 DEF Finished, TypeOK
  <2>5. Queue!End(w)
    BY <2>1, <2>3, <2>4 DEF Queue!End
  <2> QED
    BY <2>5 DEF Queue!TQNext
<1>7. CASE SetStop
  <2>1. Now' = Now /\ Finished' = Finished
    BY <1>7 DEF SetStop, Finished
  <2>2. Queue!Stop
    <3>1. (~stop)' = FALSE
      <4>1. stop' = TRUE
        BY <1>7 DEF SetStop
      <4> QED
        BY <4>1
    <3> HIDE DEF Now
    <3> QED
      BY <1>7, <2>1, <3>1, Zenon DEF SetStop, Queue!Stop, Now
  <2> QED
    BY <2>2 DEF Queue!TQNext
<1>8. CASE NotifyAll
  BY <1>2, <1>8 DEF NotifyAll
<1>9. CASE Join \/ UNCHANGED vars
  BY <1>a, <1>9 DEF Join, vars
<1> HIDE DEF PoolInv, Goal
<1> QED
  BY <1>1, <1>3, <1>4, <1>5, <1>6, <1>7, <1>8, <1>9 DEF Next

\* The loader pool implements TaskQueue: tasks start in the order in which enqueue took
\* them, each on one worker and once, and a stopped pool takes no more.
THEOREM PoolImplementsQueue == Spec => ImplementsTaskQueue
<1>1. Init => Queue!TQInit
  BY DEF Init, Queue!TQInit, Finished
<1> QED
  BY <1>1, StepImplements, PoolCorrect, PTL DEF Spec, ImplementsTaskQueue, Queue!TQSpec
=============================================================================

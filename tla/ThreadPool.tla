------------------------------ MODULE ThreadPool ------------------------------
(***************************************************************************)
(* The pool of loader threads (common/ThreadPool.h): a queue under          *)
(* queue_mutex, a condition variable, a stop flag.  An action is one        *)
(* critical section of queue_mutex or one call on the condition variable,   *)
(* which the code makes after it has released the mutex.                    *)
(*                                                                         *)
(* Callers enqueue loads (FileActiveStatus::activateBlock).  The thread     *)
(* that drops the last reference to the pool runs the destructor.           *)
(***************************************************************************)
EXTENDS Naturals, Sequences, FiniteSets

CONSTANTS Workers,   \* the loader threads, Configuration::MAX_LOADER_THREADS of them
          Callers,   \* threads that enqueue
          Tasks,     \* loads; each is enqueued at most once
          NoTask

ASSUME NoTaskAssumption == NoTask \notin Tasks
ASSUME WorkersAssumption == IsFiniteSet(Workers) /\ Workers # {}

VARIABLES tasks,    \* the queue
          stop,     \* set by the destructor
          worker,   \* worker -> [pc, task]
          caller,   \* caller -> "idle" | "notify", between emplace and notify_one
          owner,    \* the destructor: "alive", "notify", "join", "gone"
          refused,  \* tasks whose enqueue threw
          ran       \* task -> how often it has ended (history)

vars == <<tasks, stop, worker, caller, owner, refused, ran>>

Enqueued(t) ==
  \/ \E i \in DOMAIN tasks : tasks[i] = t
  \/ \E w \in Workers : worker[w].task = t
  \/ ran[t] > 0

Init ==
  /\ tasks = <<>> /\ stop = FALSE
  /\ worker = [w \in Workers |-> [pc |-> "check", task |-> NoTask]]
  /\ caller = [c \in Callers |-> "idle"]
  /\ owner = "alive" /\ refused = {}
  /\ ran = [t \in Tasks |-> 0]

-----------------------------------------------------------------------------
(* enqueue *)

\* Mutant of Enqueue: a stopped pool still takes tasks.
EnqueueAlways(c, t) ==
  /\ caller[c] = "idle" /\ owner # "gone"
  /\ ~Enqueued(t) /\ t \notin refused
  /\ tasks' = Append(tasks, t) /\ caller' = [caller EXCEPT ![c] = "notify"]
  /\ UNCHANGED <<stop, worker, owner, refused, ran>>

\* Under the mutex: a stopped pool throws, else the task joins the queue.
Enqueue(c, t) ==
  /\ caller[c] = "idle" /\ owner # "gone"
  /\ ~Enqueued(t) /\ t \notin refused
  /\ \/ /\ stop
        /\ refused' = refused \cup {t}
        /\ UNCHANGED <<tasks, caller>>
     \/ /\ ~stop
        /\ tasks' = Append(tasks, t) /\ caller' = [caller EXCEPT ![c] = "notify"]
        /\ UNCHANGED refused
  /\ UNCHANGED <<stop, worker, owner, ran>>

Waiting == {w \in Workers : worker[w].pc = "wait"}
Woken(ws) ==
  [w \in Workers |-> IF w \in ws THEN [pc |-> "check", task |-> NoTask] ELSE worker[w]]

\* Mutant of NotifyOne: nobody is woken.
NotifyNobody(c) ==
  /\ caller[c] = "notify"
  /\ caller' = [caller EXCEPT ![c] = "idle"]
  /\ UNCHANGED <<tasks, stop, worker, owner, refused, ran>>

\* condition.notify_one(): any one of the threads that wait, if there is one.
NotifyOne(c) ==
  /\ caller[c] = "notify"
  /\ caller' = [caller EXCEPT ![c] = "idle"]
  /\ \/ Waiting = {} /\ worker' = worker
     \/ \E w \in Waiting : worker' = Woken({w})
  /\ UNCHANGED <<tasks, stop, owner, refused, ran>>

-----------------------------------------------------------------------------
(* The loop of a worker *)

Becomes(w, pc, t) == worker' = [worker EXCEPT ![w] = [pc |-> pc, task |-> t]]

\* Mutants of Check: the task is run but stays in the queue; a stopped pool drops its queue.
CheckKeepsTask(w) ==
  /\ worker[w].pc = "check"
  /\ \/ tasks = <<>> /\ ~stop /\ Becomes(w, "wait", NoTask)
     \/ tasks = <<>> /\ stop /\ Becomes(w, "exit", NoTask)
     \/ tasks # <<>> /\ Becomes(w, "run", Head(tasks))
  /\ UNCHANGED <<tasks, stop, caller, owner, refused, ran>>

CheckDropsQueue(w) ==
  /\ worker[w].pc = "check"
  /\ \/ tasks = <<>> /\ ~stop /\ Becomes(w, "wait", NoTask) /\ UNCHANGED tasks
     \/ stop /\ Becomes(w, "exit", NoTask) /\ UNCHANGED tasks
     \/ tasks # <<>> /\ ~stop /\ Becomes(w, "run", Head(tasks)) /\ tasks' = Tail(tasks)
  /\ UNCHANGED <<stop, caller, owner, refused, ran>>

\* Under the mutex: wait while there is nothing to do, leave when the pool is stopped and
\* the queue is empty, else take the oldest task.
Check(w) ==
  /\ worker[w].pc = "check"
  /\ \/ tasks = <<>> /\ ~stop /\ Becomes(w, "wait", NoTask) /\ UNCHANGED tasks
     \/ tasks = <<>> /\ stop /\ Becomes(w, "exit", NoTask) /\ UNCHANGED tasks
     \/ tasks # <<>> /\ Becomes(w, "run", Head(tasks)) /\ tasks' = Tail(tasks)
  /\ UNCHANGED <<stop, caller, owner, refused, ran>>

\* A condition variable may wake a thread for no reason.
SpuriousWakeup(w) ==
  /\ worker[w].pc = "wait" /\ worker' = Woken({w})
  /\ UNCHANGED <<tasks, stop, caller, owner, refused, ran>>

\* task(): a packaged_task keeps what the load throws.
Run(w) ==
  /\ worker[w].pc = "run"
  /\ ran' = [ran EXCEPT ![worker[w].task] = @ + 1]
  /\ Becomes(w, "check", NoTask)
  /\ UNCHANGED <<tasks, stop, caller, owner, refused>>

-----------------------------------------------------------------------------
(* The destructor *)

SetStop ==
  /\ owner = "alive" /\ stop' = TRUE /\ owner' = "notify"
  /\ UNCHANGED <<tasks, worker, caller, refused, ran>>

\* Mutant of NotifyAll: only one of the waiting threads is woken.
NotifyAllOne ==
  /\ owner = "notify" /\ owner' = "join"
  /\ \/ Waiting = {} /\ worker' = worker
     \/ \E w \in Waiting : worker' = Woken({w})
  /\ UNCHANGED <<tasks, stop, caller, refused, ran>>

NotifyAll ==
  /\ owner = "notify" /\ owner' = "join" /\ worker' = Woken(Waiting)
  /\ UNCHANGED <<tasks, stop, caller, refused, ran>>

\* Mutant of Join: the first worker to leave is enough.
JoinAny ==
  /\ owner = "join" /\ \E w \in Workers : worker[w].pc = "exit"
  /\ owner' = "gone"
  /\ UNCHANGED <<tasks, stop, worker, caller, refused, ran>>

\* worker.join() for all of them.
Join ==
  /\ owner = "join" /\ \A w \in Workers : worker[w].pc = "exit"
  /\ owner' = "gone"
  /\ UNCHANGED <<tasks, stop, worker, caller, refused, ran>>

-----------------------------------------------------------------------------
(* The specification *)

Next ==
  \/ \E c \in Callers : NotifyOne(c) \/ \E t \in Tasks : Enqueue(c, t)
  \/ \E w \in Workers : Check(w) \/ SpuriousWakeup(w) \/ Run(w)
  \/ SetStop \/ NotifyAll \/ Join

Spec == Init /\ [][Next]_vars

\* Threads keep running and loads end.  Callers need not enqueue, nobody has to stop the
\* pool, and the pool lives without spurious wakeups.
FairSpec ==
  /\ Spec
  /\ \A c \in Callers : WF_vars(NotifyOne(c))
  /\ \A w \in Workers : WF_vars(Check(w) \/ Run(w))
  /\ WF_vars(NotifyAll \/ Join)

-----------------------------------------------------------------------------
(* Properties *)

Busy == {w \in Workers : worker[w].pc = "run"}
Finished == {t \in Tasks : ran[t] > 0}

\* The pool implements the queue: with what runs now and what has ended read off the
\* workers, every step of enqueue, of the worker loop and of the destructor is a step of
\* TaskQueue or leaves it alone.
Queue == INSTANCE TaskQueue WITH Threads <- Workers, None <- NoTask,
           queue <- tasks, running <- [w \in Workers |-> worker[w].task],
           done <- Finished, open <- ~stop
ImplementsTaskQueue == Queue!TQSpec

\* Every variable has its type, and a worker has a task exactly while it runs it.
TypeOK ==
  /\ tasks \in Seq(Tasks) /\ stop \in BOOLEAN
  /\ worker \in [Workers -> [pc : {"check", "wait", "run", "exit"}, task : Tasks \cup {NoTask}]]
  /\ \A w \in Workers : worker[w].pc = "run" <=> worker[w].task # NoTask
  /\ caller \in [Callers -> {"idle", "notify"}]
  /\ owner \in {"alive", "notify", "join", "gone"}
  /\ refused \subseteq Tasks /\ ran \in [Tasks -> Nat]

\* A load is in one place at a time, the queue, one worker's hands or the past, and ends at
\* most once: two runs of loadBlock for one block would finish the same load twice.
RunsOnce ==
  /\ \A t \in Tasks : ran[t] <= 1
  /\ \A i, j \in DOMAIN tasks : tasks[i] = tasks[j] => i = j
  /\ \A v, w \in Busy : worker[v].task = worker[w].task => v = w
  /\ \A i \in DOMAIN tasks : ran[tasks[i]] = 0 /\ \A w \in Busy : worker[w].task # tasks[i]
  /\ \A w \in Busy : ran[worker[w].task] = 0

\* When the destructor returns nothing is left to run: every task that enqueue took has
\* ended, also one that was enqueued while the pool was being stopped.
ShutdownDrains == owner = "gone" => tasks = <<>> /\ Busy = {}

\* No sleeping thread is missed: while a task is queued and nobody has left to notify, some
\* worker is on its way to the queue or is running a task it will come back from.
NoLostWakeup ==
  tasks # <<>> =>
    \/ \E w \in Workers : worker[w].pc \in {"check", "run"}
    \/ \E c \in Callers : caller[c] = "notify"

\* A load that was accepted ends, whoever else enqueues and whenever the pool is stopped.
AcceptedTaskEnds == \A t \in Tasks : Enqueued(t) ~> ran[t] = 1

\* The destructor returns: no worker sleeps through stop.
DestructorReturns == stop ~> owner = "gone"
=============================================================================

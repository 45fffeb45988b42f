------------------------------- MODULE TaskQueue -------------------------------
(***************************************************************************)
(* What the loader pool promises to a file handle: a task that is accepted  *)
(* starts after the tasks accepted before it, runs exactly once on one of   *)
(* the threads, and runs even when the pool is told to stop first.  A pool  *)
(* that was told to stop accepts nothing more.                              *)
(***************************************************************************)
EXTENDS Sequences

CONSTANTS Tasks, Threads, None

VARIABLES queue,    \* accepted tasks that have not started, oldest first
          running,  \* thread -> the task it has started and not ended, or None
          done,     \* tasks that have ended
          open      \* FALSE once the pool was told to stop

tqVars == <<queue, running, done, open>>

Accepted(t) ==
  \/ \E i \in DOMAIN queue : queue[i] = t
  \/ \E th \in Threads : running[th] = t
  \/ t \in done

TQInit == queue = <<>> /\ running = [th \in Threads |-> None] /\ done = {} /\ open = TRUE

Accept(t) ==
  /\ open /\ ~Accepted(t)
  /\ queue' = Append(queue, t)
  /\ UNCHANGED <<running, done, open>>

Start(th) ==
  /\ queue # <<>> /\ running[th] = None
  /\ running' = [running EXCEPT ![th] = Head(queue)]
  /\ queue' = Tail(queue)
  /\ UNCHANGED <<done, open>>

End(th) ==
  /\ running[th] # None
  /\ running' = [running EXCEPT ![th] = None]
  /\ done' = done \cup {running[th]}
  /\ UNCHANGED <<queue, open>>

Stop ==
  /\ open' = FALSE
  /\ UNCHANGED <<queue, running, done>>

TQNext ==
  \/ \E t \in Tasks : Accept(t)
  \/ \E th \in Threads : Start(th) \/ End(th)
  \/ Stop

TQSpec == TQInit /\ [][TQNext]_tqVars
=============================================================================

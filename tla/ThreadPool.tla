----------------------------- MODULE ThreadPool -----------------------------
(***************************************************************************)
(* The worker pool of the calculation server: server/ThreadPool.hpp.       *)
(*                                                                         *)
(* The pool is a mutex (queue_mutex), one condition variable (condition)   *)
(* and the fields they protect.  Every block of the code that holds the    *)
(* mutex is one action here; what happens between two such blocks (running *)
(* a task, notifying) is an action of its own, so that threads interleave  *)
(* exactly where the code lets them.  A thread blocked in condition.wait   *)
(* is "wait"; a thread that notify_one, notify_all or a spurious wakeup    *)
(* released is back at "lock", where it re-acquires the mutex and          *)
(* evaluates the predicate again.                                          *)
(***************************************************************************)
EXTENDS Naturals, Sequences, FiniteSets

CONSTANTS Workers,     \* the worker threads
          Calls,       \* the calls of enqueue_with_status; a call makes one task
          MaxWaiting,  \* max_waiting_tasks
          NoTask       \* what a worker holds between two tasks

ASSUME PoolAssumption ==
  /\ IsFiniteSet(Workers) /\ Workers # {}
  /\ MaxWaiting \in Nat
  /\ NoTask \notin Calls

VARIABLES tasks,         \* the queue of waiting tasks
          active_tasks,  \* the counter of tasks being run
          stop,          \* the flag the destructor sets
          pc,            \* where each worker thread is
          task,          \* the local variable `task' of each worker
          call,          \* how far each call of enqueue_with_status has come
          will_wait,     \* the will_wait member of each call's result
          ready,         \* the calls whose future has its value
          dtor           \* how far the destructor has come

vars == <<tasks, active_tasks, stop, pc, task, call, will_wait, ready, dtor>>

At(l) == {w \in Workers : pc[w] = l}

Init ==
  /\ tasks = <<>>
  /\ active_tasks = 0
  /\ stop = FALSE
  /\ pc = [w \in Workers |-> "lock"]
  /\ task = [w \in Workers |-> NoTask]
  /\ call = [c \in Calls |-> "new"]
  /\ will_wait = [c \in Calls |-> FALSE]
  /\ ready = {}
  /\ dtor = "live"

-----------------------------------------------------------------------------
(* The worker loop.                                                        *)

\* The predicate is false: the worker releases the mutex and sleeps.
Sleep(w) ==
  /\ pc[w] = "lock"
  /\ ~stop
  /\ tasks = <<>>
  /\ pc' = [pc EXCEPT ![w] = "wait"]
  /\ UNCHANGED <<tasks, active_tasks, stop, task, call, will_wait, ready, dtor>>

\* Mutant of Exit: the loop ends as soon as `stop' is set, tasks or not.
ExitBeforeDrained(w) ==
  /\ pc[w] = "lock"
  /\ stop
  /\ pc' = [pc EXCEPT ![w] = "exit"]
  /\ UNCHANGED <<tasks, active_tasks, stop, task, call, will_wait, ready, dtor>>

Exit(w) ==
  /\ pc[w] = "lock"
  /\ stop
  /\ tasks = <<>>
  /\ pc' = [pc EXCEPT ![w] = "exit"]
  /\ UNCHANGED <<tasks, active_tasks, stop, task, call, will_wait, ready, dtor>>

\* Mutant of Take: the task is run from the front of the queue and popped later.
TakeWithoutPop(w) ==
  /\ pc[w] = "lock"
  /\ tasks # <<>>
  /\ task' = [task EXCEPT ![w] = Head(tasks)]
  /\ active_tasks' = active_tasks + 1
  /\ pc' = [pc EXCEPT ![w] = "run"]
  /\ UNCHANGED <<tasks, stop, call, will_wait, ready, dtor>>

\* Mutant of Take: the newest task is taken first.
TakeNewest(w) ==
  /\ pc[w] = "lock"
  /\ tasks # <<>>
  /\ task' = [task EXCEPT ![w] = tasks[Len(tasks)]]
  /\ tasks' = SubSeq(tasks, 1, Len(tasks) - 1)
  /\ active_tasks' = active_tasks + 1
  /\ pc' = [pc EXCEPT ![w] = "run"]
  /\ UNCHANGED <<stop, call, will_wait, ready, dtor>>

Take(w) ==
  /\ pc[w] = "lock"
  /\ tasks # <<>>
  /\ task' = [task EXCEPT ![w] = Head(tasks)]
  /\ tasks' = Tail(tasks)
  /\ active_tasks' = active_tasks + 1
  /\ pc' = [pc EXCEPT ![w] = "run"]
  /\ UNCHANGED <<stop, call, will_wait, ready, dtor>>

\* task() returns: the packaged_task has stored its value, or its exception,
\* in the shared state of the future, and the mutex is not held.
Run(w) ==
  /\ pc[w] = "run"
  /\ ready' = ready \cup {task[w]}
  /\ pc' = [pc EXCEPT ![w] = "retire"]
  /\ UNCHANGED <<tasks, active_tasks, stop, task, call, will_wait, dtor>>

\* Mutant of Retire: a task that ended with an exception skips --active_tasks.
RetireUncounted(w) ==
  /\ pc[w] = "retire"
  /\ task' = [task EXCEPT ![w] = NoTask]
  /\ pc' = [pc EXCEPT ![w] = "notify"]
  /\ UNCHANGED <<tasks, active_tasks, stop, call, will_wait, ready, dtor>>

\* Mutant of Retire: active_tasks is lowered once too often.
RetireTwice(w) ==
  /\ pc[w] = "retire"
  /\ active_tasks' = active_tasks - 2
  /\ task' = [task EXCEPT ![w] = NoTask]
  /\ pc' = [pc EXCEPT ![w] = "notify"]
  /\ UNCHANGED <<tasks, stop, call, will_wait, ready, dtor>>

Retire(w) ==
  /\ pc[w] = "retire"
  /\ active_tasks' = active_tasks - 1
  /\ task' = [task EXCEPT ![w] = NoTask]
  /\ pc' = [pc EXCEPT ![w] = "notify"]
  /\ UNCHANGED <<tasks, stop, call, will_wait, ready, dtor>>

\* condition.notify_all() and the next turn of the loop.
NotifyAll(w) ==
  /\ pc[w] = "notify"
  /\ pc' = [v \in Workers |-> IF pc[v] = "wait" \/ v = w THEN "lock" ELSE pc[v]]
  /\ UNCHANGED <<tasks, active_tasks, stop, task, call, will_wait, ready, dtor>>

\* The standard lets wait() return without a notification.
Spurious(w) ==
  /\ pc[w] = "wait"
  /\ pc' = [pc EXCEPT ![w] = "lock"]
  /\ UNCHANGED <<tasks, active_tasks, stop, task, call, will_wait, ready, dtor>>

Loop(w) == \/ Sleep(w) \/ Exit(w) \/ Take(w)
           \/ Run(w) \/ Retire(w) \/ NotifyAll(w)

-----------------------------------------------------------------------------
(* enqueue_with_status.  A pool that is destroyed is not called any more.  *)

RefuseStopped(c) ==
  /\ call[c] = "new"
  /\ dtor # "done"
  /\ stop
  /\ call' = [call EXCEPT ![c] = "stopped"]
  /\ UNCHANGED <<tasks, active_tasks, stop, pc, task, will_wait, ready, dtor>>

RefuseFull(c) ==
  /\ call[c] = "new"
  /\ ~stop
  /\ Len(tasks) >= MaxWaiting
  /\ call' = [call EXCEPT ![c] = "full"]
  /\ UNCHANGED <<tasks, active_tasks, stop, pc, task, will_wait, ready, dtor>>

\* Mutant of Accept: will_wait looks at the workers only, not at the queue.
AcceptIgnoringQueue(c) ==
  /\ call[c] = "new"
  /\ ~stop
  /\ Len(tasks) < MaxWaiting
  /\ will_wait' = [will_wait EXCEPT ![c] = active_tasks >= Cardinality(Workers)]
  /\ tasks' = Append(tasks, c)
  /\ call' = [call EXCEPT ![c] = "notify"]
  /\ UNCHANGED <<active_tasks, stop, pc, task, ready, dtor>>

\* Mutant of Accept: only the task that makes the queue non-empty notifies.
AcceptNotifyingFirst(c) ==
  /\ call[c] = "new"
  /\ ~stop
  /\ Len(tasks) < MaxWaiting
  /\ will_wait' = [will_wait EXCEPT
                     ![c] = tasks # <<>> \/ active_tasks >= Cardinality(Workers)]
  /\ tasks' = Append(tasks, c)
  /\ call' = [call EXCEPT ![c] = IF tasks = <<>> THEN "notify" ELSE "returned"]
  /\ UNCHANGED <<active_tasks, stop, pc, task, ready, dtor>>

Accept(c) ==
  /\ call[c] = "new"
  /\ ~stop
  /\ Len(tasks) < MaxWaiting
  /\ will_wait' = [will_wait EXCEPT
                     ![c] = tasks # <<>> \/ active_tasks >= Cardinality(Workers)]
  /\ tasks' = Append(tasks, c)
  /\ call' = [call EXCEPT ![c] = "notify"]
  /\ UNCHANGED <<active_tasks, stop, pc, task, ready, dtor>>

\* Mutant of NotifyOne: the notification is forgotten.
ReturnSilently(c) ==
  /\ call[c] = "notify"
  /\ call' = [call EXCEPT ![c] = "returned"]
  /\ UNCHANGED <<tasks, active_tasks, stop, pc, task, will_wait, ready, dtor>>

\* condition.notify_one(): some sleeping worker is released, if there is one.
NotifyOne(c) ==
  /\ call[c] = "notify"
  /\ call' = [call EXCEPT ![c] = "returned"]
  /\ \/ At("wait") = {} /\ pc' = pc
     \/ \E w \in At("wait") : pc' = [pc EXCEPT ![w] = "lock"]
  /\ UNCHANGED <<tasks, active_tasks, stop, task, will_wait, ready, dtor>>

-----------------------------------------------------------------------------
(* The destructor.                                                         *)

Stop ==
  /\ dtor = "live"
  /\ stop' = TRUE
  /\ dtor' = "notify"
  /\ UNCHANGED <<tasks, active_tasks, pc, task, call, will_wait, ready>>

\* Mutant of StopNotify: notify_one instead of notify_all.
StopNotifyOne ==
  /\ dtor = "notify"
  /\ \/ At("wait") = {} /\ pc' = pc
     \/ \E w \in At("wait") : pc' = [pc EXCEPT ![w] = "lock"]
  /\ dtor' = "join"
  /\ UNCHANGED <<tasks, active_tasks, stop, task, call, will_wait, ready>>

StopNotify ==
  /\ dtor = "notify"
  /\ pc' = [w \in Workers |-> IF pc[w] = "wait" THEN "lock" ELSE pc[w]]
  /\ dtor' = "join"
  /\ UNCHANGED <<tasks, active_tasks, stop, task, call, will_wait, ready>>

Join ==
  /\ dtor = "join"
  /\ \A w \in Workers : pc[w] = "exit"
  /\ dtor' = "done"
  /\ UNCHANGED <<tasks, active_tasks, stop, pc, task, call, will_wait, ready>>

-----------------------------------------------------------------------------

\* Nothing is left to do: the pool is gone and no call is inside it.
Terminated ==
  /\ dtor = "done"
  /\ \A c \in Calls : call[c] # "notify"
  /\ UNCHANGED vars

Next ==
  \/ \E w \in Workers : Loop(w) \/ Spurious(w)
  \/ \E c \in Calls : RefuseStopped(c) \/ RefuseFull(c) \/ Accept(c) \/ NotifyOne(c)
  \/ Stop \/ StopNotify \/ Join
  \/ Terminated

\* Every thread that is inside the pool's code keeps running; nobody is
\* obliged to submit work, to destroy the pool, or to wake up spuriously.
Fairness ==
  /\ \A w \in Workers : WF_vars(Loop(w))
  /\ \A c \in Calls : WF_vars(NotifyOne(c))
  /\ WF_vars(StopNotify) /\ WF_vars(Join)

Spec == Init /\ [][Next]_vars

FairSpec == Spec /\ Fairness

-----------------------------------------------------------------------------
(* Properties.                                                             *)

Accepted == {c \in Calls : call[c] \in {"notify", "returned"}}
InQueue == {tasks[i] : i \in DOMAIN tasks}
HeldBy(w) == IF pc[w] = "run" THEN {task[w]} ELSE {}

\* Type invariant of the pool's fields and of its threads' positions.
TypeOK ==
  /\ tasks \in Seq(Calls)
  /\ active_tasks \in Nat
  /\ stop \in BOOLEAN
  /\ pc \in [Workers -> {"lock", "wait", "run", "retire", "notify", "exit"}]
  /\ task \in [Workers -> Calls \cup {NoTask}]
  /\ call \in [Calls -> {"new", "notify", "returned", "full", "stopped"}]
  /\ will_wait \in [Calls -> BOOLEAN]
  /\ ready \subseteq Calls
  /\ dtor \in {"live", "notify", "join", "done"}

\* active_tasks, which enqueue_with_status compares with workers.size(), counts
\* exactly the workers that have taken a task and not yet retired it, although
\* it is raised and lowered in two critical sections of the worker loop.
ActiveTasksExact == active_tasks = Cardinality(At("run") \cup At("retire"))

\* An accepted task is in one place only: waiting once in the queue, held by one
\* worker, or finished; and a task in any of these places was accepted.  So no
\* task is lost, run twice or run after it was refused.
ExactlyOnce ==
  /\ \A i, j \in DOMAIN tasks : tasks[i] = tasks[j] => i = j
  /\ \A v, w \in Workers : v # w => HeldBy(v) \cap HeldBy(w) = {}
  /\ InQueue \cap ready = {}
  /\ \A w \in Workers : HeldBy(w) \cap (InQueue \cup ready) = {}
  /\ Accepted = InQueue \cup ready \cup UNION {HeldBy(w) : w \in Workers}

\* No lost wakeup, worker by worker: while some worker sleeps, each waiting task
\* has a wakeup of its own on the way, a call about to notify_one or a worker
\* about to look at the queue.  An idle worker never sleeps through queued work,
\* however the unlocked notify_one calls are delayed.
Notifying == {c \in Calls : call[c] = "notify"}
NoLostWakeup ==
  At("wait") # {} => Len(tasks) <= Cardinality(Notifying) + Cardinality(At("lock"))

\* A caller told that its task will not wait (will_wait = false) is told the
\* truth for as long as the task is queued: the task is the next to be taken and
\* some worker is not running anything.
NotWaitingIsTrue ==
  \A c \in InQueue : ~will_wait[c] => /\ c = Head(tasks)
                                      /\ active_tasks < Cardinality(Workers)

\* Once the destructor has joined the workers, every task accepted before it set
\* `stop' has been run and its future has a value: nobody waits for ever on a
\* future of a destroyed pool.
DrainedBeforeDestroyed == dtor = "done" => tasks = <<>> /\ Accepted \subseteq ready

\* The destructor's notify_all reaches everybody: no worker is asleep, or falls
\* asleep, while join() waits for it.
NobodySleepsInJoin == dtor \in {"join", "done"} => At("wait") = {}

\* The destructor terminates: it never waits for ever in join().
DestructorReturns == (dtor = "notify") ~> (dtor = "done")

-----------------------------------------------------------------------------
(* The service the pool provides.                                          *)

\* A task is in progress from the moment a worker takes it until task() returns.
Service == INSTANCE TaskService WITH
  Capacity <- Cardinality(Workers),
  line <- tasks,
  serving <- UNION {HeldBy(w) : w \in Workers},
  served <- ready,
  refused <- {c \in Calls : call[c] \in {"full", "stopped"}},
  open <- ~stop

\* The pool implements the abstract service: tasks start in the order in which
\* they were accepted, never more than the workers at a time, none is refused
\* without a reason, and each accepted one is served, after `stop' too.
ImplementsTaskService == Service!SSpec
=============================================================================

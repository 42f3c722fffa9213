------------------------- MODULE ThreadPool_proofs -------------------------
(***************************************************************************)
(* Theorems about the worker pool, for any set of workers, any set of      *)
(* calls and any capacity of the queue.                                    *)
(***************************************************************************)
EXTENDS ThreadPool, FiniteSetTheorems, TLAPS

\* The workers between ++active_tasks and --active_tasks.
Busy == At("run") \cup At("retire")

\* A worker holds a task exactly while it is counted as active.
Holding == \A w \in Workers : w \in Busy <=> task[w] # NoTask

\* The strengthening of TypeOK that is inductive: active_tasks stays in Nat only
\* because it counts the busy workers, ready stays a set of calls only because a
\* running worker holds one.
CoreInv == TypeOK /\ Holding /\ ActiveTasksExact

LEMMA BusyFinite == IsFiniteSet(Busy) /\ Cardinality(Busy) \in Nat
<1>1. Busy \subseteq Workers
  BY DEF Busy, At
<1> QED
  BY <1>1, PoolAssumption, FS_Subset, FS_CardinalityType DEF PoolAssumption

LEMMA InitCore == Init => CoreInv
<1> SUFFICES ASSUME Init PROVE CoreInv
  OBVIOUS
<1>1. tasks \in Seq(Calls) /\ active_tasks \in Nat
  BY DEF Init
<1>0. stop \in BOOLEAN
  BY DEF Init
<1>2. /\ pc \in [Workers -> {"lock", "wait", "run", "retire", "notify", "exit"}]
      /\ dtor \in {"live", "notify", "join", "done"}
  BY DEF Init
<1>3. /\ task \in [Workers -> Calls \cup {NoTask}]
      /\ ready \subseteq Calls
  BY DEF Init
<1>4. /\ call \in [Calls -> {"new", "notify", "returned", "full", "stopped"}]
      /\ will_wait \in [Calls -> BOOLEAN]
  BY DEF Init
<1>5. Busy = {}
  BY DEF Init, Busy, At
<1>6. ActiveTasksExact
  BY <1>5, FS_EmptySet DEF ActiveTasksExact, Busy, Init
<1>7. Holding
  BY <1>5 DEF Holding, Init
<1> QED
  BY <1>0, <1>1, <1>2, <1>3, <1>4, <1>6, <1>7 DEF CoreInv, TypeOK

\* The steps that leave active_tasks and the set of busy workers alone.
LEMMA QuietStep ==
  ASSUME CoreInv, TypeOK', Busy' = Busy, task' = task, active_tasks' = active_tasks
  PROVE  CoreInv'
<1>1. Holding'
  BY DEF CoreInv, Holding
<1>2. ActiveTasksExact'
  BY DEF CoreInv, ActiveTasksExact, Busy
<1> QED
  BY <1>1, <1>2 DEF CoreInv

LEMMA NextCore == CoreInv /\ [Next]_vars => CoreInv'
<1> SUFFICES ASSUME CoreInv, [Next]_vars
             PROVE  CoreInv'
  OBVIOUS
<1>t. TypeOK
  BY DEF CoreInv
<1>1. ASSUME NEW w \in Workers, Sleep(w) \/ Exit(w) \/ Spurious(w) \/ NotifyAll(w)
      PROVE  CoreInv'
  <2>1. TypeOK'
    BY <1>t, <1>1 DEF TypeOK, Sleep, Exit, Spurious, NotifyAll
  <2>2. Busy' = Busy
    BY <1>t, <1>1 DEF TypeOK, Sleep, Exit, Spurious, NotifyAll, Busy, At
  <2>3. task' = task /\ active_tasks' = active_tasks
    BY <1>1 DEF Sleep, Exit, Spurious, NotifyAll
  <2> QED
    BY <2>1, <2>2, <2>3, QuietStep
<1>2. ASSUME NEW w \in Workers, Take(w)
      PROVE  CoreInv'
  <2>1. TypeOK'
    BY <1>t, <1>2 DEF TypeOK, Take
  <2>2. w \notin Busy /\ Busy' = Busy \cup {w}
    BY <1>t, <1>2 DEF TypeOK, Take, Busy, At
  <2>3. Cardinality(Busy') = Cardinality(Busy) + 1
    BY <2>2, BusyFinite, FS_AddElement
  <2>4. ActiveTasksExact'
    BY <1>2, <2>3 DEF CoreInv, ActiveTasksExact, Busy, Take
  <2>5. task'[w] # NoTask
    BY <1>t, <1>2, PoolAssumption DEF TypeOK, Take, PoolAssumption
  <2>6. Holding'
    BY <1>t, <1>2, <2>2, <2>5 DEF CoreInv, Holding, TypeOK, Take
  <2> QED
    BY <2>1, <2>4, <2>6 DEF CoreInv
<1>3. ASSUME NEW w \in Workers, Run(w)
      PROVE  CoreInv'
  <2>1. task[w] \in Calls
    BY <1>t, <1>3 DEF CoreInv, Holding, TypeOK, Run, Busy, At
  <2>2. TypeOK'
    BY <1>t, <1>3, <2>1 DEF TypeOK, Run
  <2>3. Busy' = Busy
    BY <1>t, <1>3 DEF TypeOK, Run, Busy, At
  <2> QED
    BY <1>3, <2>2, <2>3, QuietStep DEF Run
<1>4. ASSUME NEW w \in Workers, Retire(w)
      PROVE  CoreInv'
  <2>1. w \in Busy /\ Busy' = Busy \ {w}
    BY <1>t, <1>4 DEF TypeOK, Retire, Busy, At
  <2>2. Cardinality(Busy') = Cardinality(Busy) - 1
    BY <2>1, BusyFinite, FS_RemoveElement
  <2>3. IsFiniteSet(Busy') /\ Cardinality(Busy') \in Nat
    BY <2>1, BusyFinite, FS_RemoveElement, FS_CardinalityType
  <2>4. ActiveTasksExact' /\ active_tasks' \in Nat
    BY <1>4, <2>2, <2>3 DEF CoreInv, ActiveTasksExact, Busy, Retire
  <2>5. TypeOK'
    BY <1>t, <1>4, <2>4 DEF TypeOK, Retire
  <2>6. Holding'
    BY <1>t, <1>4, <2>1 DEF CoreInv, Holding, TypeOK, Retire
  <2> QED
    BY <2>4, <2>5, <2>6 DEF CoreInv
<1>5. ASSUME NEW c \in Calls, RefuseStopped(c) \/ RefuseFull(c)
      PROVE  CoreInv'
  <2>1. TypeOK'
    BY <1>t, <1>5 DEF TypeOK, RefuseStopped, RefuseFull
  <2> QED
    BY <1>5, <2>1, QuietStep DEF RefuseStopped, RefuseFull, Busy, At
<1>6. ASSUME NEW c \in Calls, Accept(c)
      PROVE  CoreInv'
  <2>1. TypeOK'
    BY <1>t, <1>6 DEF TypeOK, Accept
  <2> QED
    BY <1>6, <2>1, QuietStep DEF Accept, Busy, At
<1>7. ASSUME NEW c \in Calls, NotifyOne(c)
      PROVE  CoreInv'
  <2>1. TypeOK'
    BY <1>t, <1>7 DEF TypeOK, NotifyOne, At
  <2>2. Busy' = Busy
    BY <1>t, <1>7 DEF TypeOK, NotifyOne, Busy, At
  <2> QED
    BY <1>7, <2>1, <2>2, QuietStep DEF NotifyOne
<1>8. ASSUME Stop \/ StopNotify \/ Join
      PROVE  CoreInv'
  <2>1. TypeOK'
    BY <1>t, <1>8 DEF TypeOK, Stop, StopNotify, Join
  <2>2. Busy' = Busy
    BY <1>t, <1>8 DEF TypeOK, Stop, StopNotify, Join, Busy, At
  <2> QED
    BY <1>8, <2>1, <2>2, QuietStep DEF Stop, StopNotify, Join
<1>9. CASE UNCHANGED vars
  BY <1>9 DEF vars, CoreInv, TypeOK, Holding, ActiveTasksExact, Busy, At
<1> QED
  BY <1>1, <1>2, <1>3, <1>4, <1>5, <1>6, <1>7, <1>8, <1>9
     DEF Next, Loop, Terminated

LEMMA Core == Spec => []CoreInv
  BY InitCore, NextCore, PTL DEF Spec

(***************************************************************************)
(* Type correctness of the pool: its fields, the positions of its threads  *)
(* and the results it hands out always have their types.                   *)
(***************************************************************************)
THEOREM TypeCorrect == Spec => []TypeOK
<1>1. CoreInv => TypeOK
  BY DEF CoreInv
<1> QED
  BY <1>1, Core, PTL

(***************************************************************************)
(* The counter enqueue_with_status compares with workers.size() is exact   *)
(* in every state, whatever the interleaving of the two critical sections  *)
(* that raise and lower it.                                                *)
(***************************************************************************)
THEOREM ActiveTasksCorrect == Spec => []ActiveTasksExact
<1>1. CoreInv => ActiveTasksExact
  BY DEF CoreInv
<1> QED
  BY <1>1, Core, PTL

-----------------------------------------------------------------------------
(* Sequences without repetitions, as the queue of tasks is one.            *)

Elements(s) == {s[i] : i \in DOMAIN s}
NoRepeats(s) == \A i, j \in DOMAIN s : s[i] = s[j] => i = j

\* Taking the first element off such a sequence.
LEMMA TakeFirst ==
  ASSUME NEW s \in Seq(Calls), s # <<>>, NoRepeats(s)
  PROVE  /\ NoRepeats(Tail(s))
         /\ Elements(Tail(s)) = Elements(s) \ {Head(s)}
         /\ Head(s) \in Elements(s)
<1> DEFINE t == Tail(s)
<1>1. /\ Len(t) = Len(s) - 1 /\ Len(s) \in Nat /\ Len(s) > 0
      /\ DOMAIN s = 1..Len(s) /\ DOMAIN t = 1..Len(t) /\ Head(s) = s[1]
      /\ \A i \in 1..Len(t) : t[i] = s[i + 1]
  OBVIOUS
<1>2. NoRepeats(t)
  <2> SUFFICES ASSUME NEW i \in DOMAIN t, NEW j \in DOMAIN t, t[i] = t[j]
               PROVE  i = j
    BY DEF NoRepeats
  <2>1. i + 1 \in DOMAIN s /\ j + 1 \in DOMAIN s /\ s[i + 1] = s[j + 1]
    BY <1>1
  <2> QED
    BY <1>1, <2>1 DEF NoRepeats
<1>3. ASSUME NEW x \in Elements(t)
      PROVE  x \in Elements(s) \ {Head(s)}
  <2>1. PICK i \in DOMAIN t : x = t[i]
    BY DEF Elements
  <2>2. i + 1 \in DOMAIN s /\ x = s[i + 1] /\ i + 1 # 1 /\ 1 \in DOMAIN s
    BY <1>1, <2>1
  <2> QED
    BY <1>1, <2>2 DEF Elements, NoRepeats
<1>4. ASSUME NEW x \in Elements(s) \ {Head(s)}
      PROVE  x \in Elements(t)
  <2>1. PICK i \in DOMAIN s : x = s[i]
    BY DEF Elements
  <2>2. i # 1
    BY <1>1, <2>1, <1>4
  <2>3. i - 1 \in DOMAIN t /\ (i - 1) + 1 = i
    BY <1>1, <2>2
  <2>4. x = t[i - 1]
    BY <1>1, <2>1, <2>3
  <2> QED
    BY <2>3, <2>4 DEF Elements
<1>5. Head(s) \in Elements(s)
  BY <1>1 DEF Elements
<1> HIDE DEF t
<1>6. Elements(t) = Elements(s) \ {Head(s)}
  BY <1>3, <1>4
<1> QED
  BY <1>2, <1>5, <1>6 DEF t

\* Adding an element that is not in it.
LEMMA AddLast ==
  ASSUME NEW s \in Seq(Calls), NEW c \in Calls, c \notin Elements(s), NoRepeats(s)
  PROVE  /\ NoRepeats(Append(s, c))
         /\ Elements(Append(s, c)) = Elements(s) \cup {c}
         /\ s # <<>> => Head(Append(s, c)) = Head(s)
         /\ s = <<>> => Head(Append(s, c)) = c
<1> DEFINE t == Append(s, c)
<1>1. /\ Len(s) \in Nat /\ DOMAIN s = 1..Len(s) /\ DOMAIN t = 1..(Len(s) + 1)
      /\ t[Len(s) + 1] = c /\ \A i \in 1..Len(s) : t[i] = s[i]
  OBVIOUS
<1>2. NoRepeats(t)
  BY <1>1 DEF NoRepeats, Elements
<1>3. Elements(t) = Elements(s) \cup {c}
  BY <1>1 DEF Elements
<1>4. (s # <<>> => Head(t) = Head(s)) /\ (s = <<>> => Head(t) = c)
  OBVIOUS
<1> QED
  BY <1>2, <1>3, <1>4

-----------------------------------------------------------------------------
(* The places of the tasks.                                                *)

\* The steps that move no task.
LEMMA NoTaskMoves ==
  ASSUME ExactlyOnce, tasks' = tasks, ready' = ready, Accepted' = Accepted,
         \A w \in Workers : HeldBy(w)' = HeldBy(w)
  PROVE  ExactlyOnce'
<1>1. InQueue' = InQueue
  BY DEF InQueue
<1>2. (UNION {HeldBy(w) : w \in Workers})' = UNION {HeldBy(w) : w \in Workers}
  OBVIOUS
<1> QED
  BY <1>1, <1>2 DEF ExactlyOnce

\* What a step has to do to the places of the tasks to keep each in one place.
LEMMA NextOnce == CoreInv /\ ExactlyOnce /\ [Next]_vars => ExactlyOnce'
<1> SUFFICES ASSUME CoreInv, ExactlyOnce, [Next]_vars
             PROVE  ExactlyOnce'
  OBVIOUS
<1>t. TypeOK
  BY DEF CoreInv
<1>1. ASSUME NEW w \in Workers,
             Sleep(w) \/ Exit(w) \/ Spurious(w) \/ NotifyAll(w) \/ Retire(w)
      PROVE  ExactlyOnce'
  <2>1. tasks' = tasks /\ ready' = ready /\ call' = call
    BY <1>1 DEF Sleep, Exit, Spurious, NotifyAll, Retire
  <2>2. \A v \in Workers : HeldBy(v)' = HeldBy(v)
    BY <1>t, <1>1 DEF TypeOK, Sleep, Exit, Spurious, NotifyAll, Retire, HeldBy
  <2> QED
    BY <2>1, <2>2, NoTaskMoves DEF Accepted
<1>2. ASSUME NEW w \in Workers, Take(w)
      PROVE  ExactlyOnce'
  <2>1. /\ tasks \in Seq(Calls) /\ tasks # <<>> /\ tasks' = Tail(tasks)
        /\ ready' = ready /\ Accepted' = Accepted
    BY <1>t, <1>2 DEF TypeOK, Take, Accepted
  <2>2. /\ NoRepeats(tasks')
        /\ InQueue' = InQueue \ {Head(tasks)}
        /\ Head(tasks) \in InQueue
    <3>1. NoRepeats(tasks) /\ InQueue = Elements(tasks) /\ InQueue' = Elements(tasks')
      BY DEF ExactlyOnce, NoRepeats, InQueue, Elements
    <3> QED
      BY <2>1, <3>1, TakeFirst
  <2>3. /\ HeldBy(w) = {} /\ HeldBy(w)' = {Head(tasks)}
        /\ \A v \in Workers : v # w => HeldBy(v)' = HeldBy(v)
    BY <1>t, <1>2 DEF TypeOK, Take, HeldBy
  <2>4. \A u, v \in Workers : u # v => HeldBy(u)' \cap HeldBy(v)' = {}
    BY <2>2, <2>3 DEF ExactlyOnce
  <2>5. \A v \in Workers : HeldBy(v)' \cap (InQueue' \cup ready') = {}
    BY <2>1, <2>2, <2>3 DEF ExactlyOnce
  <2>6. (UNION {HeldBy(v) : v \in Workers})'
          = (UNION {HeldBy(v) : v \in Workers}) \cup {Head(tasks)}
    BY <2>3
  <2>7. Accepted' = (InQueue \cup ready \cup UNION {HeldBy(v) : v \in Workers})'
    BY <2>1, <2>2, <2>6 DEF ExactlyOnce
  <2>8. InQueue' \cap ready' = {}
    BY <2>1, <2>2 DEF ExactlyOnce
  <2> QED
    BY <2>2, <2>4, <2>5, <2>7, <2>8 DEF ExactlyOnce, NoRepeats
<1>3. ASSUME NEW w \in Workers, Run(w)
      PROVE  ExactlyOnce'
  <2>1. /\ tasks' = tasks /\ InQueue' = InQueue /\ Accepted' = Accepted
        /\ ready' = ready \cup {task[w]}
    BY <1>3 DEF Run, InQueue, Accepted
  <2>2. /\ HeldBy(w) = {task[w]} /\ HeldBy(w)' = {}
        /\ \A v \in Workers : v # w => HeldBy(v)' = HeldBy(v)
    BY <1>t, <1>3 DEF TypeOK, Run, HeldBy
  <2>3. \A u, v \in Workers : u # v => HeldBy(u)' \cap HeldBy(v)' = {}
    BY <2>2 DEF ExactlyOnce
  <2>4. \A v \in Workers : HeldBy(v)' \cap (InQueue' \cup ready') = {}
    BY <2>1, <2>2 DEF ExactlyOnce
  <2>5. InQueue' \cap ready' = {}
    BY <2>1, <2>2 DEF ExactlyOnce
  <2>6. UNION {HeldBy(v) : v \in Workers}
          = (UNION {HeldBy(v) : v \in Workers})' \cup {task[w]}
    BY <2>2
  <2>7. Accepted' = (InQueue \cup ready \cup UNION {HeldBy(v) : v \in Workers})'
    BY <2>1, <2>6 DEF ExactlyOnce
  <2> QED
    BY <2>1, <2>3, <2>4, <2>5, <2>7 DEF ExactlyOnce
<1>4. ASSUME NEW c \in Calls, RefuseStopped(c) \/ RefuseFull(c) \/ NotifyOne(c)
      PROVE  ExactlyOnce'
  <2>1. tasks' = tasks /\ ready' = ready /\ task' = task
    BY <1>4 DEF RefuseStopped, RefuseFull, NotifyOne
  <2>2. Accepted' = Accepted
    BY <1>t, <1>4 DEF TypeOK, RefuseStopped, RefuseFull, NotifyOne, Accepted
  <2>3. \A v \in Workers : HeldBy(v)' = HeldBy(v)
    BY <1>t, <1>4 DEF TypeOK, RefuseStopped, RefuseFull, NotifyOne, HeldBy, At
  <2> QED
    BY <2>1, <2>2, <2>3, NoTaskMoves
<1>5. ASSUME NEW c \in Calls, Accept(c)
      PROVE  ExactlyOnce'
  <2>1. /\ c \notin Accepted /\ Accepted' = Accepted \cup {c}
        /\ tasks \in Seq(Calls) /\ tasks' = Append(tasks, c) /\ ready' = ready
    BY <1>t, <1>5 DEF TypeOK, Accept, Accepted
  <2>2. /\ c \notin InQueue /\ c \notin ready
        /\ \A v \in Workers : c \notin HeldBy(v)
    BY <2>1 DEF ExactlyOnce
  <2>3. /\ NoRepeats(tasks')
        /\ InQueue' = InQueue \cup {c}
    <3>1. NoRepeats(tasks) /\ InQueue = Elements(tasks) /\ InQueue' = Elements(tasks')
      BY DEF ExactlyOnce, NoRepeats, InQueue, Elements
    <3> QED
      BY <2>1, <2>2, <3>1, AddLast
  <2>4. \A v \in Workers : HeldBy(v)' = HeldBy(v)
    BY <1>5 DEF Accept, HeldBy
  <2>5. (UNION {HeldBy(v) : v \in Workers})' = UNION {HeldBy(v) : v \in Workers}
    BY <2>4
  <2>6. Accepted' = (InQueue \cup ready \cup UNION {HeldBy(v) : v \in Workers})'
    BY <2>1, <2>3, <2>5 DEF ExactlyOnce
  <2>7. InQueue' \cap ready' = {}
    BY <2>1, <2>2, <2>3 DEF ExactlyOnce
  <2>8. \A v \in Workers : HeldBy(v)' \cap (InQueue' \cup ready') = {}
    BY <2>1, <2>2, <2>3, <2>4 DEF ExactlyOnce
  <2>9. \A u, v \in Workers : u # v => HeldBy(u)' \cap HeldBy(v)' = {}
    BY <2>4 DEF ExactlyOnce
  <2> QED
    BY <2>3, <2>6, <2>7, <2>8, <2>9 DEF ExactlyOnce, NoRepeats
<1>6. ASSUME Stop \/ StopNotify \/ Join \/ UNCHANGED vars
      PROVE  ExactlyOnce'
  <2>1. tasks' = tasks /\ ready' = ready /\ call' = call /\ task' = task
    BY <1>6 DEF Stop, StopNotify, Join, vars
  <2>2. \A v \in Workers : HeldBy(v)' = HeldBy(v)
    BY <1>t, <1>6 DEF TypeOK, Stop, StopNotify, Join, vars, HeldBy
  <2> QED
    BY <2>1, <2>2, NoTaskMoves DEF Accepted
<1> QED
  BY <1>1, <1>2, <1>3, <1>4, <1>5, <1>6 DEF Next, Loop, Terminated

LEMMA InitOnce == Init => ExactlyOnce
<1> SUFFICES ASSUME Init PROVE ExactlyOnce
  OBVIOUS
<1>1. InQueue = {} /\ ready = {} /\ Accepted = {}
  BY DEF Init, InQueue, Accepted
<1>2. \A w \in Workers : HeldBy(w) = {}
  BY DEF Init, HeldBy
<1>3. \A i, j \in DOMAIN tasks : tasks[i] = tasks[j] => i = j
  BY DEF Init
<1> QED
  BY <1>1, <1>2, <1>3 DEF ExactlyOnce

(***************************************************************************)
(* No accepted task is lost, duplicated, run by two workers or run again,  *)
(* and no refused call is ever run: enqueue_with_status and the worker     *)
(* loop pass each task along the queue exactly once.                       *)
(***************************************************************************)
THEOREM ExactlyOnceCorrect == Spec => []ExactlyOnce
  BY Core, InitOnce, NextOnce, PTL DEF Spec

-----------------------------------------------------------------------------
(* What the caller is told.                                                *)

LEMMA NextTruth ==
  CoreInv /\ ExactlyOnce /\ NotWaitingIsTrue /\ [Next]_vars => NotWaitingIsTrue'
<1> SUFFICES ASSUME CoreInv, ExactlyOnce, NotWaitingIsTrue, [Next]_vars
             PROVE  NotWaitingIsTrue'
  OBVIOUS
<1>t. TypeOK
  BY DEF CoreInv
<1>e. /\ NoRepeats(tasks) /\ InQueue = Elements(tasks)
      /\ InQueue' = Elements(tasks')
  BY DEF ExactlyOnce, NoRepeats, InQueue, Elements
<1>1. ASSUME tasks' = tasks, will_wait' = will_wait, active_tasks' = active_tasks
      PROVE  NotWaitingIsTrue'
  BY <1>1 DEF NotWaitingIsTrue, InQueue
\* The task taken is the only one in the queue that may have been promised not
\* to wait.
<1>2. ASSUME NEW w \in Workers, Take(w)
      PROVE  NotWaitingIsTrue'
  <2>1. InQueue' = InQueue \ {Head(tasks)} /\ will_wait' = will_wait
    BY <1>t, <1>e, <1>2, TakeFirst DEF Take, TypeOK
  <2>2. \A c \in InQueue' : will_wait'[c]
    BY <2>1 DEF NotWaitingIsTrue
  <2> QED
    BY <2>2 DEF NotWaitingIsTrue
<1>3. ASSUME NEW w \in Workers, Retire(w)
      PROVE  NotWaitingIsTrue'
  <2>1. /\ active_tasks \in Nat /\ active_tasks' = active_tasks - 1
        /\ Cardinality(Workers) \in Nat
    BY <1>t, <1>3, PoolAssumption, FS_CardinalityType
       DEF Retire, TypeOK, PoolAssumption
  <2>2. tasks' = tasks /\ will_wait' = will_wait /\ InQueue' = InQueue
    BY <1>3 DEF Retire, InQueue
  <2>3. active_tasks < Cardinality(Workers) => active_tasks' < Cardinality(Workers)
    BY <2>1
  <2> QED
    BY <2>2, <2>3 DEF NotWaitingIsTrue
<1>4. ASSUME NEW c \in Calls, Accept(c)
      PROVE  NotWaitingIsTrue'
  <2>1. c \notin Accepted
    BY <1>4 DEF Accept, Accepted
  <2>2. c \notin InQueue
    BY <2>1 DEF ExactlyOnce
  <2>3. /\ InQueue' = InQueue \cup {c}
        /\ tasks # <<>> => Head(tasks') = Head(tasks)
        /\ tasks = <<>> => Head(tasks') = c
    BY <1>t, <1>e, <1>4, <2>2, AddLast DEF Accept, TypeOK
  <2>4. /\ active_tasks' = active_tasks
        /\ \A d \in Calls : d # c => will_wait'[d] = will_wait[d]
        /\ ~will_wait'[c] => tasks = <<>> /\ active_tasks < Cardinality(Workers)
    <3>1. active_tasks \in Nat /\ Cardinality(Workers) \in Nat
      BY <1>t, PoolAssumption, FS_CardinalityType DEF TypeOK, PoolAssumption
    <3>2. ~(active_tasks >= Cardinality(Workers)) => active_tasks < Cardinality(Workers)
      BY <3>1
    <3>3. /\ will_wait' = [will_wait EXCEPT
                             ![c] = tasks # <<>> \/ active_tasks >= Cardinality(Workers)]
          /\ active_tasks' = active_tasks /\ will_wait \in [Calls -> BOOLEAN]
      BY <1>t, <1>4 DEF Accept, TypeOK
    <3> QED
      BY <3>2, <3>3, Zenon
  <2>5. InQueue \subseteq Calls /\ (tasks = <<>> => InQueue = {})
    BY <1>t DEF TypeOK, InQueue
  <2>6. ASSUME NEW d \in InQueue', ~will_wait'[d]
        PROVE  d = Head(tasks') /\ active_tasks' < Cardinality(Workers)
    <3>1. CASE d = c
      BY <2>3, <2>4, <2>6, <3>1
    <3>2. CASE d # c
      BY <2>3, <2>4, <2>5, <2>6, <3>2 DEF NotWaitingIsTrue
    <3> QED
      BY <3>1, <3>2
  <2> QED
    BY <2>6 DEF NotWaitingIsTrue
<1>5. ASSUME NEW w \in Workers, Sleep(w) \/ Exit(w) \/ Run(w) \/ NotifyAll(w) \/ Spurious(w)
      PROVE  NotWaitingIsTrue'
  BY <1>1, <1>5 DEF Sleep, Exit, Run, NotifyAll, Spurious
<1>6. ASSUME NEW c \in Calls, RefuseStopped(c) \/ RefuseFull(c) \/ NotifyOne(c)
      PROVE  NotWaitingIsTrue'
  BY <1>1, <1>6 DEF RefuseStopped, RefuseFull, NotifyOne
<1>7. ASSUME Stop \/ StopNotify \/ Join \/ UNCHANGED vars
      PROVE  NotWaitingIsTrue'
  BY <1>1, <1>7 DEF Stop, StopNotify, Join, vars
<1> QED
  BY <1>2, <1>3, <1>4, <1>5, <1>6, <1>7 DEF Next, Loop, Terminated

(***************************************************************************)
(* A caller whose EnqueueResult says will_wait = false is told the truth   *)
(* for as long as its task is queued: the answer computed in one critical  *)
(* section is not made stale by what other threads do later.               *)
(***************************************************************************)
THEOREM NotWaitingCorrect == Spec => []NotWaitingIsTrue
<1>1. Init => NotWaitingIsTrue
  BY DEF Init, NotWaitingIsTrue, InQueue
<1> QED
  BY <1>1, Core, ExactlyOnceCorrect, NextTruth, PTL DEF Spec

-----------------------------------------------------------------------------
(* Wakeups.                                                                *)

\* The calls that have not notified yet are finitely many, since each step adds
\* at most one: Calls itself may be infinite.
WakeInv == IsFiniteSet(Notifying) /\ NoLostWakeup

\* While no worker sleeps there is nothing to show.
LEMMA NobodySleeps ==
  ASSUME At("wait") = {} PROVE NoLostWakeup
  BY DEF NoLostWakeup

LEMMA LockFinite == IsFiniteSet(At("lock")) /\ Cardinality(At("lock")) \in Nat
<1>1. At("lock") \subseteq Workers
  BY DEF At
<1> QED
  BY <1>1, PoolAssumption, FS_Subset, FS_CardinalityType DEF PoolAssumption

LEMMA NextWake == TypeOK /\ WakeInv /\ [Next]_vars => WakeInv'
<1> SUFFICES ASSUME TypeOK, WakeInv, [Next]_vars
             PROVE  WakeInv'
  OBVIOUS
<1>n. Cardinality(Notifying) \in Nat /\ Cardinality(At("lock")) \in Nat
  BY LockFinite, FS_CardinalityType DEF WakeInv
<1>q. Len(tasks) \in Nat
  BY DEF TypeOK
\* Steps that do not touch the queue, the calls' progress or the two sets.
<1>1. ASSUME tasks' = tasks, Notifying' = Notifying,
             At("wait")' = At("wait"), At("lock")' = At("lock")
      PROVE  WakeInv'
  BY <1>1 DEF WakeInv, NoLostWakeup
\* A worker goes to sleep, or ends, only with the queue empty.
<1>2. ASSUME NEW w \in Workers, Sleep(w) \/ Exit(w)
      PROVE  WakeInv'
  <2>1. tasks' = <<>> /\ Notifying' = Notifying
    BY <1>2 DEF Sleep, Exit, Notifying
  <2>2. Cardinality(At("lock")') \in Nat
    <3>1. At("lock")' \subseteq Workers
      BY DEF At
    <3> QED
      BY <3>1, PoolAssumption, FS_Subset, FS_CardinalityType DEF PoolAssumption
  <2> QED
    BY <1>n, <2>1, <2>2 DEF WakeInv, NoLostWakeup
\* One wakeup and one waiting task are used up together.
<1>3. ASSUME NEW w \in Workers, Take(w)
      PROVE  WakeInv'
  <2>1. /\ w \in At("lock") /\ At("lock")' = At("lock") \ {w}
        /\ At("wait")' = At("wait") /\ Notifying' = Notifying
    BY <1>3 DEF Take, TypeOK, At, Notifying
  <2>2. Cardinality(At("lock")') = Cardinality(At("lock")) - 1
    BY <2>1, LockFinite, FS_RemoveElement
  <2>3. Len(tasks') = Len(tasks) - 1
    BY <1>3 DEF Take, TypeOK
  <2> QED
    BY <1>n, <1>q, <2>1, <2>2, <2>3 DEF WakeInv, NoLostWakeup
<1>4. ASSUME NEW w \in Workers, Run(w) \/ Retire(w)
      PROVE  WakeInv'
  <2>1. /\ At("wait")' = At("wait") /\ At("lock")' = At("lock")
        /\ tasks' = tasks /\ Notifying' = Notifying
    BY <1>4 DEF Run, Retire, TypeOK, At, Notifying
  <2> QED
    BY <1>1, <2>1
<1>5. ASSUME NEW w \in Workers, NotifyAll(w)
      PROVE  WakeInv'
  <2>1. At("wait")' = {} /\ Notifying' = Notifying
    BY <1>5 DEF NotifyAll, TypeOK, At, Notifying
  <2> QED
    BY <2>1 DEF WakeInv, NoLostWakeup
<1>6. ASSUME NEW w \in Workers, Spurious(w)
      PROVE  WakeInv'
  <2>1. /\ w \in At("wait") /\ w \notin At("lock")
        /\ At("lock")' = At("lock") \cup {w}
        /\ Notifying' = Notifying /\ tasks' = tasks
    BY <1>6 DEF Spurious, TypeOK, At, Notifying
  <2>2. Cardinality(At("lock")') = Cardinality(At("lock")) + 1
    BY <2>1, LockFinite, FS_AddElement
  <2> QED
    BY <1>n, <1>q, <2>1, <2>2 DEF WakeInv, NoLostWakeup
<1>7. ASSUME NEW c \in Calls, RefuseStopped(c) \/ RefuseFull(c)
      PROVE  WakeInv'
  <2>1. /\ At("wait")' = At("wait") /\ At("lock")' = At("lock")
        /\ tasks' = tasks /\ Notifying' = Notifying
    BY <1>7 DEF RefuseStopped, RefuseFull, TypeOK, At, Notifying
  <2> QED
    BY <1>1, <2>1
\* The new task brings its own wakeup.
<1>8. ASSUME NEW c \in Calls, Accept(c)
      PROVE  WakeInv'
  <2>1. /\ c \notin Notifying /\ Notifying' = Notifying \cup {c}
        /\ At("wait")' = At("wait") /\ At("lock")' = At("lock")
    BY <1>8 DEF Accept, TypeOK, At, Notifying
  <2>2. /\ IsFiniteSet(Notifying')
        /\ Cardinality(Notifying') = Cardinality(Notifying) + 1
    BY <2>1, FS_AddElement DEF WakeInv
  <2>3. Len(tasks') = Len(tasks) + 1
    BY <1>8 DEF Accept, TypeOK
  <2> QED
    BY <1>n, <1>q, <2>1, <2>2, <2>3 DEF WakeInv, NoLostWakeup
\* notify_one turns the wakeup of a call into the one of a worker.
<1>9. ASSUME NEW c \in Calls, NotifyOne(c)
      PROVE  WakeInv'
  <2>1. c \in Notifying /\ Notifying' = Notifying \ {c} /\ tasks' = tasks
    BY <1>9 DEF NotifyOne, TypeOK, Notifying
  <2>2. /\ IsFiniteSet(Notifying')
        /\ Cardinality(Notifying') = Cardinality(Notifying) - 1
    BY <2>1, FS_RemoveElement DEF WakeInv
  <2>3. CASE At("wait") = {} /\ pc' = pc
    BY <2>2, <2>3 DEF WakeInv, NoLostWakeup, At
  <2>4. ASSUME NEW w \in At("wait"), pc' = [pc EXCEPT ![w] = "lock"]
        PROVE  WakeInv'
    <3>1. w \notin At("lock") /\ At("lock")' = At("lock") \cup {w}
      BY <2>4 DEF At, TypeOK
    <3>2. Cardinality(At("lock")') = Cardinality(At("lock")) + 1
      BY <3>1, LockFinite, FS_AddElement
    <3> QED
      BY <1>n, <1>q, <2>1, <2>2, <3>2 DEF WakeInv, NoLostWakeup
  <2> QED
    BY <1>9, <2>3, <2>4 DEF NotifyOne
<1>10. ASSUME Stop \/ Join \/ UNCHANGED vars
       PROVE  WakeInv'
  <2>1. /\ At("wait")' = At("wait") /\ At("lock")' = At("lock")
        /\ tasks' = tasks /\ Notifying' = Notifying
    BY <1>10 DEF Stop, Join, vars, At, Notifying
  <2> QED
    BY <1>1, <2>1
<1>11. ASSUME StopNotify
       PROVE  WakeInv'
  <2>1. At("wait")' = {} /\ Notifying' = Notifying
    BY <1>11 DEF StopNotify, TypeOK, At, Notifying
  <2> QED
    BY <2>1 DEF WakeInv, NoLostWakeup
<1> QED
  BY <1>2, <1>3, <1>4, <1>5, <1>6, <1>7, <1>8, <1>9, <1>10, <1>11
     DEF Next, Loop, Terminated

(***************************************************************************)
(* No wakeup is lost between the critical sections and the notifications   *)
(* made outside them, for any number of workers and of concurrent calls.   *)
(***************************************************************************)
THEOREM WakeupsCorrect == Spec => []NoLostWakeup
<1>1. Init => WakeInv
  <2>1. ASSUME Init PROVE Notifying = {} /\ At("wait") = {}
    BY <2>1 DEF Init, Notifying, At
  <2> QED
    BY <2>1, FS_EmptySet DEF WakeInv, NoLostWakeup
<1>2. WakeInv => NoLostWakeup
  BY DEF WakeInv
<1> QED
  BY <1>1, <1>2, TypeCorrect, NextWake, PTL DEF Spec

-----------------------------------------------------------------------------
(* The destructor.                                                         *)

\* What the destructor and the workers it waits for know of each other: stop is
\* set exactly from Stop on, a worker ends only when stop is set and the queue is
\* empty (and it stays empty, as nothing is accepted any more), and join() has
\* waited for all of them.
EndInv ==
  /\ stop <=> dtor # "live"
  /\ \A w \in Workers : pc[w] = "exit" => stop /\ tasks = <<>>
  /\ dtor = "done" => \A w \in Workers : pc[w] = "exit"
  /\ NobodySleepsInJoin

LEMMA NextEnd == TypeOK /\ EndInv /\ [Next]_vars => EndInv'
<1> SUFFICES ASSUME TypeOK, EndInv, [Next]_vars
             PROVE  EndInv'
  OBVIOUS
<1> USE DEF EndInv, NobodySleepsInJoin, TypeOK, At
<1>1. ASSUME NEW w \in Workers, Sleep(w)
      PROVE  EndInv'
  BY <1>1 DEF Sleep
<1>2. ASSUME NEW w \in Workers, Exit(w)
      PROVE  EndInv'
  BY <1>2 DEF Exit
<1>3. ASSUME NEW w \in Workers, Take(w)
      PROVE  EndInv'
  BY <1>3 DEF Take
<1>4. ASSUME NEW w \in Workers, Run(w) \/ Retire(w)
      PROVE  EndInv'
  BY <1>4 DEF Run, Retire
<1>5. ASSUME NEW w \in Workers, NotifyAll(w) \/ Spurious(w)
      PROVE  EndInv'
  BY <1>5 DEF NotifyAll, Spurious
<1>6. ASSUME NEW c \in Calls, RefuseStopped(c) \/ RefuseFull(c)
      PROVE  EndInv'
  BY <1>6 DEF RefuseStopped, RefuseFull
<1>7. ASSUME NEW c \in Calls, Accept(c)
      PROVE  EndInv'
  BY <1>7 DEF Accept
<1>8. ASSUME NEW c \in Calls, NotifyOne(c)
      PROVE  EndInv'
  BY <1>8 DEF NotifyOne
<1>9. ASSUME Stop \/ StopNotify \/ Join
      PROVE  EndInv'
  BY <1>9 DEF Stop, StopNotify, Join
<1>10. CASE UNCHANGED vars
  BY <1>10 DEF vars
<1> QED
  BY <1>1, <1>2, <1>3, <1>4, <1>5, <1>6, <1>7, <1>8, <1>9, <1>10
     DEF Next, Loop, Terminated

LEMMA End == Spec => []EndInv
<1>1. Init => EndInv
  BY DEF Init, EndInv, NobodySleepsInJoin
<1> QED
  BY <1>1, TypeCorrect, NextEnd, PTL DEF Spec

(***************************************************************************)
(* While the destructor is in join(), no worker sleeps or falls asleep: a  *)
(* worker cannot miss `stop' between its predicate and its wait.           *)
(***************************************************************************)
THEOREM NobodySleepsCorrect == Spec => []NobodySleepsInJoin
<1>1. EndInv => NobodySleepsInJoin
  BY DEF EndInv
<1> QED
  BY <1>1, End, PTL

(***************************************************************************)
(* When the destructor returns, every accepted task has been run and its   *)
(* future has its value.                                                   *)
(***************************************************************************)
THEOREM DrainedCorrect == Spec => []DrainedBeforeDestroyed
<1>1. TypeOK /\ ExactlyOnce /\ EndInv => DrainedBeforeDestroyed
  <2> SUFFICES ASSUME TypeOK, ExactlyOnce, EndInv, dtor = "done"
               PROVE  tasks = <<>> /\ Accepted \subseteq ready
    BY DEF DrainedBeforeDestroyed
  <2>1. \A w \in Workers : pc[w] = "exit"
    BY DEF EndInv
  <2>2. tasks = <<>>
    BY <2>1, PoolAssumption DEF EndInv, PoolAssumption
  <2>3. InQueue = {}
    BY <2>2 DEF InQueue
  <2>4. \A w \in Workers : HeldBy(w) = {}
    BY <2>1 DEF HeldBy
  <2>5. Accepted = ready
    BY <2>3, <2>4 DEF ExactlyOnce
  <2> QED
    BY <2>2, <2>5
<1> QED
  BY <1>1, TypeCorrect, ExactlyOnceCorrect, End, PTL

-----------------------------------------------------------------------------
(* The pool as a task service.                                             *)

Held == UNION {HeldBy(w) : w \in Workers}
Refused == {c \in Calls : call[c] \in {"full", "stopped"}}

\* The abstract state, which the names of Service abbreviate.
Mapped == <<tasks, Held, ready, Refused, ~stop>>

\* A call the abstract service has not seen is one that is not decided yet.
LEMMA UnseenIsNew ==
  ASSUME TypeOK, ExactlyOnce
  PROVE  Service!Unseen = {c \in Calls : call[c] = "new"}
<1>1. Service!Unseen = Calls \ (InQueue \cup Held \cup ready \cup Refused)
  BY DEF Service!Unseen, Service!Waiting, InQueue, Held, Refused
<1>2. Service!Unseen = Calls \ (Accepted \cup Refused)
  BY <1>1 DEF ExactlyOnce, Held
<1> QED
  BY <1>2 DEF TypeOK, Accepted, Refused

\* A worker that looks at the queue leaves room for its task.
LEMMA RoomForOne ==
  ASSUME NEW w \in Workers, HeldBy(w) = {}
  PROVE  Cardinality(Held) < Cardinality(Workers)
<1> DEFINE Others == Workers \ {w}
           Image == {task[v] : v \in Others}
<1>1. /\ IsFiniteSet(Others) /\ Cardinality(Others) = Cardinality(Workers) - 1
      /\ Cardinality(Workers) \in Nat /\ Cardinality(Others) \in Nat
  BY PoolAssumption, FS_RemoveElement, FS_CardinalityType DEF PoolAssumption
<1>2. IsFiniteSet(Image) /\ Cardinality(Image) <= Cardinality(Others)
  <2> DEFINE f == [v \in Others |-> task[v]]
  <2>1. f \in Surjection(Others, Image)
    BY DEF Surjection
  <2> QED
    BY <1>1, <2>1, FS_Surjection
<1>3. Held \subseteq Image
  BY DEF Held, HeldBy
<1>4. /\ Cardinality(Held) <= Cardinality(Image)
      /\ Cardinality(Held) \in Nat /\ Cardinality(Image) \in Nat
  BY <1>2, <1>3, FS_Subset, FS_CardinalityType
<1> QED
  BY <1>1, <1>2, <1>4

\* The steps the abstract service does not see.
LEMMA Stutter ==
  ASSUME tasks' = tasks, ready' = ready, stop' = stop, Refused' = Refused,
         \A w \in Workers : HeldBy(w)' = HeldBy(w)
  PROVE  UNCHANGED Service!svars
<1>1. Held' = Held
  BY DEF Held
<1> QED
  BY <1>1 DEF Service!svars, Held, Refused

LEMMA StepSimulation ==
  TypeOK /\ ExactlyOnce /\ ExactlyOnce' /\ [Next]_vars
    => [Service!SNext]_(Service!svars)
<1> SUFFICES ASSUME TypeOK, ExactlyOnce, ExactlyOnce', [Next]_vars
             PROVE  [Service!SNext]_(Service!svars)
  OBVIOUS
<1>1. ASSUME NEW w \in Workers,
             Sleep(w) \/ Exit(w) \/ Retire(w) \/ NotifyAll(w) \/ Spurious(w)
      PROVE  UNCHANGED Service!svars
  <2>1. /\ tasks' = tasks /\ ready' = ready /\ stop' = stop /\ Refused' = Refused
    BY <1>1 DEF Sleep, Exit, Retire, NotifyAll, Spurious, Refused
  <2>2. \A v \in Workers : HeldBy(v)' = HeldBy(v)
    BY <1>1 DEF TypeOK, Sleep, Exit, Retire, NotifyAll, Spurious, HeldBy
  <2> QED
    BY <2>1, <2>2, Stutter
<1>2. ASSUME NEW w \in Workers, Take(w)
      PROVE  Service!Serve
  <2>1. /\ tasks # <<>> /\ tasks' = Tail(tasks) /\ ready' = ready
        /\ stop' = stop /\ Refused' = Refused
    BY <1>2 DEF Take, Refused
  <2>2. /\ HeldBy(w) = {} /\ HeldBy(w)' = {Head(tasks)}
        /\ \A v \in Workers : v # w => HeldBy(v)' = HeldBy(v)
    BY <1>2 DEF TypeOK, Take, HeldBy
  <2>3. Held' = Held \cup {Head(tasks)}
    BY <2>2 DEF Held
  <2>4. Cardinality(Held) < Cardinality(Workers)
    BY <2>2, RoomForOne
  <2>5. Service!Cardinality(Held) = Cardinality(Held)
    BY DEF Service!Cardinality, Cardinality
  <2> QED
    BY <2>1, <2>3, <2>4, <2>5 DEF Service!Serve, Held, Refused
<1>3. ASSUME NEW w \in Workers, Run(w)
      PROVE  \E c \in Calls : Service!Finish(c)
  <2>1. /\ tasks' = tasks /\ ready' = ready \cup {task[w]}
        /\ stop' = stop /\ Refused' = Refused
    BY <1>3 DEF Run, Refused
  <2>2. /\ HeldBy(w) = {task[w]} /\ HeldBy(w)' = {}
        /\ \A v \in Workers : v # w => HeldBy(v)' = HeldBy(v)
    BY <1>3 DEF TypeOK, Run, HeldBy
  <2>3. \A v \in Workers : v # w => task[w] \notin HeldBy(v)
    BY <2>2 DEF ExactlyOnce
  <2>4. task[w] \in Held /\ Held' = Held \ {task[w]}
    BY <2>2, <2>3 DEF Held
  <2>5. task[w] \in Calls
    BY <2>4 DEF ExactlyOnce, Held, Accepted
  <2>6. Service!Finish(task[w])
    BY <2>1, <2>4 DEF Service!Finish, Held, Refused
  <2> QED
    BY <2>5, <2>6
<1>4. ASSUME NEW c \in Calls, RefuseStopped(c) \/ RefuseFull(c)
      PROVE  Service!TurnAway(c)
  <2>1. c \in Service!Unseen
    BY <1>4, UnseenIsNew DEF RefuseStopped, RefuseFull
  <2>2. Refused' = Refused \cup {c}
    BY <1>4 DEF RefuseStopped, RefuseFull, Refused, TypeOK
  <2>3. /\ tasks' = tasks /\ ready' = ready /\ stop' = stop
        /\ stop \/ Len(tasks) >= MaxWaiting
    BY <1>4 DEF RefuseStopped, RefuseFull
  <2>4. \A v \in Workers : HeldBy(v)' = HeldBy(v)
    BY <1>4 DEF RefuseStopped, RefuseFull, HeldBy
  <2>5. Held' = Held
    BY <2>4 DEF Held
  <2> QED
    BY <2>1, <2>2, <2>3, <2>5 DEF Service!TurnAway, Held, Refused
<1>5. ASSUME NEW c \in Calls, Accept(c)
      PROVE  Service!Admit(c)
  <2>1. c \in Service!Unseen
    BY <1>5, UnseenIsNew DEF Accept
  <2>2. Refused' = Refused
    BY <1>5 DEF Accept, Refused, TypeOK
  <2>3. /\ tasks' = Append(tasks, c) /\ ready' = ready /\ stop' = stop
        /\ ~stop /\ Len(tasks) < MaxWaiting
    BY <1>5 DEF Accept
  <2>4. \A v \in Workers : HeldBy(v)' = HeldBy(v)
    BY <1>5 DEF Accept, HeldBy
  <2>5. Held' = Held
    BY <2>4 DEF Held
  <2> QED
    BY <2>1, <2>2, <2>3, <2>5 DEF Service!Admit, Held, Refused
<1>6. ASSUME NEW c \in Calls, NotifyOne(c)
      PROVE  UNCHANGED Service!svars
  <2>1. tasks' = tasks /\ ready' = ready /\ stop' = stop
    BY <1>6 DEF NotifyOne
  <2>2. Refused' = Refused
    BY <1>6 DEF NotifyOne, Refused, TypeOK
  <2>3. \A v \in Workers : HeldBy(v)' = HeldBy(v)
    BY <1>6 DEF NotifyOne, HeldBy, TypeOK, At
  <2> QED
    BY <2>1, <2>2, <2>3, Stutter
<1>7. ASSUME Stop
      PROVE  Service!Close \/ UNCHANGED Service!svars
  <2>1. /\ tasks' = tasks /\ ready' = ready /\ stop' = TRUE /\ Refused' = Refused
    BY <1>7 DEF Stop, Refused
  <2>2. \A v \in Workers : HeldBy(v)' = HeldBy(v)
    BY <1>7 DEF Stop, HeldBy
  <2>3. Held' = Held
    BY <2>2 DEF Held
  <2>4. CASE stop
    BY <2>1, <2>2, <2>4, Stutter DEF TypeOK
  <2>5. CASE ~stop
    BY <2>1, <2>3, <2>5 DEF Service!Close, Held, Refused
  <2> QED
    BY <2>4, <2>5
<1>8. ASSUME StopNotify \/ Join \/ UNCHANGED vars
      PROVE  UNCHANGED Service!svars
  <2>1. /\ tasks' = tasks /\ ready' = ready /\ stop' = stop /\ Refused' = Refused
    BY <1>8 DEF StopNotify, Join, vars, Refused
  <2>2. \A v \in Workers : HeldBy(v)' = HeldBy(v)
    BY <1>8 DEF StopNotify, Join, vars, HeldBy, TypeOK
  <2> QED
    BY <2>1, <2>2, Stutter
<1> QED
  BY <1>1, <1>2, <1>3, <1>4, <1>5, <1>6, <1>7, <1>8
     DEF Next, Loop, Terminated, Service!SNext

(***************************************************************************)
(* The pool implements the safety part of TaskService: with its threads,   *)
(* its mutex and its condition variable hidden, it is a first-come first-  *)
(* served line with a bounded waiting room and one server per worker.      *)
(***************************************************************************)
THEOREM PoolIsTaskService == Spec => Service!SSafe
<1>1. Init => Service!SInit
  <2> SUFFICES ASSUME Init PROVE Service!SInit
    OBVIOUS
  <2>1. Held = {}
    BY DEF Init, Held, HeldBy
  <2>2. Refused = {}
    BY DEF Init, Refused
  <2> QED
    BY <2>1, <2>2 DEF Init, Service!SInit, Held, Refused
<1> QED
  BY <1>1, StepSimulation, TypeCorrect, ExactlyOnceCorrect, PTL
     DEF Spec, Service!SSafe
=============================================================================

---------------------------- MODULE Server_proofs ----------------------------
(***************************************************************************)
(* Theorems about the server, for any number of connections, requests and  *)
(* workers.  They rest on what ThreadPool_proofs establishes of the pool:  *)
(* the server is shown to step its pool only as the pool's own             *)
(* specification does, and then every theorem about the pool is one about  *)
(* the server's.                                                           *)
(***************************************************************************)
EXTENDS Server, TLAPS

\* The theorems about a pool with the server's constants and variables.
Proved == INSTANCE ThreadPool_proofs

LEMMA PoolAssumed == Proved!PoolAssumption
BY ServerAssumption
   DEF ServerAssumption, Proved!PoolAssumption, Proved!IsFiniteSet, IsFiniteSet

-----------------------------------------------------------------------------
(* The server steps its pool as the pool is specified.                     *)

\* The two instances of ThreadPool have the same initial states and steps.
LEMMA SameAccept ==
  ASSUME NEW c \in Calls
  PROVE  Pool!Accept(c) <=> Proved!Accept(c)
<1>1. Pool!Cardinality(Workers) = Proved!Cardinality(Workers)
  BY DEF Pool!Cardinality, Proved!Cardinality
<1> QED
  BY <1>1 DEF Pool!Accept, Proved!Accept

LEMMA PoolStep ==
  ASSUME Pool!Next \/ UNCHANGED pool
  PROVE  [Proved!Next]_(Proved!vars)
<1>1. ASSUME NEW w \in Workers, Pool!Loop(w) \/ Pool!Spurious(w)
      PROVE  Proved!Loop(w) \/ Proved!Spurious(w)
  BY <1>1 DEF Pool!Loop, Pool!Sleep, Pool!Exit, Pool!Take, Pool!Run, Pool!Retire,
              Pool!NotifyAll, Pool!Spurious, Proved!Loop, Proved!Sleep, Proved!Exit,
              Proved!Take, Proved!Run, Proved!Retire, Proved!NotifyAll, Proved!Spurious
<1>2. ASSUME NEW c \in Calls,
             \/ Pool!RefuseStopped(c) \/ Pool!RefuseFull(c)
             \/ Pool!Accept(c) \/ Pool!NotifyOne(c)
      PROVE  Proved!Next
  <2>1. \/ Proved!RefuseStopped(c) \/ Proved!RefuseFull(c)
        \/ Proved!Accept(c) \/ Proved!NotifyOne(c)
    BY <1>2, SameAccept
       DEF Pool!RefuseStopped, Pool!RefuseFull, Pool!NotifyOne, Pool!At,
           Proved!RefuseStopped, Proved!RefuseFull, Proved!NotifyOne, Proved!At
  <2> QED
    BY <2>1 DEF Proved!Next
<1>3. ASSUME Pool!Stop \/ Pool!StopNotify \/ Pool!Join
      PROVE  Proved!Stop \/ Proved!StopNotify \/ Proved!Join
  BY <1>3 DEF Pool!Stop, Pool!StopNotify, Pool!Join,
              Proved!Stop, Proved!StopNotify, Proved!Join
<1>4. CASE UNCHANGED pool \/ Pool!Terminated
  BY <1>4 DEF pool, Pool!Terminated, Pool!vars, Proved!vars
<1> QED
  BY <1>1, <1>2, <1>3, <1>4 DEF Pool!Next, Proved!Next


\* Type invariant of the sessions' variables.  A session that is at work has read a
\* request, and has a call of its own for it.
SessionInv ==
  /\ session \in [Sessions -> {"read", "enqueue", "notify", "await", "write", "end"}]
  /\ reqs \in [Sessions -> Seq(Requests)]
  /\ \A s \in Sessions :
       /\ Len(reqs[s]) <= MaxRequests
       /\ session[s] \in {"enqueue", "notify", "await", "write"} => Len(reqs[s]) > 0

\* The steps of the sessions' threads that leave `reqs' alone and go from one place
\* of do_session to another.
LEMMA MovesOn ==
  ASSUME SessionInv, NEW s \in Sessions, NEW l, Goto(s, l), reqs' = reqs,
         \/ l \in {"read", "end"}
         \/ /\ l \in {"notify", "await", "write"}
            /\ session[s] \in {"enqueue", "notify", "await", "write"}
  PROVE  SessionInv'
BY DEF SessionInv, Goto

LEMMA NextSession == SessionInv /\ [Next]_vars => SessionInv'
<1> SUFFICES ASSUME SessionInv, [Next]_vars PROVE SessionInv'
  OBVIOUS
<1>1. ASSUME NEW s \in Sessions, Read(s)
      PROVE  SessionInv'
  <2>1. PICK r \in Requests :
          /\ reqs' = [reqs EXCEPT ![s] = Append(@, r)]
          /\ \E l \in {"enqueue", "write"} : session' = [session EXCEPT ![s] = l]
    BY <1>1 DEF Read, Goto
  <2>2. Len(reqs[s]) < MaxRequests
    BY <1>1 DEF Read
  <2>3. /\ Append(reqs[s], r) \in Seq(Requests)
        /\ Len(Append(reqs[s], r)) = Len(reqs[s]) + 1 /\ Len(reqs[s]) \in Nat
    BY DEF SessionInv
  <2>4. /\ reqs' \in [Sessions -> Seq(Requests)]
        /\ session' \in [Sessions -> {"read", "enqueue", "notify", "await", "write", "end"}]
    BY <2>1, <2>3 DEF SessionInv
  <2>5. \A t \in Sessions :
          /\ t # s => reqs'[t] = reqs[t] /\ session'[t] = session[t]
          /\ t = s => Len(reqs'[t]) = Len(reqs[s]) + 1
    BY <2>1, <2>3 DEF SessionInv
  <2> QED
    BY <2>2, <2>3, <2>4, <2>5, ServerAssumption DEF SessionInv, ServerAssumption
<1>2. ASSUME NEW s \in Sessions, Hangup(s)
      PROVE  SessionInv'
  BY <1>2, MovesOn DEF Hangup
<1>3. ASSUME NEW s \in Sessions, SessionStep(s)
      PROVE  SessionInv'
  <2>1. CASE Enqueue(s)
    BY <2>1, MovesOn DEF Enqueue
  <2>2. CASE Busy(s)
    BY <2>2, MovesOn DEF Busy
  <2>3. CASE Abort(s)
    BY <2>3 DEF Abort, sess, SessionInv
  <2>4. CASE Notify(s)
    BY <2>4, MovesOn DEF Notify
  <2>5. CASE Get(s)
    BY <2>5, MovesOn DEF Get
  <2>6. CASE Write(s) \/ WriteFails(s)
    BY <2>6, MovesOn DEF Write, WriteFails
  <2> QED
    BY <1>3, <2>1, <2>2, <2>3, <2>4, <2>5, <2>6 DEF SessionStep
<1>4. ASSUME UNCHANGED sess
      PROVE  SessionInv'
  BY <1>4 DEF sess, SessionInv
<1>5. ASSUME NEW w \in Workers, WorkerStep(w) \/ WakeUp(w)
      PROVE  UNCHANGED sess
  BY <1>5 DEF WorkerStep, WakeUp, WorkerLoop, Begin, Process, Parse, GetSchema,
              LoadSchema, LoadFails, Validate, ValidateCrashes, Calculate, Step, Respond
<1>6. ASSUME AcceptFails \/ DestroySchema \/ Destroy \/ Exit \/ Ended \/ UNCHANGED vars
      PROVE  UNCHANGED sess
  BY <1>6 DEF AcceptFails, DestroySchema, Destroy, Exit, Ended, vars
<1> QED
  BY <1>1, <1>2, <1>3, <1>4, <1>5, <1>6 DEF Next

LEMMA Sessioned == Spec => []SessionInv
<1>1. Init => SessionInv
  BY ServerAssumption DEF Init, SessionInv, ServerAssumption
<1> QED
  BY <1>1, NextSession, PTL DEF Spec

LEMMA OwnCall ==
  ASSUME SessionInv, NEW s \in Sessions,
         session[s] \in {"enqueue", "notify", "await", "write"}
  PROVE  Current(s) \in Calls
BY ServerAssumption DEF SessionInv, Current, Calls, ServerAssumption

\* A step of the server is a step of its pool or leaves the pool alone.
LEMMA StepsPool == SessionInv /\ [Next]_vars => Pool!Next \/ UNCHANGED pool
<1> SUFFICES ASSUME SessionInv, [Next]_vars PROVE Pool!Next \/ UNCHANGED pool
  OBVIOUS
<1>1. ASSUME NEW s \in Sessions, Enqueue(s) \/ Busy(s) \/ Abort(s) \/ Notify(s)
      PROVE  Pool!Next
  <2>1. session[s] \in {"enqueue", "notify"}
    BY <1>1 DEF Enqueue, Busy, Abort, Notify
  <2>2. Current(s) \in Calls
    BY <2>1, OwnCall
  <2>3. \/ Pool!Accept(Current(s)) \/ Pool!RefuseFull(Current(s))
        \/ Pool!RefuseStopped(Current(s)) \/ Pool!NotifyOne(Current(s))
    BY <1>1 DEF Enqueue, Busy, Abort, Notify
  <2> QED
    BY <2>2, <2>3 DEF Pool!Next
<1>2. ASSUME NEW s \in Sessions, Read(s) \/ Hangup(s) \/ Get(s) \/ Write(s) \/ WriteFails(s)
      PROVE  UNCHANGED pool
  BY <1>2 DEF Read, Hangup, Get, Write, WriteFails
<1>3. ASSUME NEW w \in Workers, WorkerLoop(w) \/ WakeUp(w) \/ Begin(w)
      PROVE  Pool!Next
  BY <1>3 DEF WorkerLoop, WakeUp, Begin, Pool!Next, Pool!Loop
<1>4. ASSUME NEW w \in Workers, Process(w)
      PROVE  Pool!Run(w) \/ UNCHANGED pool
  BY <1>4 DEF Process, Parse, GetSchema, LoadSchema, LoadFails, Validate, ValidateCrashes, Calculate,
              Step, Respond
<1>5. ASSUME Destroy
      PROVE  Pool!Next
  BY <1>5 DEF Destroy, Pool!Next
<1>6. ASSUME AcceptFails \/ DestroySchema \/ Exit \/ Ended \/ UNCHANGED vars
      PROVE  UNCHANGED pool
  BY <1>6 DEF AcceptFails, DestroySchema, Exit, Ended, vars
<1> QED
  BY <1>1, <1>2, <1>3, <1>4, <1>5, <1>6
     DEF Next, SessionStep, WorkerStep, Pool!Next, Pool!Loop

(***************************************************************************)
(* The server uses its pool as the pool is specified: with the sessions    *)
(* and the processing hidden, its behaviours are behaviours of ThreadPool. *)
(* In particular a session never calls enqueue or notify for a request it  *)
(* has not read, and process_request runs only where the worker loop runs  *)
(* a task.                                                                 *)
(***************************************************************************)
THEOREM ServerRunsThePool == Spec => Pool!Spec
<1>1. Init => Pool!Init
  BY DEF Init
<1>2. SessionInv /\ [Next]_vars => [Pool!Next]_(Pool!vars)
  BY StepsPool DEF pool, Pool!vars
<1> QED
  BY <1>1, <1>2, Sessioned, PTL DEF Spec, Pool!Spec

\* What the theorems about the pool say of the server's.
PoolInv ==
  /\ Pool!TypeOK
  /\ Pool!ExactlyOnce
  /\ Pool!DrainedBeforeDestroyed
  /\ stop <=> dtor # "live"

LEMMA Pooled == Spec => []PoolInv
<1>1. Init => Proved!Init
  BY DEF Init, Pool!Init, Proved!Init
<1>2. SessionInv /\ [Next]_vars => [Proved!Next]_(Proved!vars)
  BY StepsPool, PoolStep
<1>3. Proved!Spec => [](Proved!TypeOK /\ Proved!ExactlyOnce
                        /\ Proved!DrainedBeforeDestroyed /\ Proved!EndInv)
  BY PoolAssumed, Proved!TypeCorrect, Proved!ExactlyOnceCorrect, Proved!DrainedCorrect,
     Proved!End, PTL
<1>4. Spec => Proved!Spec
  BY <1>1, <1>2, Sessioned, PTL DEF Spec, Proved!Spec
<1>5. Proved!TypeOK /\ Proved!ExactlyOnce /\ Proved!DrainedBeforeDestroyed /\ Proved!EndInv
        => PoolInv
  <2> SUFFICES ASSUME Proved!TypeOK, Proved!ExactlyOnce, Proved!DrainedBeforeDestroyed,
                      Proved!EndInv
               PROVE  PoolInv
    OBVIOUS
  <2>1. Pool!TypeOK
    BY DEF Pool!TypeOK, Proved!TypeOK
  <2>2. Pool!ExactlyOnce /\ Pool!DrainedBeforeDestroyed
    BY DEF Pool!ExactlyOnce, Proved!ExactlyOnce, Pool!DrainedBeforeDestroyed,
           Proved!DrainedBeforeDestroyed, Pool!Accepted, Proved!Accepted, Pool!InQueue,
           Proved!InQueue, Pool!HeldBy, Proved!HeldBy
  <2>3. stop <=> dtor # "live"
    BY DEF Proved!EndInv
  <2> QED
    BY <2>1, <2>2, <2>3 DEF PoolInv
<1> QED
  BY <1>3, <1>4, <1>5, PTL

-----------------------------------------------------------------------------
(* The process is aborted only while its pool is being destroyed.          *)

LEMMA StopStays ==
  ASSUME Pool!Next \/ UNCHANGED pool, stop
  PROVE  stop'
BY DEF Pool!Next, Pool!Loop, Pool!Sleep, Pool!Exit, Pool!Take, Pool!Run, Pool!Retire,
       Pool!NotifyAll, Pool!Spurious, Pool!RefuseStopped, Pool!RefuseFull, Pool!Accept,
       Pool!NotifyOne, Pool!Stop, Pool!StopNotify, Pool!Join, Pool!Terminated, Pool!vars,
       pool

\* One worker at a time loads the schema, and while it does nobody else changes it.
LoaderInv ==
  /\ stage \in [Workers -> {"idle", "parse", "schema", "load", "validate", "calculate"}]
  /\ \A w \in Workers : stage[w] = "load" => schema = "loading"
  /\ \A v, w \in Workers : stage[v] = "load" /\ stage[w] = "load" => v = w

\* Nothing brings a destroyed schema back.
LEMMA NextLoader ==
  LoaderInv /\ [Next]_vars => LoaderInv' /\ (schema = "destroyed" => schema' = "destroyed")
<1> SUFFICES ASSUME LoaderInv, [Next]_vars
             PROVE  LoaderInv' /\ (schema = "destroyed" => schema' = "destroyed")
  OBVIOUS
<1>1. ASSUME UNCHANGED <<stage, schema>>
      PROVE  LoaderInv' /\ (schema = "destroyed" => schema' = "destroyed")
  BY <1>1 DEF LoaderInv
<1>2. ASSUME NEW s \in Sessions, Read(s) \/ Hangup(s) \/ SessionStep(s)
      PROVE  UNCHANGED <<stage, schema>>
  BY <1>2 DEF Read, Hangup, SessionStep, Enqueue, Busy, Abort, Notify, Get, Write, WriteFails, work
<1>3. ASSUME NEW w \in Workers, WorkerLoop(w) \/ WakeUp(w) \/ ValidateCrashes(w)
      PROVE  UNCHANGED <<stage, schema>>
  BY <1>3 DEF WorkerLoop, WakeUp, ValidateCrashes, work
<1>4. ASSUME NEW w \in Workers, Begin(w)
      PROVE  LoaderInv' /\ schema' = schema
  BY <1>4 DEF Begin, LoaderInv
<1>5. ASSUME NEW w \in Workers, Parse(w) \/ Validate(w) \/ Calculate(w)
      PROVE  LoaderInv' /\ schema' = schema
  <2>1. /\ schema' = schema
        /\ \E l \in {"schema", "calculate", "idle"} : stage' = [stage EXCEPT ![w] = l]
    BY <1>5 DEF Parse, Validate, Calculate, Step, Respond
  <2> QED
    BY <2>1 DEF LoaderInv
<1>6. ASSUME NEW w \in Workers, GetSchema(w)
      PROVE  LoaderInv' /\ (schema = "destroyed" => schema' = "destroyed")
  BY <1>6 DEF GetSchema, Step, LoaderInv
<1>7. ASSUME NEW w \in Workers, LoadSchema(w) \/ LoadFails(w)
      PROVE  LoaderInv' /\ (schema = "destroyed" => schema' = "destroyed")
  <2>1. /\ stage[w] = "load"
        /\ \E l \in {"validate", "idle"} : stage' = [stage EXCEPT ![w] = l]
    BY <1>7 DEF LoadSchema, LoadFails, Step, Respond
  <2> QED
    BY <2>1 DEF LoaderInv
<1>8. ASSUME AcceptFails \/ DestroySchema
      PROVE  LoaderInv' /\ (schema = "destroyed" => schema' = "destroyed")
  BY <1>8 DEF AcceptFails, DestroySchema, LoaderInv
<1>9. ASSUME Destroy \/ Exit \/ Ended \/ UNCHANGED vars
      PROVE  UNCHANGED <<stage, schema>>
  BY <1>9 DEF Destroy, Exit, Ended, vars, work
<1> QED
  BY <1>1, <1>2, <1>3, <1>4, <1>5, <1>6, <1>7, <1>8, <1>9 DEF Next, WorkerStep, Process

LEMMA Loaded == Spec => []LoaderInv
<1>1. Init => LoaderInv
  BY DEF Init, LoaderInv
<1> QED
  BY <1>1, NextLoader, PTL DEF Spec

(***************************************************************************)
(* A call of enqueue_with_status throws what its caller does not catch     *)
(* only when the pool is stopped, and only the destructor stops it; the    *)
(* schema is missing under a worker only when it has been destroyed: no    *)
(* load and no request takes the server down.                              *)
(***************************************************************************)
THEOREM AbortOnlyInShutdownCorrect == Spec => []AbortOnlyInShutdown
<1>1. Init => AbortOnlyInShutdown
  BY DEF Init, AbortOnlyInShutdown
<1>2. /\ SessionInv /\ PoolInv /\ PoolInv' /\ LoaderInv /\ AbortOnlyInShutdown /\ [Next]_vars
      => AbortOnlyInShutdown'
  <2> SUFFICES ASSUME SessionInv, PoolInv, PoolInv', LoaderInv, AbortOnlyInShutdown, [Next]_vars,
                      process' = "aborted"
               PROVE  stop' \/ schema' = "destroyed"
    BY DEF AbortOnlyInShutdown, PoolInv
  <2>1. Pool!Next \/ UNCHANGED pool
    BY StepsPool
  <2>2. CASE process = "aborted"
    <3>1. schema = "destroyed" => schema' = "destroyed"
      BY NextLoader
    <3> QED
      BY <2>1, <2>2, <3>1, StopStays DEF AbortOnlyInShutdown, PoolInv
  <2>3. CASE process # "aborted"
    <3>1. (\E s \in Sessions : Abort(s)) \/ (\E w \in Workers : ValidateCrashes(w))
      BY <2>3 DEF Next, SessionStep, WorkerStep, vars, Read, Hangup, Enqueue, Busy, Notify,
                  Get, Write, WriteFails, WorkerLoop, WakeUp, Begin, Process, Parse,
                  GetSchema, LoadSchema, LoadFails, Validate, ValidateCrashes, Calculate, Step, Respond,
                  AcceptFails, DestroySchema, Destroy, Exit, Ended
    <3> QED
      BY <2>1, <3>1, StopStays DEF Abort, Pool!RefuseStopped, ValidateCrashes, work
  <2> QED
    BY <2>2, <2>3
<1> QED
  BY <1>1, <1>2, Sessioned, Pooled, Loaded, PTL DEF Spec

-----------------------------------------------------------------------------
(* Every task has a session that waits for it, and the other way round.    *)

\* The accepted calls whose future has no value yet.
Pending == Pool!Accepted \ ready

\* What a session knows of its call, and a call of its session.  A call is made only
\* for a request that was read; while it is undecided its session is in process_http_post,
\* before enqueue (a session that the process's end caught there may have had its call
\* refused), between the two halves of enqueue, or blocked on the future.
TaskInv ==
  /\ \A s \in Sessions :
       /\ session[s] = "enqueue" => call[Current(s)] \in {"new", "stopped"}
       /\ session[s] = "notify" => call[Current(s)] = "notify"
       /\ session[s] = "await" => call[Current(s)] = "returned"
       /\ \A n \in 1..MaxRequests : n > Len(reqs[s]) => call[<<s, n>>] = "new"
  /\ \A c \in Pending : session[c[1]] \in {"notify", "await"} /\ c = Current(c[1])

LEMMA CallIsPair ==
  ASSUME NEW c \in Calls
  PROVE  c[1] \in Sessions /\ c[2] \in 1..MaxRequests /\ c = <<c[1], c[2]>>
BY DEF Calls

\* The steps that only raise the set of calls with a value.
LEMMA TaskFrame ==
  ASSUME TaskInv, session' = session, reqs' = reqs, call' = call, ready \subseteq ready'
  PROVE  TaskInv'
<1>1. Pending' \subseteq Pending
  BY DEF Pending, Pool!Accepted
<1>2. \A s : Current(s)' = Current(s)
  BY DEF Current
<1> QED
  BY <1>1, <1>2 DEF TaskInv

\* The steps of one session outside process_http_post.
LEMMA TaskElsewhere ==
  ASSUME SessionInv, PoolInv, TaskInv, NEW s \in Sessions, NEW l, Goto(s, l),
         l \notin {"enqueue", "notify", "await"},
         session[s] \in {"notify", "await"} => Current(s) \in ready,
         reqs' = reqs, call' = call, ready' = ready
  PROVE  TaskInv'
<1>1. Pending' = Pending /\ \A t : Current(t)' = Current(t)
  BY DEF Pending, Pool!Accepted, Current
<1>2. \A t \in Sessions : session'[t] = IF t = s THEN l ELSE session[t]
  BY DEF SessionInv, Goto
<1>3. \A c \in Pending : c[1] # s
  BY DEF TaskInv, Pending
<1>4. \A c \in Pending : c[1] \in Sessions
  BY CallIsPair DEF Pending, Pool!Accepted
<1> QED
  BY <1>1, <1>2, <1>3, <1>4 DEF TaskInv

LEMMA NextTask == SessionInv /\ PoolInv /\ TaskInv /\ [Next]_vars => TaskInv'
<1> SUFFICES ASSUME SessionInv, PoolInv, TaskInv, [Next]_vars PROVE TaskInv'
  OBVIOUS
<1>1. ASSUME NEW s \in Sessions, Read(s)
      PROVE  TaskInv'
  <2>1. PICK r \in Requests :
          /\ reqs' = [reqs EXCEPT ![s] = Append(@, r)]
          /\ \E l \in {"enqueue", "write"} : session' = [session EXCEPT ![s] = l]
    BY <1>1 DEF Read, Goto
  <2>2. session[s] = "read" /\ Len(reqs[s]) < MaxRequests /\ call' = call /\ ready' = ready
    BY <1>1 DEF Read, pool
  <2>3. Len(reqs'[s]) = Len(reqs[s]) + 1 /\ Len(reqs[s]) \in Nat
    BY <2>1 DEF SessionInv
  <2>4. \A t \in Sessions : t # s => /\ session'[t] = session[t] /\ reqs'[t] = reqs[t]
                                     /\ Current(t)' = Current(t)
    BY <2>1 DEF SessionInv, Current
  <2>5. call[Current(s)'] = "new"
    <3>1. Len(reqs[s]) + 1 \in 1..MaxRequests
      BY <2>2, <2>3, ServerAssumption DEF ServerAssumption
    <3>2. Current(s)' = <<s, Len(reqs[s]) + 1>>
      BY <2>3 DEF Current
    <3>3. call[<<s, Len(reqs[s]) + 1>>] = "new"
      BY <2>3, <3>1 DEF TaskInv
    <3> QED
      BY <3>2, <3>3
  <2>6. session'[s] \in {"enqueue", "write"}
    BY <2>1 DEF SessionInv
  <2>7. \A c \in Pending' : c \in Pending /\ c[1] \in Sessions /\ c[1] # s
    BY <2>2, CallIsPair DEF Pending, Pool!Accepted, TaskInv
  <2> QED
    BY <2>2, <2>3, <2>4, <2>5, <2>6, <2>7 DEF TaskInv
<1>2. ASSUME NEW s \in Sessions, Hangup(s) \/ Get(s) \/ Write(s) \/ WriteFails(s)
      PROVE  TaskInv'
  BY <1>2, TaskElsewhere DEF Hangup, Get, Write, WriteFails, pool
<1>3. ASSUME NEW s \in Sessions, Enqueue(s) \/ Busy(s) \/ Abort(s) \/ Notify(s)
      PROVE  TaskInv'
  <2> DEFINE c == Current(s)
  <2>1. session[s] \in {"enqueue", "notify"} /\ reqs' = reqs /\ ready' = ready
    BY <1>3 DEF Enqueue, Busy, Abort, Notify, sess, Pool!Accept, Pool!RefuseFull,
                Pool!RefuseStopped, Pool!NotifyOne
  <2>2. c \in Calls /\ \A t : Current(t)' = Current(t)
    BY <2>1, OwnCall DEF Current
  <2>3. \A t \in Sessions : Current(t) = c => t = s
    BY DEF Current
  <2>4. \A n \in 1..MaxRequests : n > Len(reqs[s]) => <<s, n>> # c
    BY <2>1 DEF Current, SessionInv
  <2>5. c[1] = s
    BY DEF Current
  <2>6. \E l \in {"notify", "returned", "full", "stopped"} : call' = [call EXCEPT ![c] = l]
    BY <1>3 DEF Enqueue, Busy, Abort, Notify, Pool!Accept, Pool!RefuseFull,
                Pool!RefuseStopped, Pool!NotifyOne
  <2>7. /\ \A d \in Calls : d # c => call'[d] = call[d]
        /\ call \in [Calls -> {"new", "notify", "returned", "full", "stopped"}]
    BY <2>6 DEF PoolInv, Pool!TypeOK
  <2>8. \A t \in Sessions : t # s => session'[t] = session[t]
    BY <1>3 DEF Enqueue, Busy, Abort, Notify, Goto, SessionInv, sess
  <2>9. \/ session'[s] = "notify" /\ call'[c] = "notify"
        \/ session'[s] = "write" /\ call'[c] = "full"
        \/ session'[s] = "enqueue" /\ call'[c] = "stopped"
        \/ session'[s] = "await" /\ call'[c] = "returned"
    BY <1>3, <2>2, <2>7 DEF Enqueue, Busy, Abort, Notify, Goto, SessionInv, sess, Pool!Accept,
                Pool!RefuseFull, Pool!RefuseStopped, Pool!NotifyOne
  <2>10. \A d \in Pending' : d = c \/ d \in Pending
    BY <2>1, <2>7 DEF Pending, Pool!Accepted
  <2>11. \A d \in Pending : d \in Calls /\ (d[1] = s => d = c)
    BY DEF TaskInv, Pending, Pool!Accepted
  <2>12. ASSUME NEW d \in Pending'
         PROVE  session'[d[1]] \in {"notify", "await"} /\ d = Current(d[1])
    <3>1. CASE d = c
      BY <2>2, <2>5, <2>9, <3>1 DEF Pending, Pool!Accepted
    <3>2. CASE d # c
      BY <2>8, <2>10, <2>11, <3>2, CallIsPair DEF TaskInv
    <3> QED
      BY <3>1, <3>2
  <2>13. ASSUME NEW t \in Sessions
         PROVE  /\ session'[t] = "enqueue" => call'[Current(t)] \in {"new", "stopped"}
                /\ session'[t] = "notify" => call'[Current(t)] = "notify"
                /\ session'[t] = "await" => call'[Current(t)] = "returned"
                /\ \A n \in 1..MaxRequests : n > Len(reqs[t]) => call'[<<t, n>>] = "new"
    <3>1. CASE t = s
      BY <2>4, <2>7, <2>9, <3>1 DEF TaskInv, Calls
    <3>2. CASE t # s
      <4>1. session[t] \in {"enqueue", "notify", "await"} =>
              Current(t) \in Calls /\ call'[Current(t)] = call[Current(t)]
        BY <2>3, <2>7, <3>2, OwnCall
      <4>2. \A n \in 1..MaxRequests : <<t, n>> \in Calls /\ call'[<<t, n>>] = call[<<t, n>>]
        BY <2>7, <3>2 DEF Calls, Current
      <4> QED
        BY <2>8, <3>2, <4>1, <4>2 DEF TaskInv
    <3> QED
      BY <3>1, <3>2
  <2> QED
    BY <2>1, <2>2, <2>12, <2>13 DEF TaskInv
<1>4. ASSUME NEW w \in Workers, WorkerLoop(w) \/ WakeUp(w) \/ Begin(w)
      PROVE  TaskInv'
  BY <1>4, TaskFrame
     DEF WorkerLoop, WakeUp, Begin, sess, Pool!Sleep, Pool!Exit, Pool!Retire, Pool!NotifyAll,
         Pool!Spurious, Pool!Take
<1>5. ASSUME NEW w \in Workers, Process(w)
      PROVE  TaskInv'
  <2>1. (Pool!Run(w) \/ UNCHANGED pool) /\ UNCHANGED sess
    BY <1>5 DEF Process, Parse, GetSchema, LoadSchema, LoadFails, Validate, ValidateCrashes, Calculate,
                Step, Respond
  <2> QED
    BY <2>1, TaskFrame DEF sess, pool, Pool!Run
<1>6. ASSUME AcceptFails \/ DestroySchema \/ Destroy \/ Exit \/ Ended \/ UNCHANGED vars
      PROVE  TaskInv'
  BY <1>6, TaskFrame
     DEF AcceptFails, DestroySchema, Destroy, Exit, Ended, vars, sess, pool, Pool!Stop, Pool!StopNotify,
         Pool!Join
<1> QED
  BY <1>1, <1>2, <1>3, <1>4, <1>5, <1>6 DEF Next, SessionStep, WorkerStep

LEMMA Tasked == Spec => []TaskInv
<1>1. Init => TaskInv
  <2> SUFFICES ASSUME Init PROVE TaskInv
    OBVIOUS
  <2>1. Pending = {}
    BY DEF Init, Pool!Init, Pending, Pool!Accepted
  <2>2. \A c \in Calls : call[c] = "new"
    BY DEF Init, Pool!Init
  <2> QED
    BY <2>1, <2>2 DEF TaskInv, Init, Calls
<1> QED
  BY <1>1, NextTask, Sessioned, Pooled, PTL DEF Spec

(***************************************************************************)
(* Tasks and sessions belong together: every task in the pool has a        *)
(* session blocked on it, every blocked session a task in the pool or a    *)
(* value, which the destruction of the pool does not take away.            *)
(***************************************************************************)
THEOREM EveryTaskIsAwaitedCorrect == Spec => []EveryTaskIsAwaited
<1>1. SessionInv /\ PoolInv /\ TaskInv => EveryTaskIsAwaited
  <2> SUFFICES ASSUME SessionInv, PoolInv, TaskInv PROVE EveryTaskIsAwaited
    OBVIOUS
  <2> DEFINE InPool == Pool!InQueue \cup UNION {Pool!HeldBy(w) : w \in Workers}
  <2>1. InPool = Pending
    BY DEF PoolInv, Pool!ExactlyOnce, Pending
  <2>2. \A c \in InPool : session[c[1]] \in {"notify", "await"} /\ c = Current(c[1])
    BY <2>1 DEF TaskInv
  <2>3. ASSUME NEW s \in Sessions, session[s] = "await"
        PROVE  Current(s) \in ready \cup (IF dtor = "done" THEN {} ELSE InPool)
    <3>1. Current(s) \in Pool!Accepted
      BY <2>3, OwnCall DEF TaskInv, Pool!Accepted
    <3> QED
      BY <2>1, <3>1 DEF PoolInv, Pool!DrainedBeforeDestroyed, Pending
  <2> QED
    BY <2>2, <2>3 DEF EveryTaskIsAwaited
<1> QED
  BY <1>1, Sessioned, Pooled, Tasked, PTL

-----------------------------------------------------------------------------
(* Every client gets the answers of its own requests, in their order.      *)

\* The values that the future of a call may have that process_request has served.
Worth(c) == {IF Request(c).body = "good" /\ c \notin unread THEN "success" ELSE "error"}
              \cup (IF schema = "destroyed" THEN {"undefined"} ELSE {})

\* What a session ever holds for its client.
Replies == {NoReply, Reply(400, "html"), Reply(503, "busy")}
             \cup {Reply(200, body) : body \in {"success", "error", "undefined"}}

AtWork(s) == session[s] \in {"enqueue", "notify", "await", "write"}

\* A session is at most one answer behind, and the answer it is about to write is the
\* one its last request deserves; every future that has a value has the right one; a
\* call is blamed on the schema file only when it was served.
AnswerInv ==
  /\ answers \in [Sessions -> Seq(Replies)]
  /\ reply \in [Sessions -> Replies]
  /\ result \in [Calls -> {"none", "success", "error", "undefined"}]
  /\ unread \subseteq ready
  /\ \A c \in ready : result[c] \in Worth(c)
  /\ \A s \in Sessions :
       /\ Len(answers[s]) <= Len(reqs[s])
       /\ session[s] = "read" => Len(answers[s]) = Len(reqs[s])
       /\ AtWork(s) => Len(answers[s]) + 1 = Len(reqs[s])
       /\ session[s] \in {"enqueue", "notify", "await"} =>
            Request(Current(s)).method = "POST" /\ Request(Current(s)).target
       /\ session[s] = "write" => reply[s] \in Deserved(Current(s))
  /\ OwnAnswer

LEMMA ReadIsCall ==
  ASSUME SessionInv, NEW s \in Sessions, NEW n \in 1..Len(reqs[s])
  PROVE  <<s, n>> \in Calls
BY ServerAssumption DEF SessionInv, Calls, ServerAssumption

\* An answer is that of a request that was read.
LEMMA AnsweredIsRead ==
  ASSUME SessionInv, AnswerInv, NEW s \in Sessions, NEW n \in DOMAIN answers[s]
  PROVE  n \in 1..Len(reqs[s]) /\ n \in 1..Len(answers[s]) /\ <<s, n>> \in Calls
<1>1. /\ Len(answers[s]) <= Len(reqs[s]) /\ Len(reqs[s]) \in Nat
      /\ Len(answers[s]) \in Nat /\ DOMAIN answers[s] = 1..Len(answers[s])
  BY DEF AnswerInv, SessionInv
<1> QED
  BY <1>1, ReadIsCall

\* What a request deserves it goes on deserving once its call is settled.
LEMMA DeservedStays ==
  ASSUME NEW c, Request(c)' = Request(c), call'[c] = "full" <=> call[c] = "full",
         c \in unread' <=> c \in unread, schema = "destroyed" => schema' = "destroyed"
  PROVE  Deserved(c) \subseteq Deserved(c)'
<1>1. CASE Request(c).method # "POST" \/ ~Request(c).target \/ call[c] = "full"
  BY <1>1 DEF Deserved
<1>2. CASE ~(Request(c).method # "POST" \/ ~Request(c).target \/ call[c] = "full")
  BY <1>2 DEF Deserved
<1> QED
  BY <1>1, <1>2

LEMMA WorthStays ==
  ASSUME NEW c, Request(c)' = Request(c), c \in unread' <=> c \in unread,
         schema = "destroyed" => schema' = "destroyed"
  PROVE  Worth(c) \subseteq Worth(c)'
BY DEF Worth

\* A call that has a value is one of a request that was read.
LEMMA ReadyIsRead ==
  ASSUME SessionInv, PoolInv, TaskInv, NEW c \in ready
  PROVE  c \in Calls /\ c[1] \in Sessions /\ c[2] \in 1..Len(reqs[c[1]]) /\ c = <<c[1], c[2]>>
<1>1. c \in Calls /\ call[c] # "new"
  BY DEF PoolInv, Pool!ExactlyOnce, Pool!Accepted
<1>2. c[1] \in Sessions /\ c[2] \in 1..MaxRequests /\ c = <<c[1], c[2]>>
  BY <1>1, CallIsPair
<1>3. ~(c[2] > Len(reqs[c[1]])) /\ Len(reqs[c[1]]) \in Nat
  BY <1>1, <1>2 DEF TaskInv, SessionInv
<1> QED
  BY <1>1, <1>2, <1>3, ServerAssumption DEF ServerAssumption

\* The task of a running worker is that of a session blocked on it.
LEMMA RunningIsAwaited ==
  ASSUME PoolInv, TaskInv, NEW w \in Workers, pc[w] = "run"
  PROVE  /\ task[w] \in Calls /\ task[w] \notin ready /\ task[w][1] \in Sessions
         /\ session[task[w][1]] \in {"notify", "await"}
         /\ task[w] = Current(task[w][1])
<1>1. task[w] \in Pool!HeldBy(w)
  BY DEF Pool!HeldBy
<1>2. task[w] \in Pending
  BY <1>1 DEF PoolInv, Pool!ExactlyOnce, Pending
<1> QED
  BY <1>2, CallIsPair DEF TaskInv, Pending, Pool!Accepted

\* A turn of process_request that ends gives the future its worth.
LEMMA Responds ==
  ASSUME PoolInv, TaskInv, AnswerInv, NEW w \in Workers, Process(w)
  PROVE  /\ UNCHANGED sess
         /\ \/ UNCHANGED <<pool, result, unread>>
            \/ /\ Pool!Run(w)
               /\ \E body \in Worth(task[w])' : result' = [result EXCEPT ![task[w]] = body]
               /\ unread' = unread \/ unread' = unread \cup {task[w]}
<1>1. pc[w] = "run" => task[w] \notin unread
  BY RunningIsAwaited DEF AnswerInv
<1>2. UNCHANGED sess
  BY DEF Process, Parse, GetSchema, LoadSchema, LoadFails, Validate, ValidateCrashes, Calculate, Step, Respond
<1>3. task' = task => Body(w)' = Body(w) /\ Request(task[w])' = Request(task[w])
  BY <1>2 DEF Body, Request, sess
<1>4. ASSUME NEW from, NEW body, Respond(w, from, body)
      PROVE  /\ Pool!Run(w) /\ pc[w] = "run" /\ task' = task
             /\ result' = [result EXCEPT ![task[w]] = body]
  BY <1>4 DEF Respond, Pool!Run
<1>5. CASE Parse(w) \/ Validate(w) \/ ValidateCrashes(w)
  BY <1>1, <1>2, <1>3, <1>4, <1>5 DEF Parse, Validate, ValidateCrashes, Step, Worth, Body, work
<1>6. CASE GetSchema(w) \/ LoadSchema(w)
  BY <1>2, <1>6 DEF GetSchema, LoadSchema, Step
<1>7. CASE LoadFails(w)
  BY <1>1, <1>2, <1>3, <1>4, <1>7 DEF LoadFails, Worth
<1>8. CASE Calculate(w)
  BY <1>1, <1>2, <1>3, <1>4, <1>8 DEF Calculate, Worth, Body
<1> QED
  BY <1>5, <1>6, <1>7, <1>8 DEF Process

LEMMA AnswersStay ==
  ASSUME SessionInv, AnswerInv, answers' = answers,
         \A s \in Sessions : \A n \in DOMAIN answers[s] :
           <<s, n>> \in Calls => Deserved(<<s, n>>) \subseteq Deserved(<<s, n>>)'
  PROVE  OwnAnswer'
<1> SUFFICES ASSUME NEW s \in Sessions, NEW n \in DOMAIN answers[s]
             PROVE  answers[s][n] \in Deserved(<<s, n>>)'
  BY DEF OwnAnswer
<1>1. <<s, n>> \in Calls
  BY AnsweredIsRead
<1> QED
  BY <1>1 DEF AnswerInv, OwnAnswer

\* Everything the answers depend on stays.
LEMMA AnswerFrame ==
  ASSUME SessionInv, PoolInv, AnswerInv, UNCHANGED <<sess, result, unread, ready>>,
         schema = "destroyed" => schema' = "destroyed",
         \A c \in Calls : call'[c] = "full" <=> call[c] = "full"
  PROVE  AnswerInv'
<1>1. \A c : Request(c)' = Request(c) /\ Worth(c) \subseteq Worth(c)'
  BY WorthStays DEF sess, Request
<1>2. \A c \in Calls : Deserved(c) \subseteq Deserved(c)'
  BY <1>1, DeservedStays
<1>3. \A s : Current(s)' = Current(s) /\ AtWork(s)' = AtWork(s)
  BY DEF sess, Current, AtWork
<1>4. OwnAnswer'
  BY <1>2, AnswersStay DEF sess
<1> QED
  BY <1>1, <1>2, <1>3, <1>4, OwnCall DEF AnswerInv, sess, AtWork

LEMMA NextAnswer ==
  SessionInv /\ PoolInv /\ TaskInv /\ LoaderInv /\ AnswerInv /\ [Next]_vars => AnswerInv'
<1> SUFFICES ASSUME SessionInv, PoolInv, TaskInv, LoaderInv, AnswerInv, [Next]_vars
             PROVE  AnswerInv'
  OBVIOUS
<1>0. schema = "destroyed" => schema' = "destroyed"
  BY NextLoader
<1>1. ASSUME NEW s \in Sessions, Read(s)
      PROVE  AnswerInv'
  <2>1. PICK r \in Requests :
          /\ reqs' = [reqs EXCEPT ![s] = Append(@, r)]
          /\ \/ /\ r.method = "POST" /\ r.target
                /\ session' = [session EXCEPT ![s] = "enqueue"] /\ reply' = reply
             \/ /\ ~(r.method = "POST" /\ r.target)
                /\ session' = [session EXCEPT ![s] = "write"]
                /\ reply' = [reply EXCEPT ![s] = Reply(400, "html")]
    BY <1>1 DEF Read, Goto
  <2>2. /\ session[s] = "read"
        /\ UNCHANGED <<call, ready, answers, result, unread, schema>>
    BY <1>1 DEF Read, pool, work
  <2>3. /\ Len(reqs'[s]) = Len(reqs[s]) + 1 /\ Len(reqs[s]) \in Nat
        /\ reqs'[s][Len(reqs[s]) + 1] = r
        /\ \A n \in 1..Len(reqs[s]) : reqs'[s][n] = reqs[s][n]
    BY <2>1 DEF SessionInv
  <2>4. /\ \A t \in Sessions : t # s =>
             /\ session'[t] = session[t] /\ reqs'[t] = reqs[t] /\ reply'[t] = reply[t]
             /\ Current(t)' = Current(t) /\ AtWork(t)' = AtWork(t)
        /\ session'[s] \in {"enqueue", "write"} /\ AtWork(s)'
    BY <2>1 DEF SessionInv, AnswerInv, Current, AtWork
  <2>5. \A t \in Sessions : \A n \in 1..Len(reqs[t]) :
          /\ Request(<<t, n>>)' = Request(<<t, n>>)
          /\ Deserved(<<t, n>>) \subseteq Deserved(<<t, n>>)' /\ Worth(<<t, n>>) \subseteq Worth(<<t, n>>)'
    <3> SUFFICES ASSUME NEW t \in Sessions, NEW n \in 1..Len(reqs[t])
                 PROVE  /\ Request(<<t, n>>)' = Request(<<t, n>>)
                        /\ Deserved(<<t, n>>) \subseteq Deserved(<<t, n>>)'
                        /\ Worth(<<t, n>>) \subseteq Worth(<<t, n>>)'
      OBVIOUS
    <3>1. Request(<<t, n>>)' = Request(<<t, n>>)
      BY <2>3, <2>4 DEF Request
    <3>2. Worth(<<t, n>>) \subseteq Worth(<<t, n>>)'
      BY <1>0, <2>2, <3>1, WorthStays
    <3>3. call'[<<t, n>>] = call[<<t, n>>]
      BY <2>2
    <3>4. Deserved(<<t, n>>) \subseteq Deserved(<<t, n>>)'
      BY <1>0, <2>2, <3>1, <3>3, DeservedStays
    <3> QED
      BY <3>1, <3>2, <3>4
  <2>6. \A c \in ready : result[c] \in Worth(c)'
    BY <2>5, ReadyIsRead DEF AnswerInv
  <2>7. Request(Current(s))' = r
    BY <2>3 DEF Request, Current
  <2>8. /\ session'[s] = "enqueue" => r.method = "POST" /\ r.target
        /\ session'[s] = "write" => reply'[s] \in Deserved(Current(s))'
    BY <2>1, <2>7 DEF SessionInv, AnswerInv, Deserved
  <2>9. \A t \in Sessions : Len(answers[t]) \in Nat
    BY DEF AnswerInv
  <2>10. \A t \in Sessions : Len(reqs[t]) \in Nat
    BY DEF SessionInv
  <2>11. OwnAnswer'
    BY <2>2, <2>5, AnsweredIsRead DEF AnswerInv, OwnAnswer
  <2>12. ASSUME NEW t \in Sessions, t # s, AtWork(t)
         PROVE  /\ Request(Current(t))' = Request(Current(t))
                /\ Deserved(Current(t)) \subseteq Deserved(Current(t))'
    <3>1. Len(reqs[t]) \in 1..Len(reqs[t])
      BY <2>10, <2>12 DEF AtWork, SessionInv
    <3> QED
      BY <2>4, <2>5, <2>12, <3>1 DEF Current
  <2>13. reply' \in [Sessions -> Replies]
    BY <2>1 DEF AnswerInv, Replies
  <2>14. ASSUME NEW t \in Sessions
         PROVE  /\ Len(answers'[t]) <= Len(reqs'[t])
                /\ session'[t] = "read" => Len(answers'[t]) = Len(reqs'[t])
                /\ AtWork(t)' => Len(answers'[t]) + 1 = Len(reqs'[t])
                /\ session'[t] \in {"enqueue", "notify", "await"} =>
                     Request(Current(t))'.method = "POST" /\ Request(Current(t))'.target
                /\ session'[t] = "write" => reply'[t] \in Deserved(Current(t))'
    <3>1. CASE t = s
      BY <2>2, <2>3, <2>4, <2>7, <2>8, <2>9, <3>1 DEF AnswerInv
    <3>2. CASE t # s
      BY <2>2, <2>4, <2>12, <3>2 DEF AnswerInv, AtWork
    <3> QED
      BY <3>1, <3>2
  <2> QED
    BY <2>2, <2>6, <2>11, <2>13, <2>14 DEF AnswerInv
<1>2. ASSUME NEW s \in Sessions, Hangup(s)
      PROVE  AnswerInv'
  <2>1. /\ session[s] = "read" /\ session' = [session EXCEPT ![s] = "end"]
        /\ UNCHANGED <<reqs, answers, reply, call, ready, result, unread, schema>>
    BY <1>2 DEF Hangup, Goto, pool, work
  <2>2. \A c : Request(c)' = Request(c) /\ Deserved(c)' = Deserved(c) /\ Worth(c)' = Worth(c)
    BY <2>1 DEF Request, Deserved, Worth
  <2>3. \A t \in Sessions : /\ t # s => session'[t] = session[t] /\ AtWork(t)' = AtWork(t)
                            /\ session'[s] = "end" /\ ~AtWork(s)'
                            /\ Current(t)' = Current(t)
    BY <2>1 DEF SessionInv, Current, AtWork
  <2> QED
    BY <2>1, <2>2, <2>3 DEF AnswerInv, OwnAnswer
<1>3. ASSUME NEW s \in Sessions, Enqueue(s) \/ Notify(s)
      PROVE  AnswerInv'
  <2>1. /\ session[s] \in {"enqueue", "notify"} /\ Current(s) \in Calls
        /\ \E l \in {"notify", "await"} : session' = [session EXCEPT ![s] = l]
        /\ UNCHANGED <<reqs, answers, reply, ready, result, unread, schema>>
    BY <1>3, OwnCall DEF Enqueue, Notify, Goto, work, Pool!Accept, Pool!NotifyOne
  <2>2. \A c \in Calls : call'[c] = "full" <=> call[c] = "full"
    BY <1>3, <2>1 DEF Enqueue, Notify, Pool!Accept, Pool!NotifyOne, PoolInv, Pool!TypeOK
  <2>3. /\ \A c : Request(c)' = Request(c) /\ Worth(c)' = Worth(c)
        /\ \A c \in Calls : Deserved(c) \subseteq Deserved(c)'
    BY <2>1, <2>2, DeservedStays DEF Request, Worth
  <2>4. \A t \in Sessions : /\ t # s => session'[t] = session[t]
                            /\ session'[s] \in {"notify", "await"}
                            /\ Current(t)' = Current(t) /\ AtWork(t)' = AtWork(t)
    BY <2>1 DEF SessionInv, Current, AtWork
  <2>5. OwnAnswer'
    BY <2>1, <2>3, AnswersStay
  <2> QED
    BY <2>1, <2>3, <2>4, <2>5, OwnCall DEF AnswerInv
<1>4. ASSUME NEW s \in Sessions, Busy(s)
      PROVE  AnswerInv'
  <2>0. PICK c : c = Current(s)
    OBVIOUS
  <2>1. /\ session[s] = "enqueue" /\ c \in Calls
        /\ session' = [session EXCEPT ![s] = "write"]
        /\ reply' = [reply EXCEPT ![s] = Reply(503, "busy")]
        /\ UNCHANGED <<reqs, answers, ready, result, unread, schema>>
    BY <1>4, <2>0, OwnCall DEF Busy, Goto, work, Pool!RefuseFull
  <2>2. call'[c] = "full" /\ \A d \in Calls : d # c => (call'[d] = "full" <=> call[d] = "full")
    BY <1>4, <2>0, <2>1 DEF Busy, Pool!RefuseFull, PoolInv, Pool!TypeOK
  <2>3. \A d : Request(d)' = Request(d) /\ Worth(d)' = Worth(d)
    BY <2>1 DEF Request, Worth
  <2>4. \A d \in Calls : d # c => Deserved(d) \subseteq Deserved(d)'
    BY <2>1, <2>2, <2>3, DeservedStays
  <2>5. \A t \in Sessions : /\ t # s => /\ session'[t] = session[t] /\ reply'[t] = reply[t]
                                        /\ Current(t) # c
                            /\ session'[s] = "write" /\ reply'[s] = Reply(503, "busy")
                            /\ Current(t)' = Current(t) /\ AtWork(t)' = AtWork(t)
    BY <2>0, <2>1 DEF SessionInv, Current, AtWork, AnswerInv
  <2>6. Deserved(c)' = {Reply(503, "busy")}
    <3>1. Request(c)'.method = "POST" /\ Request(c)'.target
      BY <2>0, <2>1, <2>3 DEF AnswerInv
    <3> QED
      BY <2>2, <3>1 DEF Deserved
  <2>7. ASSUME NEW t \in Sessions, NEW n \in DOMAIN answers[t]
        PROVE  <<t, n>> # c
    BY <2>0, <2>1, AnsweredIsRead DEF AnswerInv, AtWork, Current, SessionInv
  <2>8. OwnAnswer'
    BY <2>1, <2>4, <2>7, AnswersStay
  <2>9. reply' \in [Sessions -> Replies]
    BY <2>1 DEF AnswerInv, Replies
  <2> QED
    BY <2>0, <2>1, <2>3, <2>4, <2>5, <2>6, <2>8, <2>9, OwnCall DEF AnswerInv
<1>5. ASSUME NEW s \in Sessions, Abort(s)
      PROVE  AnswerInv'
  <2>1. session[s] = "enqueue" /\ Current(s) \in Calls /\ UNCHANGED <<sess, result, unread, ready, schema>>
    BY <1>5, OwnCall DEF Abort, work, Pool!RefuseStopped
  <2>2. \A c \in Calls : call'[c] = "full" <=> call[c] = "full"
    BY <1>5, <2>1 DEF Abort, Pool!RefuseStopped, PoolInv, Pool!TypeOK
  <2> QED
    BY <2>1, <2>2, AnswerFrame
<1>6. ASSUME NEW s \in Sessions, Get(s)
      PROVE  AnswerInv'
  <2>1. /\ session[s] = "await" /\ Current(s) \in ready
        /\ session' = [session EXCEPT ![s] = "write"]
        /\ reply' = [reply EXCEPT ![s] = Reply(200, result[Current(s)])]
        /\ UNCHANGED <<reqs, answers, call, ready, result, unread, schema>>
    BY <1>6 DEF Get, Goto, pool, work
  <2>2. \A c : Request(c)' = Request(c) /\ Deserved(c)' = Deserved(c) /\ Worth(c)' = Worth(c)
    BY <2>1 DEF Request, Deserved, Worth
  <2>3. \A t \in Sessions : /\ t # s => session'[t] = session[t] /\ reply'[t] = reply[t]
                            /\ session'[s] = "write"
                            /\ reply'[s] = Reply(200, result[Current(s)])
                            /\ Current(t)' = Current(t) /\ AtWork(t)' = AtWork(t)
    BY <2>1 DEF SessionInv, Current, AtWork, AnswerInv
  <2>4. call[Current(s)] # "full"
    BY <2>1 DEF TaskInv
  <2>5. Reply(200, result[Current(s)]) \in Deserved(Current(s))
    BY <2>1, <2>4 DEF AnswerInv, Deserved, Worth
  <2>6. Current(s) \in Calls
    BY <2>1, OwnCall
  <2>7. reply' \in [Sessions -> Replies]
    <3>1. result[Current(s)] \in {"success", "error", "undefined"}
      BY <2>1 DEF AnswerInv, Worth
    <3> QED
      BY <2>1, <3>1 DEF AnswerInv, Replies
  <2> QED
    BY <2>1, <2>2, <2>3, <2>5, <2>7 DEF AnswerInv, OwnAnswer
<1>7. ASSUME NEW s \in Sessions, Write(s) \/ WriteFails(s)
      PROVE  AnswerInv'
  <2>1. /\ session[s] = "write" /\ reply' = [reply EXCEPT ![s] = NoReply]
        /\ \E l \in {"read", "end"} : session' = [session EXCEPT ![s] = l]
        /\ UNCHANGED <<reqs, call, ready, result, unread, schema>>
    BY <1>7 DEF Write, WriteFails, Goto, pool, work
  <2>2. \/ answers' = [answers EXCEPT ![s] = Append(@, reply[s])]
        \/ answers' = answers /\ session' = [session EXCEPT ![s] = "end"]
    BY <1>7 DEF Write, WriteFails, Goto
  <2>3. \A c : Request(c)' = Request(c) /\ Deserved(c)' = Deserved(c) /\ Worth(c)' = Worth(c)
    BY <2>1 DEF Request, Deserved, Worth
  <2>4. \A t \in Sessions : /\ t # s => /\ session'[t] = session[t] /\ reply'[t] = reply[t]
                                        /\ answers'[t] = answers[t] /\ AtWork(t)' = AtWork(t)
                            /\ session'[s] \in {"read", "end"} /\ ~AtWork(s)'
                            /\ Current(t)' = Current(t)
    BY <2>1, <2>2 DEF SessionInv, Current, AtWork, AnswerInv
  <2>5. reply[s] \in Deserved(Current(s)) /\ Len(answers[s]) + 1 = Len(reqs[s])
    BY <2>1 DEF AnswerInv, AtWork
  <2>6. reply[s] \in Replies
    BY DEF AnswerInv
  <2>7. /\ answers' \in [Sessions -> Seq(Replies)]
        /\ \/ answers'[s] = answers[s] /\ session'[s] = "end"
           \/ /\ Len(answers'[s]) = Len(answers[s]) + 1
              /\ answers'[s][Len(answers[s]) + 1] = reply[s]
              /\ \A n \in 1..Len(answers[s]) : answers'[s][n] = answers[s][n]
    <3>1. CASE answers' = [answers EXCEPT ![s] = Append(@, reply[s])]
      <4>1. /\ Append(answers[s], reply[s]) \in Seq(Replies)
            /\ Len(Append(answers[s], reply[s])) = Len(answers[s]) + 1
            /\ Append(answers[s], reply[s])[Len(answers[s]) + 1] = reply[s]
            /\ \A n \in 1..Len(answers[s]) : Append(answers[s], reply[s])[n] = answers[s][n]
        BY <2>6 DEF AnswerInv
      <4>2. /\ answers' \in [Sessions -> Seq(Replies)]
            /\ answers'[s] = Append(answers[s], reply[s])
        BY <3>1, <4>1 DEF AnswerInv
      <4> QED
        BY <4>1, <4>2
    <3>2. CASE answers' = answers /\ session' = [session EXCEPT ![s] = "end"]
      BY <3>2 DEF AnswerInv, SessionInv
    <3> QED
      BY <2>2, <3>1, <3>2
  <2>8. \A n \in DOMAIN answers'[s] : answers'[s][n] \in Deserved(<<s, n>>)
    <3> SUFFICES ASSUME NEW n \in DOMAIN answers'[s]
                 PROVE  answers'[s][n] \in Deserved(<<s, n>>)
      OBVIOUS
    <3>1. Len(answers[s]) \in Nat /\ DOMAIN answers[s] = 1..Len(answers[s])
      BY DEF AnswerInv
    <3>2. DOMAIN answers'[s] = 1..Len(answers'[s])
      BY <2>7
    <3>3. \/ n \in 1..Len(answers[s]) /\ answers'[s][n] = answers[s][n]
          \/ n = Len(reqs[s]) /\ answers'[s][n] = reply[s]
      <4>1. CASE answers'[s] = answers[s]
        BY <3>1, <4>1
      <4>2. CASE /\ Len(answers'[s]) = Len(answers[s]) + 1
                 /\ answers'[s][Len(answers[s]) + 1] = reply[s]
                 /\ \A m \in 1..Len(answers[s]) : answers'[s][m] = answers[s][m]
        <5>1. n \in 1..Len(answers[s]) \/ n = Len(answers[s]) + 1
          BY <3>1, <3>2, <4>2
        <5> QED
          BY <2>5, <4>2, <5>1
      <4> QED
        BY <2>7, <4>1, <4>2
    <3> QED
      BY <2>5, <3>1, <3>3 DEF AnswerInv, OwnAnswer, Current
  <2>9. OwnAnswer'
    BY <2>3, <2>4, <2>8 DEF AnswerInv, OwnAnswer
  <2>10. reply' \in [Sessions -> Replies]
    BY <2>1 DEF AnswerInv, Replies
  <2>11. Len(answers'[s]) <= Len(reqs[s]) /\ (session'[s] = "read" => Len(answers'[s]) = Len(reqs[s]))
    BY <2>5, <2>7 DEF AnswerInv
  <2> QED
    BY <2>1, <2>3, <2>4, <2>7, <2>9, <2>10, <2>11 DEF AnswerInv
<1>8. ASSUME NEW w \in Workers, WorkerLoop(w) \/ WakeUp(w) \/ Begin(w)
      PROVE  AnswerInv'
  BY <1>0, <1>8, AnswerFrame
     DEF WorkerLoop, WakeUp, Begin, work, Pool!Sleep, Pool!Exit, Pool!Retire, Pool!NotifyAll,
         Pool!Spurious, Pool!Take
<1>9. ASSUME NEW w \in Workers, Process(w)
      PROVE  AnswerInv'
  <2>1. CASE UNCHANGED <<pool, result, unread>>
    BY <1>0, <1>9, <2>1, Responds, AnswerFrame DEF pool
  <2>2. CASE ~UNCHANGED <<pool, result, unread>>
    <3>0. PICK c : c = task[w]
      OBVIOUS
    <3>a. PICK body \in Worth(task[w])' : result' = [result EXCEPT ![task[w]] = body]
      BY <1>9, <2>2, Responds
    <3>1. /\ pc[w] = "run" /\ UNCHANGED <<sess, call>> /\ ready' = ready \cup {c}
          /\ result' = [result EXCEPT ![c] = body] /\ body \in Worth(c)'
          /\ unread' = unread \/ unread' = unread \cup {c}
      <4>1. Pool!Run(w) /\ task' = task /\ UNCHANGED sess
            /\ (unread' = unread \/ unread' = unread \cup {task[w]})
        BY <1>9, <2>2, Responds DEF Pool!Run
      <4>2. Worth(task[w])' = Worth(c)'
        BY <3>0, <4>1 DEF Worth, Request
      <4> QED
        BY <3>a, <3>0, <4>1, <4>2 DEF Pool!Run
    <3>2. /\ c \in Calls /\ c \notin ready /\ c[1] \in Sessions /\ c = Current(c[1])
          /\ session[c[1]] \in {"notify", "await"}
      BY <3>0, <3>1, RunningIsAwaited
    <3>3. \A d : /\ Request(d)' = Request(d)
                 /\ (d # c => Deserved(d) \subseteq Deserved(d)' /\ Worth(d) \subseteq Worth(d)')
      <4>1. \A d : Request(d)' = Request(d) /\ call'[d] = call[d]
        BY <3>1 DEF sess, Request
      <4>2. \A d : d # c => (d \in unread' <=> d \in unread)
        BY <3>1
      <4> QED
        BY <1>0, <4>1, <4>2, DeservedStays, WorthStays
    <3>4. \A t \in Sessions : Current(t)' = Current(t) /\ AtWork(t)' = AtWork(t)
      BY <3>1 DEF sess, Current, AtWork
    <3>5. \A t \in Sessions : session[t] = "write" => Current(t) # c
      BY <3>2 DEF Current
    <3>6. \A t \in Sessions : \A n \in DOMAIN answers[t] : <<t, n>> # c
      <4> SUFFICES ASSUME NEW t \in Sessions, NEW n \in DOMAIN answers[t], <<t, n>> = c
                   PROVE  FALSE
        OBVIOUS
      <4>1. t = c[1] /\ n = Len(reqs[t])
        BY <3>2 DEF Current
      <4>2. Len(answers[t]) + 1 = Len(reqs[t])
        BY <3>2, <4>1 DEF AnswerInv, AtWork
      <4>3. n \in 1..Len(answers[t]) /\ Len(answers[t]) \in Nat
        BY AnsweredIsRead DEF AnswerInv
      <4> QED
        BY <4>1, <4>2, <4>3
    <3>7. OwnAnswer'
      <4>1. answers' = answers
        BY <3>1 DEF sess
      <4> QED
        BY <3>3, <3>6, <4>1, AnswersStay
    <3>8. body \in {"none", "success", "error", "undefined"}
      BY <3>1 DEF Worth
    <3>9. /\ result' \in [Calls -> {"none", "success", "error", "undefined"}]
          /\ \A d \in ready' : result'[d] \in Worth(d)'
      <4>1. \A d \in Calls : result'[d] = IF d = c THEN body ELSE result[d]
        BY <3>1, <3>2 DEF AnswerInv
      <4>2. \A d \in ready' : d \in Calls /\ (d = c \/ d \in ready)
        BY <3>1, <3>2 DEF PoolInv, Pool!TypeOK
      <4>3. \A d \in ready' : result'[d] \in Worth(d)'
        BY <3>1, <3>3, <4>1, <4>2 DEF AnswerInv
      <4>4. result' \in [Calls -> {"none", "success", "error", "undefined"}]
        BY <3>1, <3>8 DEF AnswerInv
      <4> QED
        BY <4>3, <4>4
    <3>10. unread' \subseteq ready'
      BY <3>1 DEF AnswerInv
    <3> QED
      BY <3>1, <3>3, <3>4, <3>5, <3>7, <3>9, <3>10 DEF AnswerInv, sess
  <2> QED
    BY <2>1, <2>2
<1>10. ASSUME AcceptFails \/ DestroySchema \/ Destroy \/ Exit \/ Ended \/ UNCHANGED vars
      PROVE  AnswerInv'
  BY <1>0, <1>10, AnswerFrame
     DEF AcceptFails, DestroySchema, Destroy, Exit, Ended, vars, work, pool, Pool!Stop, Pool!StopNotify,
         Pool!Join
<1> QED
  BY <1>1, <1>2, <1>3, <1>4, <1>5, <1>6, <1>7, <1>8, <1>9, <1>10
     DEF Next, SessionStep, WorkerStep

(***************************************************************************)
(* The n-th answer a client gets is the one its n-th request deserves,     *)
(* although threads that all sessions share compute the answers.           *)
(***************************************************************************)
THEOREM OwnAnswerCorrect == Spec => []OwnAnswer
<1>1. Init => AnswerInv
  <2> SUFFICES ASSUME Init PROVE AnswerInv
    OBVIOUS
  <2>1. /\ answers \in [Sessions -> Seq(Replies)]
        /\ \A s \in Sessions : answers[s] = <<>> /\ reqs[s] = <<>> /\ session[s] = "read"
    BY DEF Init
  <2>2. reply \in [Sessions -> Replies]
    BY DEF Init, Replies
  <2>3. result \in [Calls -> {"none", "success", "error", "undefined"}] /\ unread = {} /\ ready = {}
    BY DEF Init, Pool!Init
  <2> QED
    BY <2>1, <2>2, <2>3 DEF AnswerInv, OwnAnswer, AtWork
<1>2. AnswerInv => OwnAnswer
  BY DEF AnswerInv
<1> QED
  BY <1>1, <1>2, NextAnswer, Sessioned, Pooled, Tasked, Loaded, PTL DEF Spec
=============================================================================

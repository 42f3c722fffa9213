------------------------------- MODULE Server -------------------------------
(***************************************************************************)
(* The HTTP server: server/server.cpp and json_parser.cpp, composed        *)
(* with the worker pool of ThreadPool.tla.                                 *)
(*                                                                         *)
(* A detached thread serves each connection (do_session): it reads a       *)
(* request, hands the body of a POST to the pool (process_http_post),      *)
(* blocks on the future and writes the answer.  The workers run            *)
(* process_request; they meet in the function-local static request schema, *)
(* whose initialisation the language guards.  When Server::run leaves its  *)
(* accept loop, main returns and the statics are destroyed while sessions  *)
(* and workers may still be running: the schema first, which is younger,   *)
(* then the Server with its pool.                                          *)
(***************************************************************************)
EXTENDS Naturals, Sequences, FiniteSets

CONSTANTS Sessions,     \* the connections
          MaxRequests,  \* bound on the requests read from one connection
          Requests,     \* the requests a client may send
          Workers, MaxWaiting, NoTask

\* The n-th request of session s makes at most one call of the pool.
Calls == Sessions \X (1..MaxRequests)

\* What the pool assumes; the server makes it with three workers.
ASSUME ServerAssumption ==
  /\ IsFiniteSet(Workers) /\ Workers # {}
  /\ MaxWaiting \in Nat
  /\ MaxRequests \in Nat
  /\ NoTask \notin Calls

VARIABLES tasks, active_tasks, stop, pc, task, call, will_wait, ready, dtor,
          session,  \* where each session thread is
          reqs,     \* the requests each session has read
          answers,  \* the answers each session has written to its client
          reply,    \* the answer a session is about to write
          stage,    \* how far each worker is in process_request
          result,   \* the value of each call's future
          schema,   \* the static SchemaDocument of get_request_schema
          unread,   \* the calls during which the schema file could not be read
          process   \* the life of the server process

pool == <<tasks, active_tasks, stop, pc, task, call, will_wait, ready, dtor>>
sess == <<session, reqs, answers, reply>>
work == <<stage, result, schema, unread>>
vars == <<pool, sess, work, process>>

Pool == INSTANCE ThreadPool

NoReply == [status |-> 0, body |-> "none"]
Reply(status, body) == [status |-> status, body |-> body]

Running == process \in {"up", "exiting"}
Current(s) == <<s, Len(reqs[s])>>
Request(c) == reqs[c[1]][c[2]]
Goto(s, l) == session' = [session EXCEPT ![s] = l]

Init ==
  /\ Pool!Init
  /\ session = [s \in Sessions |-> "read"]
  /\ reqs = [s \in Sessions |-> <<>>]
  /\ answers = [s \in Sessions |-> <<>>]
  /\ reply = [s \in Sessions |-> NoReply]
  /\ stage = [w \in Workers |-> "idle"]
  /\ result = [c \in Calls |-> "none"]
  /\ schema = "unset"
  /\ unread = {}
  /\ process = "up"

-----------------------------------------------------------------------------
(* A session: do_session, handle_request and process_http_post.            *)

\* The check of method and target comes first; only a POST reaches the pool.
Read(s) ==
  /\ Running
  /\ session[s] = "read"
  /\ Len(reqs[s]) < MaxRequests
  /\ \E r \in Requests :
       /\ reqs' = [reqs EXCEPT ![s] = Append(@, r)]
       /\ IF r.method = "POST" /\ r.target
          THEN Goto(s, "enqueue") /\ UNCHANGED reply
          ELSE Goto(s, "write") /\ reply' = [reply EXCEPT ![s] = Reply(400, "html")]
  /\ UNCHANGED <<pool, answers, work, process>>

\* The client closes the connection (the session shuts it down), or reading fails.
Hangup(s) ==
  /\ Running
  /\ session[s] = "read"
  /\ Goto(s, "end")
  /\ UNCHANGED <<pool, reqs, answers, reply, work, process>>

Enqueue(s) ==
  /\ Running
  /\ session[s] = "enqueue"
  /\ Pool!Accept(Current(s))
  /\ Goto(s, "notify")
  /\ UNCHANGED <<reqs, answers, reply, work, process>>

\* Mutant of Busy: ThreadPoolQueueFull is not caught.
BusyUncaught(s) ==
  /\ Running
  /\ session[s] = "enqueue"
  /\ Pool!RefuseFull(Current(s))
  /\ process' = "aborted"
  /\ UNCHANGED <<sess, work>>

\* ThreadPoolQueueFull is caught and answered.
Busy(s) ==
  /\ Running
  /\ session[s] = "enqueue"
  /\ Pool!RefuseFull(Current(s))
  /\ reply' = [reply EXCEPT ![s] = Reply(503, "busy")]
  /\ Goto(s, "write")
  /\ UNCHANGED <<reqs, answers, work, process>>

\* "enqueue on stopped ThreadPool" is not caught by process_http_post, nor by
\* anybody else in the session's thread: std::terminate.
Abort(s) ==
  /\ Running
  /\ session[s] = "enqueue"
  /\ Pool!RefuseStopped(Current(s))
  /\ process' = "aborted"
  /\ UNCHANGED <<sess, work>>

Notify(s) ==
  /\ Running
  /\ session[s] = "notify"
  /\ Pool!NotifyOne(Current(s))
  /\ Goto(s, "await")
  /\ UNCHANGED <<reqs, answers, reply, work, process>>

\* Mutant of Get: the session gives up waiting and answers without a value.
GetTimingOut(s) ==
  /\ Running
  /\ session[s] = "await"
  /\ reply' = [reply EXCEPT ![s] = Reply(200, result[Current(s)])]
  /\ Goto(s, "write")
  /\ UNCHANGED <<pool, reqs, answers, work, process>>

\* Mutant of Get: the future of the connection's first request is read again.
GetStale(s) ==
  /\ Running
  /\ session[s] = "await"
  /\ <<s, 1>> \in ready
  /\ reply' = [reply EXCEPT ![s] = Reply(200, result[<<s, 1>>])]
  /\ Goto(s, "write")
  /\ UNCHANGED <<pool, reqs, answers, work, process>>

\* future.get()
Get(s) ==
  /\ Running
  /\ session[s] = "await"
  /\ Current(s) \in ready
  /\ reply' = [reply EXCEPT ![s] = Reply(200, result[Current(s)])]
  /\ Goto(s, "write")
  /\ UNCHANGED <<pool, reqs, answers, work, process>>

\* The answer of a request that was not keep-alive ends the session.
Write(s) ==
  /\ Running
  /\ session[s] = "write"
  /\ answers' = [answers EXCEPT ![s] = Append(@, reply[s])]
  /\ reply' = [reply EXCEPT ![s] = NoReply]
  /\ Goto(s, IF Request(Current(s)).keep_alive THEN "read" ELSE "end")
  /\ UNCHANGED <<pool, reqs, work, process>>

WriteFails(s) ==
  /\ Running
  /\ session[s] = "write"
  /\ reply' = [reply EXCEPT ![s] = NoReply]
  /\ Goto(s, "end")
  /\ UNCHANGED <<pool, reqs, answers, work, process>>

-----------------------------------------------------------------------------
(* A worker: the pool's loop around Server::process_request.               *)

WorkerLoop(w) ==
  /\ Running
  /\ \/ Pool!Sleep(w) \/ Pool!Exit(w) \/ Pool!Retire(w) \/ Pool!NotifyAll(w)
  /\ UNCHANGED <<sess, work, process>>

WakeUp(w) ==
  /\ Running
  /\ Pool!Spurious(w)
  /\ UNCHANGED <<sess, work, process>>

Begin(w) ==
  /\ Running
  /\ Pool!Take(w)
  /\ stage' = [stage EXCEPT ![w] = "parse"]
  /\ UNCHANGED <<sess, result, schema, unread, process>>

Step(w, from, to) ==
  /\ Running
  /\ stage[w] = from
  /\ stage' = [stage EXCEPT ![w] = to]
  /\ UNCHANGED <<pool, sess, result, unread, process>>

\* process_request returns a string, whatever happened: std::exception is caught
\* and turned into an error document.
Respond(w, from, body) ==
  /\ Running
  /\ stage[w] = from
  /\ Pool!Run(w)
  /\ result' = [result EXCEPT ![task[w]] = body]
  /\ stage' = [stage EXCEPT ![w] = "idle"]
  /\ UNCHANGED <<sess, process>>

Body(w) == Request(task[w]).body

Parse(w) ==
  \/ stage[w] = "parse" /\ Body(w) # "malformed" /\ Step(w, "parse", "schema")
                        /\ UNCHANGED schema
  \/ stage[w] = "parse" /\ Body(w) = "malformed" /\ Respond(w, "parse", "error")
                        /\ UNCHANGED <<schema, unread>>

\* The first thread to come initialises the static; others block until it is done.
GetSchema(w) ==
  \/ schema = "unset" /\ Step(w, "schema", "load") /\ schema' = "loading"
  \/ schema \in {"set", "destroyed"} /\ Step(w, "schema", "validate") /\ UNCHANGED schema

LoadSchema(w) == Step(w, "load", "validate") /\ schema' = "set"

\* The file cannot be opened or parsed: the exception leaves the static
\* uninitialised, and the next thread to come tries again.
LoadFails(w) ==
  /\ Respond(w, "load", "error")
  /\ schema' = "unset"
  /\ unread' = unread \cup {task[w]}

\* doc.Accept(validator) and the version check.  Undefined behaviour with a schema that
\* has been destroyed: the process dies, or the request is answered in any way.
Validate(w) ==
  \/ stage[w] = "validate" /\ schema # "destroyed" /\ Body(w) # "nonconforming"
       /\ Step(w, "validate", "calculate") /\ UNCHANGED schema
  \/ stage[w] = "validate" /\ schema # "destroyed" /\ Body(w) = "nonconforming"
       /\ Respond(w, "validate", "error") /\ UNCHANGED <<schema, unread>>
  \/ schema = "destroyed" /\ Respond(w, "validate", "undefined") /\ UNCHANGED <<schema, unread>>

ValidateCrashes(w) ==
  /\ Running
  /\ stage[w] = "validate" /\ schema = "destroyed"
  /\ process' = "aborted"
  /\ UNCHANGED <<pool, sess, work>>

\* deserialize_request and calculate_result, either of which may throw.
Calculate(w) ==
  /\ stage[w] = "calculate"
  /\ Respond(w, "calculate", IF Body(w) = "good" THEN "success" ELSE "error")
  /\ UNCHANGED <<schema, unread>>

Process(w) == \/ Parse(w) \/ GetSchema(w) \/ LoadSchema(w) \/ LoadFails(w)
              \/ Validate(w) \/ ValidateCrashes(w) \/ Calculate(w)

-----------------------------------------------------------------------------
(* The process: main, Server::run and the destruction of the statics.      *)

\* acceptor.accept throws: run returns, main returns, and exit destroys what is static,
\* the last constructed first: the schema, if there is one, before the Server.
AcceptFails ==
  /\ process = "up"
  /\ process' = "exiting"
  /\ schema' = IF schema = "set" THEN "destroyed" ELSE schema
  /\ UNCHANGED <<pool, sess, stage, result, unread>>

\* A schema that was still loading then is destroyed before the Server if it is there before
\* the destructor of the Server begins, and outlives it otherwise.
DestroySchema ==
  /\ process = "exiting" /\ dtor = "live"
  /\ schema = "set"
  /\ schema' = "destroyed"
  /\ UNCHANGED <<pool, sess, stage, result, unread, process>>

Destroy ==
  /\ process = "exiting"
  /\ Pool!Stop \/ Pool!StopNotify \/ Pool!Join
  /\ UNCHANGED <<sess, work, process>>

Exit ==
  /\ process = "exiting"
  /\ dtor = "done"
  /\ process' = "gone"
  /\ UNCHANGED <<pool, sess, work>>

Ended == process \in {"gone", "aborted"} /\ UNCHANGED vars

SessionStep(s) == \/ Enqueue(s) \/ Busy(s) \/ Abort(s) \/ Notify(s) \/ Get(s)
                  \/ Write(s) \/ WriteFails(s)
WorkerStep(w) == WorkerLoop(w) \/ Begin(w) \/ Process(w)

Next ==
  \/ \E s \in Sessions : Read(s) \/ Hangup(s) \/ SessionStep(s)
  \/ \E w \in Workers : WorkerStep(w) \/ WakeUp(w)
  \/ AcceptFails \/ DestroySchema \/ Destroy \/ Exit \/ Ended

Spec == Init /\ [][Next]_vars

\* Threads that can run do run; a client need not send anything, and the accept
\* loop need not fail.
Fairness ==
  /\ \A s \in Sessions : WF_vars(SessionStep(s))
  /\ \A w \in Workers : WF_vars(WorkerStep(w))
  /\ WF_vars(Destroy \/ Exit)

FairSpec == Spec /\ Fairness

-----------------------------------------------------------------------------
(* Properties.                                                             *)

\* The answer a request deserves.  503 is for a call the pool refused because its
\* queue was full; success is for a good body only, and a good body fails only if
\* the schema file could not be read during this very request, or if the process is
\* at its end and the schema gone.
Deserved(c) ==
  LET r == Request(c) IN
    IF r.method # "POST" \/ ~r.target THEN {Reply(400, "html")}
    ELSE IF call[c] = "full" THEN {Reply(503, "busy")}
    ELSE {Reply(200, IF r.body = "good" /\ c \notin unread THEN "success" ELSE "error")}
           \cup (IF schema = "destroyed" THEN {Reply(200, "undefined")} ELSE {})

\* The n-th answer a client gets on its connection is the answer of its n-th
\* request, although the answers are computed by threads shared by all the
\* sessions: no answer is lost, repeated, swapped or meant for somebody else.
OwnAnswer ==
  \A s \in Sessions : \A n \in DOMAIN answers[s] :
    answers[s][n] \in Deserved(<<s, n>>)

\* Tasks and sessions belong together.  Every task in the pool has a session blocked
\* on it, and a session has at most one: no calculation runs for a session that is
\* gone or is serving another request, so the load on the pool never exceeds the
\* number of connections.  And every session that is blocked has a task in the pool
\* or a value to be woken by, which the end of the pool does not take away: no future
\* is left without a value.
EveryTaskIsAwaited ==
  LET InPool == Pool!InQueue \cup UNION {Pool!HeldBy(w) : w \in Workers}
  IN  /\ \A c \in InPool : session[c[1]] \in {"notify", "await"} /\ c = Current(c[1])
      /\ \A s \in Sessions : session[s] = "await" =>
           Current(s) \in ready \cup (IF dtor = "done" THEN {} ELSE InPool)

\* An exception escapes a session's thread, or a worker uses a schema that is no more,
\* and so kills the process, only after the destruction of the statics has begun: a full
\* queue or a bad request never takes the server down.
AbortOnlyInShutdown == process = "aborted" => schema = "destroyed" \/ dtor # "live"

\* Every request that was read is answered, or writing the answer fails, unless
\* the process ends first.
EveryRequestIsServed ==
  \A s \in Sessions :
    session[s] = "enqueue" ~> (session[s] \in {"read", "end"} \/ ~Running)

\* Shutdown ends: the process exits, or something aborts it.
ShutdownEnds == process = "exiting" ~> ~Running

=============================================================================

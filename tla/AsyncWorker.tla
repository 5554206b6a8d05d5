----------------------------- MODULE AsyncWorker -----------------------------
(* tools/precompiler/precompiler.py, _AsyncPersistentWorker: the default    *)
(* worker.  One asyncio event loop runs run() and one task per request line; *)
(* _compile runs on a thread.  `ready` is the loop's queue of callbacks, in  *)
(* the order the loop runs them; each handler between two awaits is one step.*)
EXTENDS Naturals, Sequences, FiniteSets, Functions

CONSTANTS
    Requests,     \* request ids Bazel may use
    Cancellable,  \* requests Bazel may ask to cancel
    Malformed,    \* requests whose arguments argparse rejects
    Files         \* number of --src arguments of every request

ASSUME RequestsAssumption ==
    Malformed \subseteq Requests /\ Cancellable \subseteq Requests
ASSUME FilesAssumption == Files \in Nat \ {0}

VARIABLES
    asked, cancelling,  \* what Bazel has written so far
    pipe,               \* lines written by Bazel, not yet in the StreamReader
    closed,             \* Bazel has closed stdin
    buffer, atEof,      \* the StreamReader: unread lines, feed_eof() was called
    ready,              \* the event loop's queue
    status,             \* [Tasks -> state of each asyncio task]
    thread,             \* [Requests -> state of the thread running _compile]
    pycs,               \* [Requests -> pycs written so far]
    requestIdToTask,    \* _request_id_to_task
    taskToRequestId,    \* the keys of _task_to_request_id
    exited,             \* run() has ended, asyncio.run has cancelled every task
    responses           \* [Requests -> sequence of responses]

bazelVars == <<asked, cancelling, pipe, closed>>
loopVars == <<buffer, atEof, ready, status, requestIdToTask, taskToRequestId,
              exited, responses>>
threadVars == <<thread, pycs>>
vars == <<bazelVars, loopVars, threadVars>>

\* A request line and the task made for it.
Tasks == [id : Requests, cancel : BOOLEAN]

Main == [kind |-> "main"]
Step(t) == [kind |-> "step", task |-> t]
Done(t) == [kind |-> "done", task |-> t]

Init ==
    /\ asked = {} /\ cancelling = {} /\ pipe = <<>> /\ closed = FALSE
    /\ buffer = <<>> /\ atEof = FALSE /\ ready = <<>>
    /\ status = [t \in Tasks |-> "absent"]
    /\ thread = [r \in Requests |-> "idle"]
    /\ pycs = [r \in Requests |-> 0]
    /\ requestIdToTask = [r \in {} |-> {}]
    /\ taskToRequestId = {}
    /\ exited = FALSE
    /\ responses = [r \in Requests |-> <<>>]

-----------------------------------------------------------------------------
(* Bazel *)

SendCompile(r) ==
    /\ ~closed /\ r \notin asked
    /\ asked' = asked \cup {r}
    /\ pipe' = Append(pipe, [id |-> r, cancel |-> FALSE])
    /\ UNCHANGED <<cancelling, closed, loopVars, threadVars>>

SendCancel(r) ==
    /\ ~closed /\ r \in (asked \cap Cancellable) \ cancelling
    /\ cancelling' = cancelling \cup {r}
    /\ pipe' = Append(pipe, [id |-> r, cancel |-> TRUE])
    /\ UNCHANGED <<asked, closed, loopVars, threadVars>>

CloseStdin ==
    /\ ~closed
    /\ closed' = TRUE
    /\ UNCHANGED <<asked, cancelling, pipe, loopVars, threadVars>>

-----------------------------------------------------------------------------
(* The StreamReader: the transport feeds it any number of whole lines, and   *)
(* wakes run() when it is waiting in readline().                             *)

Waking(q) == IF Main \in Range(q) THEN q ELSE Append(q, Main)

ReceiveLines ==
    /\ ~exited
    /\ \E n \in 1..Len(pipe) :
        /\ buffer' = buffer \o SubSeq(pipe, 1, n)
        /\ pipe' = SubSeq(pipe, n + 1, Len(pipe))
    /\ ready' = Waking(ready)
    /\ UNCHANGED <<asked, cancelling, closed, atEof, status, requestIdToTask,
                   taskToRequestId, exited, responses, threadVars>>

ReceiveEof ==
    /\ ~exited /\ closed /\ pipe = <<>> /\ ~atEof
    /\ atEof' = TRUE
    /\ ready' = Waking(ready)
    /\ UNCHANGED <<bazelVars, buffer, status, requestIdToTask, taskToRequestId,
                   exited, responses, threadVars>>

-----------------------------------------------------------------------------
(* The event loop *)

\* The two dictionaries after one request line is registered: a cancel line
\* carries the id of the request it cancels and takes its entry.
Registered(map, lines) ==
    [r \in DOMAIN map \cup {lines[i].id : i \in DOMAIN lines} |->
        LET at == {i \in DOMAIN lines : lines[i].id = r}
        IN  IF at = {} THEN map[r]
            ELSE lines[CHOOSE i \in at : \A j \in at : j <= i]]

\* readline() only suspends when the buffer is empty, so run() makes a task
\* for every buffered line before any of them starts.  At the end of the
\* stream json.loads(b"") raises and the worker ends.
RunMain ==
    /\ ~exited /\ ready # <<>> /\ Head(ready) = Main
    /\ buffer' = <<>>
    /\ ready' = Tail(ready) \o [i \in DOMAIN buffer |-> Step(buffer[i])]
    /\ status' = [t \in Tasks |-> IF t \in Range(buffer) THEN "new" ELSE status[t]]
    /\ requestIdToTask' = Registered(requestIdToTask, buffer)
    /\ taskToRequestId' = taskToRequestId \cup Range(buffer)
    /\ exited' = atEof
    /\ UNCHANGED <<bazelVars, atEof, responses, threadVars>>

\* _process_request ends: the task's done callback is scheduled.
Finish(t, q, st) ==
    /\ ready' = Append(q, Done(t))
    /\ status' = [st EXCEPT ![t] = "finished"]

\* Mutant: the request id is forgotten as soon as the compile starts.
StartCompileUntracked(t) ==
    /\ ~exited /\ ready # <<>> /\ Head(ready) = Step(t)
    /\ ~t.cancel /\ status[t] = "new"
    /\ IF t.id \in Malformed
       THEN exited' = TRUE /\ UNCHANGED <<status, thread, requestIdToTask>>
       ELSE /\ status' = [status EXCEPT ![t] = "waiting"]
            /\ thread' = [thread EXCEPT ![t.id] = "running"]
            /\ requestIdToTask' = Restrict(requestIdToTask, DOMAIN requestIdToTask \ {t.id})
            /\ UNCHANGED exited
    /\ ready' = Tail(ready)
    /\ UNCHANGED <<bazelVars, buffer, atEof, taskToRequestId, responses, pycs>>

\* The first step of a compile: to_thread() hands _compile to a thread.
StartCompile(t) ==
    /\ ~exited /\ ready # <<>> /\ Head(ready) = Step(t)
    /\ ~t.cancel /\ status[t] = "new"
    /\ IF t.id \in Malformed
       THEN \* parse_args raised SystemExit: it leaves the loop
            exited' = TRUE /\ UNCHANGED <<status, thread>>
       ELSE /\ status' = [status EXCEPT ![t] = "waiting"]
            /\ thread' = [thread EXCEPT ![t.id] = "running"]
            /\ UNCHANGED exited
    /\ ready' = Tail(ready)
    /\ UNCHANGED <<bazelVars, buffer, atEof, requestIdToTask, taskToRequestId,
                   responses, pycs>>

\* Mutant: no return after the answer to a failed compile.
FinishCompileTwice(t) ==
    /\ ~exited /\ ready # <<>> /\ Head(ready) = Step(t)
    /\ ~t.cancel /\ status[t] \in {"waiting", "cancelled"}
    /\ Finish(t, Tail(ready), status)
    /\ responses' = [responses EXCEPT ![t.id] =
            @ \o (IF thread[t.id] = "ok" THEN <<"exit0">> ELSE <<"exit3", "exit0">>)]
    /\ UNCHANGED <<bazelVars, buffer, atEof, requestIdToTask, taskToRequestId,
                   exited, threadVars>>

\* A suspended compile goes on: it writes the thread's outcome, or, woken by
\* Task.cancel() with CancelledError, nothing.
FinishCompile(t) ==
    /\ ~exited /\ ready # <<>> /\ Head(ready) = Step(t)
    /\ ~t.cancel /\ status[t] \in {"waiting", "cancelled"}
    /\ Finish(t, Tail(ready), status)
    /\ responses' =
        IF status[t] = "cancelled" THEN responses
        ELSE [responses EXCEPT ![t.id] =
                Append(@, IF thread[t.id] = "ok" THEN "exit0" ELSE "exit3")]
    /\ UNCHANGED <<bazelVars, buffer, atEof, requestIdToTask, taskToRequestId,
                   exited, threadVars>>

\* Task.cancel(): a task waiting for its thread is woken with CancelledError,
\* one that has not started gets it at its first step; a finished task and
\* the thread itself are not affected.
Cancelled(t) ==
    IF status[t] \in {"new", "waiting"}
    THEN [status EXCEPT ![t] = "cancelled"] ELSE status
Woken(t, q) ==
    IF status[t] = "waiting" /\ thread[t.id] = "running"
    THEN Append(q, Step(t)) ELSE q

ProcessCancel(t) ==
    /\ ~exited /\ ready # <<>> /\ Head(ready) = Step(t)
    /\ t.cancel /\ status[t] = "new"
    /\ IF t.id \in DOMAIN requestIdToTask
       THEN LET victim == requestIdToTask[t.id] IN
            /\ Finish(t, Woken(victim, Tail(ready)), Cancelled(victim))
            /\ responses' = [responses EXCEPT ![t.id] = Append(@, "wasCancelled")]
       ELSE /\ Finish(t, Tail(ready), status)
            /\ UNCHANGED responses
    /\ UNCHANGED <<bazelVars, buffer, atEof, requestIdToTask, taskToRequestId,
                   exited, threadVars>>

\* Mutant: the request id is deleted first, so a KeyError leaves the task.
HandleTaskDoneIdFirst(t) ==
    /\ ~exited /\ ready # <<>> /\ Head(ready) = Done(t)
    /\ ready' = Tail(ready)
    /\ IF t.id \in DOMAIN requestIdToTask
       THEN /\ requestIdToTask' = Restrict(requestIdToTask, DOMAIN requestIdToTask \ {t.id})
            /\ taskToRequestId' = taskToRequestId \ {t}
       ELSE UNCHANGED <<requestIdToTask, taskToRequestId>>
    /\ UNCHANGED <<bazelVars, buffer, atEof, status, exited, responses, threadVars>>

\* When another task of the same request has already deleted the id, the
\* second `del` raises KeyError: the loop logs it and goes on.
HandleTaskDone(t) ==
    /\ ~exited /\ ready # <<>> /\ Head(ready) = Done(t)
    /\ ready' = Tail(ready)
    /\ taskToRequestId' = taskToRequestId \ {t}
    /\ requestIdToTask' = Restrict(requestIdToTask, DOMAIN requestIdToTask \ {t.id})
    /\ UNCHANGED <<bazelVars, buffer, atEof, status, exited, responses, threadVars>>

-----------------------------------------------------------------------------
(* The thread that runs _compile: it is never interrupted. *)

\* Mutant: the loop goes once too far.
CompileOneMore(r) ==
    /\ thread[r] = "running" /\ pycs[r] <= Files
    /\ pycs' = [pycs EXCEPT ![r] = @ + 1]
    /\ UNCHANGED <<bazelVars, loopVars, thread>>

CompileOne(r) ==
    /\ thread[r] = "running" /\ pycs[r] < Files
    /\ pycs' = [pycs EXCEPT ![r] = @ + 1]
    /\ UNCHANGED <<bazelVars, loopVars, thread>>

\* Mutant: an exception on the thread wakes nobody.
ThreadEndsSilently(r, outcome) ==
    LET t == [id |-> r, cancel |-> FALSE] IN
    /\ thread' = [thread EXCEPT ![r] = outcome]
    /\ ready' = IF ~exited /\ status[t] = "waiting" /\ outcome = "ok"
                THEN Append(ready, Step(t)) ELSE ready
    /\ UNCHANGED <<bazelVars, buffer, atEof, status, requestIdToTask,
                   taskToRequestId, exited, responses, pycs>>

\* The result wakes the task, unless the task was cancelled meanwhile.
ThreadEnds(r, outcome) ==
    LET t == [id |-> r, cancel |-> FALSE] IN
    /\ thread' = [thread EXCEPT ![r] = outcome]
    /\ ready' = IF ~exited /\ status[t] = "waiting" THEN Append(ready, Step(t)) ELSE ready
    /\ UNCHANGED <<bazelVars, buffer, atEof, status, requestIdToTask,
                   taskToRequestId, exited, responses, pycs>>

CompileError(r) == thread[r] = "running" /\ pycs[r] < Files /\ ThreadEnds(r, "failed")
\* Mutant: doraise is left out, so a compile that failed looks done.
CompileDoneAnyway(r) == thread[r] = "running" /\ ThreadEnds(r, "ok")
CompileDone(r) == thread[r] = "running" /\ pycs[r] = Files /\ ThreadEnds(r, "ok")

-----------------------------------------------------------------------------
Bazel == CloseStdin \/ \E r \in Requests : SendCompile(r) \/ SendCancel(r)

Loop ==
    \/ ReceiveLines
    \/ ReceiveEof
    \/ RunMain
    \/ \E t \in Tasks :
        \/ StartCompile(t)
        \/ FinishCompile(t)
        \/ ProcessCancel(t)
        \/ HandleTaskDone(t)

Thread(r) == CompileOne(r) \/ CompileError(r) \/ CompileDone(r)

Next == Bazel \/ Loop \/ \E r \in Requests : Thread(r)

\* The loop keeps turning and the pool gives every thread time; Bazel owes
\* the worker nothing.
Spec ==
    /\ Init /\ [][Next]_vars
    /\ WF_vars(Loop)
    /\ \A r \in Requests : WF_vars(Thread(r))
-----------------------------------------------------------------------------
TypeOK ==
    /\ asked \subseteq Requests /\ cancelling \subseteq asked
    /\ pipe \in Seq(Tasks) /\ buffer \in Seq(Tasks)
    /\ closed \in BOOLEAN /\ atEof \in BOOLEAN /\ exited \in BOOLEAN
    /\ Range(ready) \subseteq
            {Main} \cup {Step(t) : t \in Tasks} \cup {Done(t) : t \in Tasks}
    /\ status \in [Tasks -> {"absent", "new", "waiting", "cancelled", "finished"}]
    /\ thread \in [Requests -> {"idle", "running", "ok", "failed"}]
    /\ pycs \in [Requests -> 0..Files]
    /\ DOMAIN requestIdToTask \subseteq Requests
    /\ \A r \in DOMAIN requestIdToTask : requestIdToTask[r] \in Tasks
    /\ taskToRequestId \subseteq Tasks
    /\ \A r \in Requests :
        Range(responses[r]) \subseteq {"exit0", "exit3", "wasCancelled"}

\* The elements of a sequence at some places, in the same order.
InOrder(seq, places) ==
    [n \in 1..Cardinality(places) |->
        seq[CHOOSE i \in places : Cardinality({j \in places : j < i}) = n - 1]]

\* Where in the responses the exits are, and the exits.
ExitsAt(r) == {i \in DOMAIN responses[r] : responses[r][i] # "wasCancelled"}
Exits(r) == InOrder(responses[r], ExitsAt(r))

\* However cancels, threads and callbacks interleave, a compile is reported at
\* most once, and as a success only when its thread wrote every pyc: a cancel
\* does not stop the thread and does not make it run twice.
OneExitPerRequest ==
    \A r \in Requests :
        /\ \A i, j \in ExitsAt(r) : i = j
        /\ \A i \in ExitsAt(r) : responses[r][i] = "exit0" <=> pycs[r] = Files

\* _handle_task_done keeps the two dictionaries in step although a compile and
\* its cancel share one id and the KeyError of the second `del` aborts the
\* callback: _task_to_request_id has a task exactly until its done callback
\* ran, and no request id leads to a task that is gone.  Not every task can be
\* found by its id: a compile loses its entry to its cancel.
TablesFollowTasks ==
    ~exited =>
        /\ taskToRequestId = {t \in Tasks :
                \/ status[t] \in {"new", "waiting", "cancelled"}
                \/ Done(t) \in Range(ready)}
        /\ \A r \in DOMAIN requestIdToTask :
                requestIdToTask[r] \in taskToRequestId /\ requestIdToTask[r].id = r

\* "It must be already completed, so ignore the request": a cancel that ends
\* without a response left a request that had its response already.
IgnoredCancelWasCompleted ==
    \A r \in Requests :
        status[[id |-> r, cancel |-> TRUE]] = "finished" => responses[r] # <<>>

\* Every compile request is answered unless the worker exits: the reader, the
\* tasks and the threads never wait for each other.
EveryRequestAnswered ==
    \A r \in Requests : r \in asked ~> (responses[r] # <<>> \/ exited)

\* The exits of the compiles keep the worker protocol: whatever order threads
\* end in and whatever cancels arrive, a request has one exit at most, and only
\* if Bazel asked for it.  Answers to cancels are left out; with them a request
\* may be answered twice (AtMostOneResponse).
Protocol == INSTANCE WorkerProtocol WITH responses <- [r \in Requests |-> Exits(r)]
ImplementsProtocol == Protocol!Spec

\* The comments of _process_request and _process_cancel_request: a cancelled
\* request is answered by the cancel alone, a completed one is not answered
\* again.  Does not hold: the cancel's task takes the request's entry in
\* _request_id_to_task and cancels itself.
AtMostOneResponse == \A r \in Requests : Len(responses[r]) <= 1
=============================================================================

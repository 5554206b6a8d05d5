---------------------------- MODULE SerialWorker ----------------------------
(* tools/precompiler/precompiler.py, _SerialPersistentWorker: one request  *)
(* is read, compiled and answered before the next line of stdin is read.   *)
EXTENDS Naturals, Sequences

CONSTANTS
    Requests,   \* request ids Bazel may use
    Malformed,  \* requests whose arguments argparse rejects
    Files       \* number of --src arguments of every request

ASSUME RequestsAssumption == Malformed \subseteq Requests
ASSUME FilesAssumption == Files \in Nat \ {0}

VARIABLES
    asked, cancelling,  \* what Bazel has written so far
    stdin,       \* lines the worker has not read yet
    eof,         \* Bazel has closed stdin
    current,     \* the request being processed, or Idle / Exited
    pycs,        \* [Requests -> pycs written so far]
    responses    \* [Requests -> sequence of responses]

vars == <<asked, cancelling, stdin, eof, current, pycs, responses>>

Idle == [id |-> "none", state |-> "idle"]
Exited == [id |-> "none", state |-> "exited"]
Busy(r) == [id |-> r, state |-> "busy"]

Line == [id : Requests, cancel : BOOLEAN]

Init ==
    /\ asked = {}
    /\ cancelling = {}
    /\ stdin = <<>>
    /\ eof = FALSE
    /\ current = Idle
    /\ pycs = [r \in Requests |-> 0]
    /\ responses = [r \in Requests |-> <<>>]

-----------------------------------------------------------------------------
(* Bazel *)

SendCompile(r) ==
    /\ ~eof
    /\ r \notin asked
    /\ asked' = asked \cup {r}
    /\ stdin' = Append(stdin, [id |-> r, cancel |-> FALSE])
    /\ UNCHANGED <<cancelling, eof, current, pycs, responses>>

SendCancel(r) ==
    /\ ~eof
    /\ r \in asked \ cancelling
    /\ cancelling' = cancelling \cup {r}
    /\ stdin' = Append(stdin, [id |-> r, cancel |-> TRUE])
    /\ UNCHANGED <<asked, eof, current, pycs, responses>>

CloseStdin ==
    /\ ~eof
    /\ eof' = TRUE
    /\ UNCHANGED <<asked, cancelling, stdin, current, pycs, responses>>

-----------------------------------------------------------------------------
(* The worker *)

NextLine == Head(stdin)

\* Mutant: the "cancel" field of a line is not looked at.
GetNextRequestUnseenCancel ==
    /\ current = Idle
    /\ stdin # <<>>
    /\ stdin' = Tail(stdin)
    /\ current' = IF NextLine.id \in Malformed THEN Exited ELSE Busy(NextLine.id)
    /\ UNCHANGED <<asked, cancelling, eof, pycs, responses>>

\* _process_request returns None for a cancel: nothing is written, the loop
\* goes on.  parse_args leaves with SystemExit, which `except Exception`
\* does not catch: a malformed request ends the worker unanswered.
GetNextRequest ==
    /\ current = Idle
    /\ stdin # <<>>
    /\ stdin' = Tail(stdin)
    /\ current' = IF NextLine.cancel THEN Idle
                  ELSE IF NextLine.id \in Malformed THEN Exited
                  ELSE Busy(NextLine.id)
    /\ UNCHANGED <<asked, cancelling, eof, pycs, responses>>

EmptyRequest ==
    /\ current = Idle
    /\ stdin = <<>>
    /\ eof
    /\ current' = Exited
    /\ UNCHANGED <<asked, cancelling, stdin, eof, pycs, responses>>

\* Mutant: the loop goes once too far.
CompileOneMore(r) ==
    /\ current = Busy(r)
    /\ pycs[r] <= Files
    /\ pycs' = [pycs EXCEPT ![r] = @ + 1]
    /\ UNCHANGED <<asked, cancelling, stdin, eof, current, responses>>

\* One iteration of _compile's loop.
CompileOne(r) ==
    /\ current = Busy(r)
    /\ pycs[r] < Files
    /\ pycs' = [pycs EXCEPT ![r] = @ + 1]
    /\ UNCHANGED <<asked, cancelling, stdin, eof, current, responses>>

SendResponse(r, kind) ==
    /\ responses' = [responses EXCEPT ![r] = Append(@, kind)]
    /\ current' = Idle
    /\ UNCHANGED <<asked, cancelling, stdin, eof, pycs>>

\* Mutant: the exception of a compile is logged, not answered.
CompileErrorLogged(r) ==
    /\ current = Busy(r)
    /\ pycs[r] < Files
    /\ current' = Idle
    /\ UNCHANGED <<asked, cancelling, stdin, eof, pycs, responses>>

\* py_compile.compile(..., doraise=True) raised for the next source.
CompileError(r) ==
    /\ current = Busy(r)
    /\ pycs[r] < Files
    /\ SendResponse(r, "exit3")

\* Mutant: doraise is left out, so a compile that failed looks done.
CompileDoneAnyway(r) == current = Busy(r) /\ SendResponse(r, "exit0")

CompileDone(r) ==
    /\ current = Busy(r)
    /\ pycs[r] = Files
    /\ SendResponse(r, "exit0")

Bazel == CloseStdin \/ \E r \in Requests : SendCompile(r) \/ SendCancel(r)

Worker ==
    \/ GetNextRequest
    \/ EmptyRequest
    \/ \E r \in Requests : CompileOne(r) \/ CompileError(r) \/ CompileDone(r)

Next == Bazel \/ Worker

\* The worker process keeps running; Bazel owes it nothing.
Spec == Init /\ [][Next]_vars /\ WF_vars(Worker)

-----------------------------------------------------------------------------
TypeOK ==
    /\ asked \subseteq Requests
    /\ cancelling \subseteq Requests
    /\ stdin \in Seq(Line)
    /\ eof \in BOOLEAN
    /\ current \in {Idle, Exited} \cup {Busy(r) : r \in Requests}
    /\ pycs \in [Requests -> 0..Files]
    /\ responses \in [Requests -> Seq({"exit0", "exit3"})]

\* A success is reported for a request only when every pyc it names has been
\* written, and an error only when one is missing (_compile, _process_request).
ResponseTellsTheTruth ==
    \A r \in Requests :
        responses[r] # <<>> => (responses[r][1] = "exit0" <=> pycs[r] = Files)

\* The serial worker keeps the worker protocol, cancellations included: a
\* cancel that comes after the answer, or before the request was started,
\* never makes it answer twice.
Protocol == INSTANCE WorkerProtocol
ImplementsProtocol == Protocol!Spec

\* Every compile request is answered, unless the worker exits: a cancel read
\* in between never swallows the request behind it.
EveryRequestAnswered ==
    \A r \in Requests :
        r \in asked ~> (responses[r] # <<>> \/ current = Exited)
=============================================================================

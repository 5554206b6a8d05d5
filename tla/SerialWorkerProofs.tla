-------------------------- MODULE SerialWorkerProofs --------------------------
(* The serial worker keeps the worker protocol and reports the truth, for any *)
(* number of requests and of sources in a request.                            *)
EXTENDS SerialWorker, TLAPS

Compiles(i) == i \in DOMAIN stdin /\ ~stdin[i].cancel

\* A request that has not reached the worker leaves no trace.
Untouched(r) == pycs[r] = 0 /\ responses[r] = <<>> /\ current # Busy(r)

\* What is true of lines on their way, the induction needs it: a compile line
\* is read once, and until then nothing was done for its request.
LinesInv ==
    /\ \A r \in Requests : r \notin asked => Untouched(r)
    /\ \A i \in DOMAIN stdin : stdin[i].id \in asked
    /\ \A i \in DOMAIN stdin : Compiles(i) => Untouched(stdin[i].id)
    /\ \A i, j \in DOMAIN stdin :
        Compiles(i) /\ Compiles(j) /\ stdin[i].id = stdin[j].id => i = j

BusyInv == \A r \in Requests : current = Busy(r) => r \in asked /\ responses[r] = <<>>

IInv == TypeOK /\ LinesInv /\ BusyInv /\ ResponseTellsTheTruth

-----------------------------------------------------------------------------
\* The states of the worker are told apart by their "state" field, and busy
\* ones by the request.
LEMMA CurrentStates ==
    /\ Idle # Exited
    /\ \A r : Busy(r) # Idle /\ Busy(r) # Exited
    /\ \A r, s : Busy(r) = Busy(s) => r = s
<1>1. /\ Idle.state = "idle" /\ Exited.state = "exited"
      /\ \A r : Busy(r).state = "busy" /\ Busy(r).id = r
  BY DEF Idle, Exited, Busy
<1>2. QED BY <1>1

\* Reading the first line of stdin: what is left is the same lines, one
\* position earlier, and the first line is none of them.
LEMMA TailOfStdin ==
    ASSUME NEW S, NEW q \in Seq(S), q # <<>>
    PROVE  /\ Tail(q) \in Seq(S) /\ Head(q) = q[1] /\ Head(q) \in S /\ 1 \in DOMAIN q
           /\ \A i \in DOMAIN Tail(q) : i + 1 \in DOMAIN q /\ i + 1 # 1 /\ Tail(q)[i] = q[i + 1]
  OBVIOUS

\* Writing a line: the lines before it stay where they are.
LEMMA AppendToStdin ==
    ASSUME NEW S, NEW q \in Seq(S), NEW e \in S
    PROVE  /\ Append(q, e) \in Seq(S)
           /\ \A i \in DOMAIN Append(q, e) :
                \/ i \in DOMAIN q /\ Append(q, e)[i] = q[i]
                \/ i \notin DOMAIN q /\ i = Len(q) + 1 /\ Append(q, e)[i] = e
  OBVIOUS

\* Every line carries the id of one of Bazel's requests.
LEMMA LineIds == ASSUME NEW q \in Seq(Line) PROVE \A i \in DOMAIN q : q[i].id \in Requests
<1>1. \A i \in DOMAIN q : q[i] \in Line
  OBVIOUS
<1>2. QED BY <1>1 DEF Line

LEMMA InitInvariant == Init => IInv
<1>. SUFFICES ASSUME Init PROVE IInv
  OBVIOUS
<1>1. TypeOK
  <2>1. /\ stdin \in Seq(Line)
        /\ responses \in [Requests -> Seq({"exit0", "exit3"})]
    BY DEF Init
  <2>2. pycs \in [Requests -> 0..Files]
    BY FilesAssumption DEF Init
  <2>3. QED BY <2>1, <2>2 DEF Init, TypeOK
<1>2. LinesInv /\ BusyInv /\ ResponseTellsTheTruth
  BY CurrentStates DEF Init, LinesInv, BusyInv, ResponseTellsTheTruth, Untouched, Compiles
<1>3. QED BY <1>1, <1>2 DEF IInv

LEMMA NextInvariant == IInv /\ [Next]_vars => IInv'
<1>. SUFFICES ASSUME IInv, [Next]_vars PROVE IInv'
  OBVIOUS
<1>. USE FilesAssumption, CurrentStates DEF IInv
<1>1. ASSUME NEW r \in Requests, SendCompile(r) PROVE IInv'
  <2>. DEFINE e == [id |-> r, cancel |-> FALSE]
  <2>1. e \in Line /\ stdin \in Seq(Line)
    BY DEF Line, TypeOK
  <2>2. /\ stdin' = Append(stdin, e) /\ stdin' \in Seq(Line)
        /\ \A i \in DOMAIN stdin' :
                \/ i \in DOMAIN stdin /\ stdin'[i] = stdin[i]
                \/ i \notin DOMAIN stdin /\ i = Len(stdin) + 1 /\ stdin'[i] = e
    BY <1>1, <2>1, AppendToStdin DEF SendCompile
  <2>3. TypeOK'
    BY <1>1, <2>2 DEF SendCompile, TypeOK
  <2>4. LinesInv'
    <3>1. Untouched(r) /\ \A s : Untouched(s)' <=> Untouched(s)
      BY <1>1 DEF SendCompile, LinesInv, Untouched
    <3>2. \A i \in DOMAIN stdin : stdin[i].id # r
      BY <1>1 DEF SendCompile, LinesInv
    <3>3. QED BY <1>1, <2>2, <3>1, <3>2 DEF SendCompile, LinesInv, Compiles
  <2>5. BusyInv' /\ ResponseTellsTheTruth'
    BY <1>1 DEF SendCompile, BusyInv, ResponseTellsTheTruth
  <2>6. QED BY <2>3, <2>4, <2>5
<1>2. ASSUME NEW r \in Requests, SendCancel(r) PROVE IInv'
  <2>. DEFINE e == [id |-> r, cancel |-> TRUE]
  <2>1. e \in Line /\ stdin \in Seq(Line)
    BY DEF Line, TypeOK
  <2>2. /\ stdin' = Append(stdin, e) /\ stdin' \in Seq(Line)
        /\ \A i \in DOMAIN stdin' :
                \/ i \in DOMAIN stdin /\ stdin'[i] = stdin[i]
                \/ i \notin DOMAIN stdin /\ i = Len(stdin) + 1 /\ stdin'[i] = e
    BY <1>2, <2>1, AppendToStdin DEF SendCancel
  <2>3. TypeOK'
    BY <1>2, <2>2 DEF SendCancel, TypeOK
  <2>4. LinesInv'
    BY <1>2, <2>2 DEF SendCancel, LinesInv, Compiles, Untouched
  <2>5. BusyInv' /\ ResponseTellsTheTruth'
    BY <1>2 DEF SendCancel, BusyInv, ResponseTellsTheTruth
  <2>6. QED BY <2>3, <2>4, <2>5
<1>3. CASE CloseStdin
  BY <1>3 DEF CloseStdin, TypeOK, LinesInv, BusyInv, ResponseTellsTheTruth, Compiles, Untouched
<1>4. CASE GetNextRequest
  <2>1. /\ stdin' \in Seq(Line) /\ NextLine = stdin[1] /\ NextLine \in Line /\ 1 \in DOMAIN stdin
        /\ \A i \in DOMAIN stdin' :
                i + 1 \in DOMAIN stdin /\ i + 1 # 1 /\ stdin'[i] = stdin[i + 1] /\ i \in Nat
    BY <1>4, TailOfStdin DEF GetNextRequest, NextLine, TypeOK
  <2>2. NextLine.id \in Requests /\ NextLine.cancel \in BOOLEAN /\ NextLine.id \in asked
    BY <2>1 DEF Line, LinesInv
  <2>3. TypeOK'
    BY <1>4, <2>1, <2>2 DEF GetNextRequest, TypeOK
  <2>4. CASE NextLine.cancel \/ NextLine.id \in Malformed
    <3>1. \A r : current' # Busy(r)
      BY <1>4, <2>4 DEF GetNextRequest
    <3>2. LinesInv'
      BY <1>4, <2>1, <3>1 DEF GetNextRequest, LinesInv, Compiles, Untouched
    <3>3. QED BY <1>4, <2>3, <3>1, <3>2 DEF GetNextRequest, BusyInv, ResponseTellsTheTruth
  <2>5. CASE ~NextLine.cancel /\ NextLine.id \notin Malformed
    <3>1. current' = Busy(NextLine.id) /\ Untouched(NextLine.id)
      BY <1>4, <2>1, <2>5 DEF GetNextRequest, LinesInv, Compiles
    <3>2. \A i \in DOMAIN stdin' : Compiles(i)' => stdin'[i].id # NextLine.id
      BY <2>1, <2>5 DEF LinesInv, Compiles
    <3>3. \A i \in DOMAIN stdin' : stdin'[i].id \in Requests
      BY <2>1, LineIds
    <3>4. LinesInv'
      BY <1>4, <2>1, <2>2, <3>1, <3>2, <3>3 DEF GetNextRequest, LinesInv, Compiles, Untouched
    <3>5. BusyInv' /\ ResponseTellsTheTruth'
      BY <1>4, <2>2, <3>1 DEF GetNextRequest, BusyInv, ResponseTellsTheTruth, Untouched
    <3>6. QED BY <2>3, <3>4, <3>5
  <2>6. QED BY <2>4, <2>5
<1>5. CASE EmptyRequest
  BY <1>5 DEF EmptyRequest, TypeOK, LinesInv, BusyInv, ResponseTellsTheTruth, Compiles, Untouched
<1>6. ASSUME NEW r \in Requests, CompileOne(r) PROVE IInv'
  <2>1. r \in asked /\ responses[r] = <<>> /\ ~Untouched(r)
    BY <1>6 DEF CompileOne, BusyInv, Untouched
  <2>2. TypeOK'
    BY <1>6 DEF CompileOne, TypeOK
  <2>3. \A s \in Requests \ {r} : Untouched(s)' <=> Untouched(s)
    BY <1>6 DEF CompileOne, Untouched, TypeOK
  <2>4. \A i \in DOMAIN stdin : stdin[i].id \in Requests
    BY LineIds DEF TypeOK
  <2>5. LinesInv'
    BY <1>6, <2>1, <2>3, <2>4 DEF CompileOne, LinesInv, Compiles
  <2>6. BusyInv' /\ ResponseTellsTheTruth'
    BY <1>6, <2>1 DEF CompileOne, BusyInv, ResponseTellsTheTruth, TypeOK
  <2>7. QED BY <2>2, <2>5, <2>6
<1>7. ASSUME NEW r \in Requests, CompileError(r) \/ CompileDone(r) PROVE IInv'
  <2>. PICK kind \in {"exit0", "exit3"} :
            /\ SendResponse(r, kind)
            /\ kind = "exit0" <=> pycs[r] = Files
    BY <1>7 DEF CompileError, CompileDone, TypeOK
  <2>1. current = Busy(r) /\ r \in asked /\ responses[r] = <<>> /\ ~Untouched(r)
    BY <1>7 DEF CompileError, CompileDone, BusyInv, Untouched
  <2>2. responses' = [responses EXCEPT ![r] = <<kind>>]
    BY <2>1 DEF SendResponse
  <2>3. TypeOK'
    BY <2>2 DEF SendResponse, TypeOK
  <2>4. \A s \in Requests \ {r} : Untouched(s)' <=> Untouched(s)
    BY <2>1, <2>2 DEF SendResponse, Untouched, TypeOK
  <2>5. \A i \in DOMAIN stdin : stdin[i].id \in Requests
    BY LineIds DEF TypeOK
  <2>6. LinesInv'
    BY <2>1, <2>4, <2>5 DEF SendResponse, LinesInv, Compiles
  <2>7. BusyInv' /\ ResponseTellsTheTruth'
    BY <2>1, <2>2 DEF SendResponse, BusyInv, ResponseTellsTheTruth, TypeOK
  <2>8. QED BY <2>3, <2>6, <2>7
<1>8. CASE UNCHANGED vars
  BY <1>8 DEF vars, TypeOK, LinesInv, BusyInv, ResponseTellsTheTruth, Compiles, Untouched
<1>9. QED BY <1>1, <1>2, <1>3, <1>4, <1>5, <1>6, <1>7, <1>8 DEF Next, Bazel, Worker

-----------------------------------------------------------------------------
\* The inductive invariant holds in every reachable state.
LEMMA Invariant == Spec => []IInv
<1>1. QED BY InitInvariant, NextInvariant, PTL DEF Spec

\* Type correctness of the serial worker, for every value of the constants.
THEOREM TypeCorrect == Spec => []TypeOK
<1>1. IInv => TypeOK
  BY DEF IInv
<1>2. QED BY <1>1, Invariant, PTL

\* _process_request never reports a success with a pyc missing nor an error
\* with all of them written.
THEOREM ResponsesAreTrue == Spec => []ResponseTellsTheTruth
<1>1. IInv => ResponseTellsTheTruth
  BY DEF IInv
<1>2. QED BY <1>1, Invariant, PTL

\* The serial worker implements the worker protocol: it answers a request at
\* most once, and only after Bazel has sent it, whatever cancels arrive.
THEOREM Refinement == Spec => ImplementsProtocol
<1>1. Init => Protocol!Init
  BY DEF Init, Protocol!Init
<1>2. IInv /\ [Next]_vars => [Protocol!Next]_(Protocol!protocolVars)
  <2>. SUFFICES ASSUME IInv, [Next]_vars
                PROVE  [Protocol!Next]_(Protocol!protocolVars)
    OBVIOUS
  <2>1. ASSUME NEW r \in Requests, SendCompile(r) PROVE Protocol!Next
    BY <2>1 DEF SendCompile, Protocol!Next, Protocol!Ask
  <2>2. ASSUME NEW r \in Requests, SendCancel(r) PROVE Protocol!Next
    BY <2>2 DEF SendCancel, Protocol!Next, Protocol!AskCancel
  <2>3. ASSUME NEW r \in Requests, CompileError(r) \/ CompileDone(r) PROVE Protocol!Next
    <3>. PICK kind \in {"exit0", "exit3"} : SendResponse(r, kind)
      BY <2>3 DEF CompileError, CompileDone
    <3>1. r \in asked /\ responses[r] = <<>>
      BY <2>3 DEF CompileError, CompileDone, IInv, BusyInv
    <3>2. Protocol!Respond(r, kind)
      BY <3>1 DEF SendResponse, Protocol!Respond
    <3>3. QED BY <3>2 DEF Protocol!Next, Protocol!ResponseKinds
  <2>4. CASE CloseStdin \/ GetNextRequest \/ EmptyRequest \/ \E r \in Requests : CompileOne(r)
    BY <2>4 DEF CloseStdin, GetNextRequest, EmptyRequest, CompileOne, Protocol!protocolVars
  <2>5. CASE UNCHANGED vars
    BY <2>5 DEF vars, Protocol!protocolVars
  <2>6. QED BY <2>1, <2>2, <2>3, <2>4, <2>5 DEF Next, Bazel, Worker
<1>3. QED BY <1>1, <1>2, Invariant, PTL DEF Spec, ImplementsProtocol, Protocol!Spec
=============================================================================

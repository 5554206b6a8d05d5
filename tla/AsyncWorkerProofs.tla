-------------------------- MODULE AsyncWorkerProofs --------------------------
(* AsyncWorker for any requests, cancels and number of files: every request   *)
(* has one exit, the dictionaries follow the tasks, no cancel ever cancels a  *)
(* compile, and the exits keep the worker protocol.                           *)
EXTENDS AsyncWorker, SequenceTheorems, FiniteSetTheorems, TLAPS

Compile(r) == [id |-> r, cancel |-> FALSE]
Cancel(r) == [id |-> r, cancel |-> TRUE]
Callbacks == {Main} \cup {Step(t) : t \in Tasks} \cup {Done(t) : t \in Tasks}
Answers == {"exit0", "exit3", "wasCancelled"}

\* What Bazel has written and run() has not made a task for.
Lines == buffer \o pipe

Distinct(s) == \A i, j \in DOMAIN s : s[i] = s[j] => i = j
\* A cancel comes after the compile it is about.
Ordered(s) == \A i, j \in DOMAIN s : s[i].id = s[j].id /\ s[i].cancel => j <= i

TypeInv ==
    /\ TypeOK
    /\ ready \in Seq(Callbacks)
    /\ responses \in [Requests -> Seq(Answers)]

\* A line is written once, and has no task before it is read.
LinesInv ==
    /\ Distinct(Lines) /\ Ordered(Lines)
    /\ \A t \in Range(Lines) : status[t] = "absent"
    /\ \A t \in Tasks :
        t \in Range(Lines) \/ status[t] # "absent" =>
            t.id \in asked /\ (t.cancel => t.id \in cancelling)
    /\ \A r \in Requests : status[Cancel(r)] # "absent" => Compile(r) \notin Range(Lines)

\* A callback is queued once.  A compile waits for its thread until the queue
\* has its next step.
QueueInv ==
    /\ Distinct(ready)
    /\ \A t \in Tasks :
        /\ Step(t) \in Range(ready) => status[t] \in {"new", "waiting"}
        /\ Done(t) \in Range(ready) => status[t] = "finished"
        /\ status[t] = "waiting" =>
            ~t.cancel /\ (Step(t) \in Range(ready) => thread[t.id] \in {"ok", "failed"})

\* The cancel's own task has taken the entry of the compile.
NeverCancelled == \A t \in Tasks : status[t] # "cancelled"

TablesInv ==
    /\ taskToRequestId = {t \in Tasks :
            status[t] \in {"new", "waiting"} \/ Done(t) \in Range(ready)}
    /\ \A r \in DOMAIN requestIdToTask :
        /\ requestIdToTask[r] \in taskToRequestId /\ requestIdToTask[r].id = r
        /\ ~requestIdToTask[r].cancel => status[Cancel(r)] = "absent"

\* An exit is there when the compile has finished, and says how it went.
ExitsInv ==
    \A r \in Requests :
        /\ thread[r] = "ok" => pycs[r] = Files
        /\ thread[r] = "failed" => pycs[r] < Files
        /\ status[Compile(r)] # "finished" => ExitsAt(r) = {}
        /\ status[Compile(r)] = "finished" =>
            /\ thread[r] \in {"ok", "failed"}
            /\ \E i \in DOMAIN responses[r] :
                /\ ExitsAt(r) = {i}
                /\ responses[r][i] = IF thread[r] = "ok" THEN "exit0" ELSE "exit3"

CancelsInv ==
    \A r \in Requests :
        /\ status[Cancel(r)] = "new" /\ r \notin DOMAIN requestIdToTask =>
            status[Compile(r)] = "finished"
        /\ status[Cancel(r)] = "finished" => responses[r] # <<>>

IInv ==
    /\ TypeInv /\ LinesInv /\ QueueInv /\ NeverCancelled
    /\ TablesInv /\ ExitsInv /\ CancelsInv

-----------------------------------------------------------------------------
(* Queues *)

\* Taking the first element out.
LEMMA TailFacts ==
    ASSUME NEW S, NEW q \in Seq(S), q # <<>>
    PROVE  /\ Tail(q) \in Seq(S) /\ Head(q) \in S
           /\ Range(q) = {Head(q)} \cup Range(Tail(q))
           /\ Distinct(q) => Distinct(Tail(q)) /\ Head(q) \notin Range(Tail(q))
<1>1. /\ Head(q) \in S /\ Tail(q) \in Seq(S)
      /\ Len(Tail(q)) = Len(q) - 1
      /\ \A i \in 1..Len(Tail(q)) : Tail(q)[i] = q[i + 1]
  BY HeadTailProperties
<1>2. /\ Head(q) = q[1] /\ Len(q) \in Nat \ {0}
      /\ DOMAIN q = 1..Len(q) /\ DOMAIN Tail(q) = 1..(Len(q) - 1)
  BY <1>1, EmptySeq, LenProperties
<1>3. \A i \in DOMAIN Tail(q) : Tail(q)[i] = q[i + 1] /\ i + 1 \in DOMAIN q
  BY <1>1, <1>2
<1>4. \A i \in DOMAIN q : i = 1 \/ (i - 1 \in DOMAIN Tail(q) /\ Tail(q)[i - 1] = q[i])
  BY <1>1, <1>2
<1>5. Range(q) = {Head(q)} \cup Range(Tail(q))
  <2>1. 1 \in DOMAIN q
    BY <1>2
  <2>. QED BY <1>2, <1>3, <1>4, <2>1 DEF Range
<1>6. ASSUME Distinct(q) PROVE Distinct(Tail(q)) /\ Head(q) \notin Range(Tail(q))
  <2>1. Distinct(Tail(q))
    BY <1>2, <1>3, <1>6 DEF Distinct
  <2>2. ASSUME NEW i \in DOMAIN Tail(q) PROVE Tail(q)[i] # Head(q)
    <3>1. i + 1 # 1 /\ i + 1 \in DOMAIN q /\ 1 \in DOMAIN q
      BY <1>2
    <3>. QED BY <1>2, <1>3, <1>6, <3>1 DEF Distinct
  <2>. QED BY <2>1, <2>2 DEF Range
<1>. QED BY <1>1, <1>5, <1>6

\* Putting one at the end.
LEMMA AppendFacts ==
    ASSUME NEW S, NEW q \in Seq(S), NEW e \in S
    PROVE  /\ Append(q, e) \in Seq(S)
           /\ Range(Append(q, e)) = Range(q) \cup {e}
           /\ Distinct(q) /\ e \notin Range(q) => Distinct(Append(q, e))
<1>. DEFINE n == Len(q) + 1
<1>1. /\ Append(q, e) \in Seq(S) /\ n \in Nat
      /\ DOMAIN q = 1..Len(q) /\ DOMAIN Append(q, e) = 1..n
      /\ \A i \in 1..Len(q) : Append(q, e)[i] = q[i]
      /\ Append(q, e)[n] = e
  BY AppendProperties, LenProperties
<1>2. DOMAIN Append(q, e) = DOMAIN q \cup {n} /\ n \notin DOMAIN q
  BY <1>1, LenProperties
<1>. HIDE DEF n
<1>3. Range(Append(q, e)) = Range(q) \cup {e}
  BY <1>1, <1>2 DEF Range
<1>4. Distinct(q) /\ e \notin Range(q) => Distinct(Append(q, e))
  BY <1>1, <1>2 DEF Range, Distinct
<1>. QED BY <1>1, <1>3, <1>4

\* One queue behind the other.
LEMMA ConcatFacts ==
    ASSUME NEW S, NEW p \in Seq(S), NEW q \in Seq(S)
    PROVE  /\ p \o q \in Seq(S)
           /\ Range(p \o q) = Range(p) \cup Range(q)
           /\ Distinct(p \o q) <=> Distinct(p) /\ Distinct(q) /\ Range(p) \cap Range(q) = {}
<1>. DEFINE n == Len(p)
            At(i) == i + n
<1>1. /\ p \o q \in Seq(S) /\ n \in Nat /\ Len(q) \in Nat
      /\ DOMAIN p = 1..n /\ DOMAIN q = 1..Len(q) /\ DOMAIN (p \o q) = 1..(n + Len(q))
      /\ \A i \in 1..(n + Len(q)) : (p \o q)[i] = IF i <= n THEN p[i] ELSE q[i - n]
  BY ConcatProperties, LenProperties
<1>2. \A i \in DOMAIN p : i \in DOMAIN (p \o q) /\ (p \o q)[i] = p[i]
  BY <1>1
<1>3. \A i \in DOMAIN q : At(i) \in DOMAIN (p \o q) /\ (p \o q)[At(i)] = q[i] /\ At(i) \notin DOMAIN p
  BY <1>1
<1>4. \A k \in DOMAIN (p \o q) : k \in DOMAIN p \/ (\E i \in DOMAIN q : k = At(i))
  <2>1. ASSUME NEW k \in DOMAIN (p \o q), k \notin DOMAIN p PROVE k - n \in DOMAIN q /\ k = At(k - n)
    BY <1>1, <2>1
  <2>. QED BY <2>1
<1>5. \A i, j \in DOMAIN q : At(i) = At(j) => i = j
  BY <1>1
<1>6. Range(p \o q) = Range(p) \cup Range(q)
  BY RangeConcatenation
<1>. HIDE DEF n, At
<1>7. ASSUME Distinct(p \o q)
      PROVE  Distinct(p) /\ Distinct(q) /\ Range(p) \cap Range(q) = {}
  <2>1. Distinct(p)
    BY <1>2, <1>7 DEF Distinct
  <2>2. Distinct(q)
    BY <1>3, <1>5, <1>7 DEF Distinct
  <2>3. ASSUME NEW i \in DOMAIN p, NEW j \in DOMAIN q, p[i] = q[j] PROVE FALSE
    BY <1>2, <1>3, <1>7, <2>3 DEF Distinct
  <2>. QED BY <2>1, <2>2, <2>3 DEF Range
<1>8. ASSUME Distinct(p), Distinct(q), Range(p) \cap Range(q) = {}
      PROVE  Distinct(p \o q)
  <2>1. \A i \in DOMAIN p, j \in DOMAIN q : p[i] # q[j]
    BY <1>8 DEF Range
  <2>. QED BY <1>2, <1>3, <1>4, <1>8, <2>1 DEF Distinct
<1>. QED BY <1>1, <1>6, <1>7, <1>8

\* A sequence of lines that keeps its order when one is written or read.
LEMMA OrderFacts ==
    ASSUME NEW p \in Seq(Tasks), NEW q \in Seq(Tasks), NEW t \in Tasks
    PROVE  /\ Ordered(p) /\ (\A u \in Range(p) : u.cancel => u.id # t.id) => Ordered(Append(p, t))
           /\ Ordered(p \o q) =>
                /\ Ordered(p) /\ Ordered(q)
                /\ \A u \in Range(p), v \in Range(q) : u.cancel => u.id # v.id
<1>. DEFINE n == Len(p)
<1>0. /\ n \in Nat /\ Len(q) \in Nat /\ DOMAIN p = 1..n /\ DOMAIN q = 1..Len(q)
  BY LenProperties
<1>1. ASSUME Ordered(p), \A u \in Range(p) : u.cancel => u.id # t.id
      PROVE  Ordered(Append(p, t))
  <2>1. /\ DOMAIN Append(p, t) = 1..(n + 1)
        /\ \A i \in 1..n : Append(p, t)[i] = p[i]
        /\ Append(p, t)[n + 1] = t
    BY AppendProperties, LenProperties
  <2>2. ASSUME NEW i \in DOMAIN Append(p, t), NEW j \in DOMAIN Append(p, t), ~(j <= i),
               Append(p, t)[i].id = Append(p, t)[j].id, Append(p, t)[i].cancel
        PROVE  FALSE
    <3>1. i \in DOMAIN p /\ Append(p, t)[i] = p[i] /\ p[i] \in Range(p)
      BY <1>0, <2>1, <2>2 DEF Range
    <3>2. CASE j = n + 1
      BY <1>1, <2>1, <2>2, <3>1, <3>2
    <3>3. CASE j # n + 1
      BY <1>0, <1>1, <2>1, <2>2, <3>1, <3>3 DEF Ordered
    <3>. QED BY <3>2, <3>3
  <2>. QED BY <2>2 DEF Ordered
<1>2. ASSUME Ordered(p \o q)
      PROVE  /\ Ordered(p) /\ Ordered(q)
             /\ \A u \in Range(p), v \in Range(q) : u.cancel => u.id # v.id
  <2>1. /\ DOMAIN (p \o q) = 1..(n + Len(q))
        /\ \A i \in 1..(n + Len(q)) : (p \o q)[i] = IF i <= n THEN p[i] ELSE q[i - n]
    BY ConcatProperties, LenProperties
  <2>2. \A i \in DOMAIN p : i \in DOMAIN (p \o q) /\ (p \o q)[i] = p[i]
    BY <1>0, <2>1
  <2>3. \A i \in DOMAIN q : i + n \in DOMAIN (p \o q) /\ (p \o q)[i + n] = q[i]
    BY <1>0, <2>1
  <2>4. Ordered(p)
    BY <1>2, <2>2 DEF Ordered
  <2>5. ASSUME NEW i \in DOMAIN q, NEW j \in DOMAIN q, q[i].id = q[j].id, q[i].cancel
        PROVE  j <= i
    <3>1. j + n <= i + n
      BY <1>2, <2>3, <2>5 DEF Ordered
    <3>. QED BY <1>0, <3>1
  <2>6. ASSUME NEW i \in DOMAIN p, NEW j \in DOMAIN q, p[i].id = q[j].id, p[i].cancel
        PROVE  FALSE
    <3>1. j + n <= i
      BY <1>2, <2>2, <2>3, <2>6 DEF Ordered
    <3>. QED BY <1>0, <3>1
  <2>7. Ordered(q)
    BY <2>5 DEF Ordered
  <2>8. \A u \in Range(p), v \in Range(q) : u.cancel => u.id # v.id
    BY <2>6 DEF Range
  <2>. QED BY <2>4, <2>7, <2>8
<1>. QED BY <1>1, <1>2

-----------------------------------------------------------------------------
(* Lines, tasks and callbacks *)

\* A task is its request and whether it is a cancel; a callback tells its task.
LEMMA TaskFacts ==
    /\ \A r \in Requests :
        /\ Compile(r) \in Tasks /\ Cancel(r) \in Tasks
        /\ Compile(r).id = r /\ Cancel(r).id = r /\ ~Compile(r).cancel /\ Cancel(r).cancel
    /\ \A t \in Tasks :
        /\ t.id \in Requests
        /\ t.cancel => t = Cancel(t.id)
        /\ ~t.cancel => t = Compile(t.id)
BY DEF Tasks, Compile, Cancel

\* The three kinds of callback are never mistaken for each other.
LEMMA CallbackFacts ==
    /\ Main \in Callbacks
    /\ \A t \in Tasks : Step(t) \in Callbacks /\ Done(t) \in Callbacks
    /\ \A t : Step(t) # Main /\ Done(t) # Main
    /\ \A t, u : Step(t) # Done(u)
    /\ \A t, u : Step(t) = Step(u) => t = u
    /\ \A t, u : Done(t) = Done(u) => t = u
<1>1. /\ Main.kind = "main"
      /\ \A t : Step(t).kind = "step" /\ Step(t).task = t
      /\ \A t : Done(t).kind = "done" /\ Done(t).task = t
  BY DEF Main, Step, Done
<1>2. Main \in Callbacks /\ \A t \in Tasks : Step(t) \in Callbacks /\ Done(t) \in Callbacks
  BY DEF Callbacks
<1>. QED BY <1>1, <1>2

\* The first steps that run() schedules for the lines it has read.
LEMMA StepsFacts ==
    ASSUME NEW b \in Seq(Tasks)
    PROVE  LET steps == [i \in DOMAIN b |-> Step(b[i])] IN
           /\ steps \in Seq(Callbacks)
           /\ Range(steps) = {Step(t) : t \in Range(b)}
           /\ Distinct(b) => Distinct(steps)
<1>. DEFINE steps == [i \in DOMAIN b |-> Step(b[i])]
<1>1. Len(b) \in Nat /\ DOMAIN b = 1..Len(b) /\ \A i \in 1..Len(b) : b[i] \in Tasks
  BY LenProperties, ElementOfSeq
<1>2. steps \in Seq(Callbacks)
  BY <1>1, CallbackFacts, IsASeq
<1>3. Range(steps) = {Step(t) : t \in Range(b)}
  BY DEF Range
<1>4. Distinct(b) => Distinct(steps)
  BY CallbackFacts DEF Distinct
<1>. QED BY <1>2, <1>3, <1>4

\* The dictionary leads to the last line that has the id.
LEMMA RegisteredFacts ==
    ASSUME NEW b \in Seq(Tasks), Distinct(b), Ordered(b), NEW m
    PROVE  LET map == Registered(m, b) IN
           /\ DOMAIN map = DOMAIN m \cup {t.id : t \in Range(b)}
           /\ \A r \in DOMAIN m : (\A t \in Range(b) : t.id # r) => map[r] = m[r]
           /\ \A t \in Range(b) :
                /\ map[t.id] \in Range(b) /\ map[t.id].id = t.id
                /\ t.cancel => map[t.id] = t
<1>. DEFINE map == Registered(m, b)
            At(r) == {i \in DOMAIN b : b[i].id = r}
<1>1. DOMAIN map = DOMAIN m \cup {t.id : t \in Range(b)}
  BY DEF Registered, Range
<1>2. ASSUME NEW r \in DOMAIN m, \A t \in Range(b) : t.id # r PROVE map[r] = m[r]
  <2>1. At(r) = {}
    BY <1>2 DEF Range
  <2>. QED BY <2>1 DEF Registered
<1>3. ASSUME NEW t \in Range(b)
      PROVE  /\ map[t.id] \in Range(b) /\ map[t.id].id = t.id
             /\ t.cancel => map[t.id] = t
  <2>. DEFINE last == CHOOSE i \in At(t.id) : \A j \in At(t.id) : j <= i
  <2>0. PICK k \in DOMAIN b : b[k] = t
    BY DEF Range
  <2>1. \A i \in DOMAIN b : b[i] \in Tasks /\ i \in Nat
    BY LenProperties, ElementOfSeq
  <2>2. \E i \in At(t.id) : \A j \in At(t.id) : j <= i
    <3>1. CASE \E i \in At(t.id) : b[i].cancel
      BY <3>1 DEF Ordered
    <3>2. CASE \A i \in At(t.id) : ~b[i].cancel
      <4>1. \A j \in At(t.id) : b[j] = b[k] /\ k \in At(t.id)
        BY <2>0, <2>1, <3>2, TaskFacts
      <4>2. \A j \in At(t.id) : j = k
        BY <2>0, <4>1 DEF Distinct
      <4>. QED BY <2>0, <2>1, <4>2
    <3>. QED BY <3>1, <3>2
  <2>3. last \in At(t.id) /\ \A j \in At(t.id) : j <= last
    BY <2>2
  <2>4. map[t.id] = b[last]
    BY <1>1, <2>0 DEF Registered
  <2>. HIDE DEF last, map
  <2>5. map[t.id] \in Range(b) /\ map[t.id].id = t.id
    BY <2>3, <2>4 DEF Range
  <2>6. ASSUME t.cancel PROVE map[t.id] = t
    <3>1. last <= k /\ k <= last
      BY <2>0, <2>3, <2>6 DEF Ordered
    <3>. QED BY <2>0, <2>1, <2>3, <2>4, <3>1
  <2>. QED BY <2>5, <2>6
<1>. QED BY <1>1, <1>2, <1>3

-----------------------------------------------------------------------------
(* Bazel *)

\* The worker starts with no line, no task and no callback.
LEMMA InitInv == Init => IInv
<1>. SUFFICES ASSUME Init PROVE IInv
  OBVIOUS
<1>0. <<>> \in Seq(Tasks) /\ <<>> \in Seq(Callbacks) /\ <<>> \in Seq(Answers)
  BY EmptySeq
<1>1. Range(<<>>) = {} /\ Distinct(<<>>) /\ Ordered(<<>>) /\ Lines = <<>>
  BY ConcatEmptySeq, EmptySeq, <1>0 DEF Init, Lines, Range, Distinct, Ordered
<1>2. TypeInv
  <2>1. /\ pycs \in [Requests -> 0..Files]
        /\ responses \in [Requests -> Seq(Answers)]
        /\ \A r \in Requests : Range(responses[r]) = {}
    BY <1>0, <1>1, FilesAssumption DEF Init
  <2>2. /\ pipe \in Seq(Tasks) /\ buffer \in Seq(Tasks) /\ ready \in Seq(Callbacks)
        /\ Range(ready) = {}
    BY <1>0, <1>1 DEF Init
  <2>3. /\ status \in [Tasks -> {"absent", "new", "waiting", "cancelled", "finished"}]
        /\ thread \in [Requests -> {"idle", "running", "ok", "failed"}]
        /\ DOMAIN requestIdToTask = {}
    BY DEF Init
  <2>. QED BY <2>1, <2>2, <2>3 DEF Init, TypeInv, TypeOK
<1>3. LinesInv
  BY <1>1, TaskFacts DEF Init, LinesInv
<1>4. QueueInv /\ NeverCancelled /\ TablesInv
  BY <1>1 DEF Init, QueueInv, NeverCancelled, TablesInv
<1>5. ExitsInv /\ CancelsInv
  BY TaskFacts DEF Init, ExitsInv, ExitsAt, CancelsInv
<1>. QED BY <1>2, <1>3, <1>4, <1>5 DEF IInv

\* A line that Bazel writes is behind all others.
LEMMA WriteFacts ==
    ASSUME TypeInv, NEW t \in Tasks, pipe' = Append(pipe, t), buffer' = buffer
    PROVE  /\ pipe' \in Seq(Tasks) /\ Lines \in Seq(Tasks)
           /\ Lines' = Append(Lines, t)
           /\ Range(Lines') = Range(Lines) \cup {t}
<1>1. pipe \in Seq(Tasks) /\ buffer \in Seq(Tasks)
  BY DEF TypeInv, TypeOK
<1>2. pipe' \in Seq(Tasks) /\ Lines \in Seq(Tasks)
  BY <1>1, AppendProperties, ConcatProperties DEF Lines
<1>3. Lines' = Append(Lines, t)
  <2>1. <<t>> \in Seq(Tasks)
    OBVIOUS
  <2>2. pipe' = pipe \o <<t>> /\ Append(Lines, t) = Lines \o <<t>>
    BY <1>1, <1>2, AppendIsConcat
  <2>3. (buffer \o pipe) \o <<t>> = buffer \o (pipe \o <<t>>)
    BY <1>1, <2>1, ConcatAssociative
  <2>. QED BY <2>2, <2>3 DEF Lines
<1>. QED BY <1>2, <1>3, AppendFacts

\* A new compile line is the only one of its request.
LEMMA SendCompileInv ==
    ASSUME IInv, NEW r \in Requests, SendCompile(r)
    PROVE  IInv'
<1>. DEFINE t == Compile(r)
<1>1. /\ t \in Tasks /\ t.id = r /\ ~t.cancel /\ pipe' = Append(pipe, t)
      /\ asked' = asked \cup {r} /\ r \notin asked
      /\ UNCHANGED <<cancelling, closed, loopVars, threadVars>>
  BY TaskFacts DEF SendCompile, Compile
<1>. HIDE DEF t
<1>2. /\ pipe' \in Seq(Tasks) /\ Lines \in Seq(Tasks) /\ Lines' = Append(Lines, t)
      /\ Range(Lines') = Range(Lines) \cup {t} /\ Range(Lines) \subseteq Tasks
  BY <1>1, WriteFacts, RangeOfSeq DEF IInv, loopVars
<1>3. TypeInv'
  BY <1>1, <1>2 DEF IInv, TypeInv, TypeOK, loopVars, threadVars
<1>4. LinesInv'
  <2>1. \A u \in Tasks : u.id = r => u \notin Range(Lines) /\ status[u] = "absent"
    BY <1>1 DEF IInv, LinesInv
  <2>2. Distinct(Lines') /\ Ordered(Lines')
    <3>1. t \notin Range(Lines) /\ \A u \in Range(Lines) : u.id # t.id
      BY <1>1, <1>2, <2>1
    <3>2. <<>> \in Seq(Tasks)
      BY EmptySeq
    <3>. QED BY <1>1, <1>2, <3>1, <3>2, AppendFacts, OrderFacts DEF IInv, LinesInv
  <2>3. \A u \in Range(Lines') : status'[u] = "absent"
    BY <1>1, <1>2, <2>1 DEF IInv, LinesInv, loopVars
  <2>4. \A u \in Tasks :
        u \in Range(Lines') \/ status'[u] # "absent" =>
            u.id \in asked' /\ (u.cancel => u.id \in cancelling')
    BY <1>1, <1>2 DEF IInv, LinesInv, loopVars
  <2>5. \A s \in Requests : status'[Cancel(s)] # "absent" => Compile(s) \notin Range(Lines')
    <3>1. ASSUME NEW s \in Requests, status[Cancel(s)] # "absent" PROVE Compile(s) # t
      BY <1>1, <2>1, <3>1, TaskFacts
    <3>. QED BY <1>1, <1>2, <3>1 DEF IInv, LinesInv, loopVars
  <2>. QED BY <2>2, <2>3, <2>4, <2>5 DEF LinesInv
<1>5. QueueInv' /\ NeverCancelled' /\ TablesInv'
  BY <1>1 DEF IInv, QueueInv, NeverCancelled, TablesInv, loopVars, threadVars
<1>6. ExitsInv' /\ CancelsInv'
  BY <1>1 DEF IInv, ExitsInv, ExitsAt, CancelsInv, loopVars, threadVars
<1>. QED BY <1>3, <1>4, <1>5, <1>6 DEF IInv

\* A new cancel line comes after the compile it cancels.
LEMMA SendCancelInv ==
    ASSUME IInv, NEW r \in Requests, SendCancel(r)
    PROVE  IInv'
<1>. DEFINE t == Cancel(r)
<1>1. /\ t \in Tasks /\ t.id = r /\ t.cancel /\ pipe' = Append(pipe, t)
      /\ cancelling' = cancelling \cup {r} /\ r \in asked /\ r \notin cancelling
      /\ UNCHANGED <<asked, closed, loopVars, threadVars>>
  BY TaskFacts DEF SendCancel, Cancel
<1>. HIDE DEF t
<1>2. /\ pipe' \in Seq(Tasks) /\ Lines \in Seq(Tasks) /\ Lines' = Append(Lines, t)
      /\ Range(Lines') = Range(Lines) \cup {t} /\ Range(Lines) \subseteq Tasks
  BY <1>1, WriteFacts, RangeOfSeq DEF IInv, loopVars
<1>3. TypeInv'
  BY <1>1, <1>2 DEF IInv, TypeInv, TypeOK, loopVars, threadVars
<1>4. LinesInv'
  <2>1. \A u \in Tasks : u.id = r /\ u.cancel => u \notin Range(Lines) /\ status[u] = "absent"
    BY <1>1 DEF IInv, LinesInv
  <2>2. Distinct(Lines') /\ Ordered(Lines')
    <3>1. t \notin Range(Lines) /\ \A u \in Range(Lines) : u.cancel => u.id # t.id
      BY <1>1, <1>2, <2>1
    <3>2. <<>> \in Seq(Tasks)
      BY EmptySeq
    <3>. QED BY <1>1, <1>2, <3>1, <3>2, AppendFacts, OrderFacts DEF IInv, LinesInv
  <2>3. \A u \in Range(Lines') : status'[u] = "absent"
    BY <1>1, <1>2, <2>1 DEF IInv, LinesInv, loopVars
  <2>4. \A u \in Tasks :
        u \in Range(Lines') \/ status'[u] # "absent" =>
            u.id \in asked' /\ (u.cancel => u.id \in cancelling')
    BY <1>1, <1>2 DEF IInv, LinesInv, loopVars
  <2>5. \A s \in Requests : status'[Cancel(s)] # "absent" => Compile(s) \notin Range(Lines')
    <3>1. \A s \in Requests : Compile(s) # t
      BY <1>1, TaskFacts
    <3>. QED BY <1>1, <1>2, <3>1 DEF IInv, LinesInv, loopVars
  <2>. QED BY <2>2, <2>3, <2>4, <2>5 DEF LinesInv
<1>5. QueueInv' /\ NeverCancelled' /\ TablesInv'
  BY <1>1 DEF IInv, QueueInv, NeverCancelled, TablesInv, loopVars, threadVars
<1>6. ExitsInv' /\ CancelsInv'
  BY <1>1 DEF IInv, ExitsInv, ExitsAt, CancelsInv, loopVars, threadVars
<1>. QED BY <1>3, <1>4, <1>5, <1>6 DEF IInv

\* Steps that move no line and make no task.
LEMMA LinesKept ==
    ASSUME TypeInv, LinesInv, Lines' = Lines, UNCHANGED <<asked, cancelling>>,
           \A t \in Tasks : status'[t] = "absent" <=> status[t] = "absent"
    PROVE  LinesInv'
<1>1. Range(Lines) \subseteq Tasks
  BY ConcatProperties, RangeOfSeq DEF TypeInv, TypeOK, Lines
<1>. QED BY <1>1, TaskFacts DEF LinesInv

\* Closing stdin changes nothing that has been written.
LEMMA CloseStdinInv == ASSUME IInv, CloseStdin PROVE IInv'
<1>1. TypeInv'
  BY DEF CloseStdin, IInv, TypeInv, TypeOK, loopVars, threadVars
<1>2. LinesInv'
  BY LinesKept DEF CloseStdin, IInv, loopVars, Lines
<1>3. QueueInv' /\ NeverCancelled' /\ TablesInv'
  BY DEF CloseStdin, IInv, QueueInv, NeverCancelled, TablesInv, loopVars, threadVars
<1>4. ExitsInv' /\ CancelsInv'
  BY DEF CloseStdin, IInv, ExitsInv, ExitsAt, CancelsInv, loopVars, threadVars
<1>. QED BY <1>1, <1>2, <1>3, <1>4 DEF IInv

-----------------------------------------------------------------------------
(* The StreamReader *)

\* Waking run() queues nothing else, and run() once.
LEMMA WakingFacts ==
    ASSUME NEW q \in Seq(Callbacks)
    PROVE  /\ Waking(q) \in Seq(Callbacks)
           /\ Distinct(q) => Distinct(Waking(q))
           /\ \A t : /\ Step(t) \in Range(Waking(q)) <=> Step(t) \in Range(q)
                     /\ Done(t) \in Range(Waking(q)) <=> Done(t) \in Range(q)
<1>1. CASE Main \in Range(q)
  BY <1>1 DEF Waking
<1>2. CASE Main \notin Range(q)
  BY <1>2, CallbackFacts, AppendFacts DEF Waking
<1>. QED BY <1>1, <1>2

\* Lines move from the pipe to the buffer in order; run() is queued once.
LEMMA ReceiveInv ==
    ASSUME IInv, ReceiveLines \/ ReceiveEof
    PROVE  IInv'
<1>0. /\ pipe \in Seq(Tasks) /\ buffer \in Seq(Tasks) /\ ready \in Seq(Callbacks)
      /\ atEof \in BOOLEAN
  BY DEF IInv, TypeInv, TypeOK
<1>1. /\ Lines' = Lines /\ pipe' \in Seq(Tasks) /\ buffer' \in Seq(Tasks)
      /\ atEof' \in BOOLEAN
  <2>1. CASE ReceiveLines
    <3>1. PICK n \in 1..Len(pipe) :
            buffer' = buffer \o SubSeq(pipe, 1, n) /\ pipe' = SubSeq(pipe, n + 1, Len(pipe))
      BY <2>1 DEF ReceiveLines
    <3>2. Len(pipe) \in Nat /\ \A i \in 1..Len(pipe) : pipe[i] \in Tasks
      BY <1>0, LenProperties, ElementOfSeq
    <3>3. SubSeq(pipe, 1, n) \in Seq(Tasks) /\ SubSeq(pipe, n + 1, Len(pipe)) \in Seq(Tasks)
      <4>1. \A i \in 1..n : pipe[i] \in Tasks
        BY <3>2
      <4>2. \A i \in (n + 1)..Len(pipe) : pipe[i] \in Tasks
        BY <3>2
      <4>. QED BY <3>2, <4>1, <4>2, SubSeqProperties
    <3>4. SubSeq(pipe, 1, n) \o SubSeq(pipe, n + 1, Len(pipe)) = pipe
      <4>1. 1 \in 1..(Len(pipe) + 1) /\ n \in (1 - 1)..Len(pipe) /\ Len(pipe) \in n..Len(pipe)
        BY <3>2
      <4>. QED BY <1>0, <4>1, ConcatAdjacentSubSeq, SubSeqFull
    <3>5. Lines' = Lines
      <4>1. ASSUME NEW a \in Seq(Tasks), NEW b \in Seq(Tasks)
            PROVE  (buffer \o a) \o b = buffer \o (a \o b)
        <5>1. buffer \in Seq(Tasks)
          BY <1>0
        <5>. QED BY ONLY <5>1, a \in Seq(Tasks), b \in Seq(Tasks), ConcatAssociative
      <4>2. Lines' = (buffer \o SubSeq(pipe, 1, n)) \o SubSeq(pipe, n + 1, Len(pipe))
        BY <3>1 DEF Lines
      <4>3. Lines' = buffer \o (SubSeq(pipe, 1, n) \o SubSeq(pipe, n + 1, Len(pipe)))
        BY <3>3, <4>1, <4>2
      <4>4. Lines = buffer \o pipe
        BY DEF Lines
      <4>. QED BY <3>4, <4>3, <4>4
    <3>. QED BY <1>0, <2>1, <3>1, <3>3, <3>5, ConcatProperties DEF ReceiveLines
  <2>2. CASE ReceiveEof
    BY <1>0, <2>2 DEF ReceiveEof, bazelVars, Lines
  <2>. QED BY <2>1, <2>2
<1>2. /\ ready' = Waking(ready)
      /\ UNCHANGED <<asked, cancelling, closed, status, requestIdToTask,
                     taskToRequestId, exited, responses, threadVars>>
  BY DEF ReceiveLines, ReceiveEof, bazelVars
<1>3. /\ ready' \in Seq(Callbacks) /\ (Distinct(ready) => Distinct(ready'))
      /\ \A t : /\ Step(t) \in Range(ready') <=> Step(t) \in Range(ready)
                /\ Done(t) \in Range(ready') <=> Done(t) \in Range(ready)
  BY <1>0, <1>2, WakingFacts
<1>4. TypeInv'
  <2>1. Range(ready') \subseteq Callbacks
    BY <1>3, RangeOfSeq
  <2>. QED BY <1>1, <1>2, <1>3, <2>1 DEF IInv, TypeInv, TypeOK, Callbacks, threadVars
<1>5. LinesInv'
  BY <1>1, <1>2, LinesKept DEF IInv
<1>6. QueueInv' /\ NeverCancelled' /\ TablesInv'
  BY <1>2, <1>3 DEF IInv, QueueInv, NeverCancelled, TablesInv, threadVars
<1>7. ExitsInv' /\ CancelsInv'
  BY <1>2 DEF IInv, ExitsInv, ExitsAt, CancelsInv, threadVars
<1>. QED BY <1>4, <1>5, <1>6, <1>7 DEF IInv

-----------------------------------------------------------------------------
(* The event loop *)

\* What is known of the queue when the loop takes its first callback.
LEMMA HeadFacts ==
    ASSUME IInv, ready # <<>>
    PROVE  /\ Tail(ready) \in Seq(Callbacks) /\ Distinct(Tail(ready))
           /\ Range(ready) = {Head(ready)} \cup Range(Tail(ready))
           /\ Head(ready) \notin Range(Tail(ready))
BY TailFacts DEF IInv, TypeInv, QueueInv

\* A callback is queued that was not.
LEMMA QueuedFacts ==
    ASSUME NEW q \in Seq(Callbacks), Distinct(q), NEW e \in Callbacks, e \notin Range(q)
    PROVE  /\ Append(q, e) \in Seq(Callbacks) /\ Distinct(Append(q, e))
           /\ Range(Append(q, e)) = Range(q) \cup {e}
BY AppendFacts

\* run() makes tasks of all lines it can read; they are the last lines of
\* their ids.
LEMMA RunMainInv == ASSUME IInv, RunMain PROVE IInv'
<1>. DEFINE q == Tail(ready)
            steps == [i \in DOMAIN buffer |-> Step(buffer[i])]
<1>1. /\ ready # <<>> /\ Head(ready) = Main /\ buffer' = <<>> /\ ready' = q \o steps
      /\ status' = [t \in Tasks |-> IF t \in Range(buffer) THEN "new" ELSE status[t]]
      /\ requestIdToTask' = Registered(requestIdToTask, buffer)
      /\ taskToRequestId' = taskToRequestId \cup Range(buffer)
      /\ exited' = atEof
      /\ UNCHANGED <<asked, cancelling, pipe, closed, atEof, responses, thread, pycs>>
  BY DEF RunMain, bazelVars, threadVars
<1>2. /\ buffer \in Seq(Tasks) /\ pipe \in Seq(Tasks) /\ <<>> \in Seq(Tasks)
      /\ Range(buffer) \subseteq Tasks /\ Range(pipe) \subseteq Tasks
  BY EmptySeq, RangeOfSeq DEF IInv, TypeInv, TypeOK
<1>3. /\ Range(Lines) = Range(buffer) \cup Range(pipe) /\ Range(buffer) \cap Range(pipe) = {}
      /\ Distinct(buffer) /\ Distinct(pipe) /\ Ordered(buffer) /\ Ordered(pipe)
      /\ \A u \in Range(buffer), v \in Range(pipe) : u.cancel => u.id # v.id
  <2>1. /\ Range(Lines) = Range(buffer) \cup Range(pipe) /\ Range(buffer) \cap Range(pipe) = {}
        /\ Distinct(buffer) /\ Distinct(pipe)
    BY <1>2, ConcatFacts DEF IInv, LinesInv, Lines
  <2>2. ASSUME NEW t \in Tasks
        PROVE  /\ Ordered(buffer) /\ Ordered(pipe)
               /\ \A u \in Range(buffer), v \in Range(pipe) : u.cancel => u.id # v.id
    BY <1>2, OrderFacts DEF IInv, LinesInv, Lines
  <2>3. CASE Tasks = {}
    <3>1. DOMAIN buffer = {} /\ DOMAIN pipe = {}
      BY <1>2, <2>3 DEF Range
    <3>. QED BY <2>1, <3>1 DEF Ordered, Range
  <2>. QED BY <2>1, <2>2, <2>3
<1>4. Lines' = pipe
  BY <1>1, <1>2, ConcatEmptySeq DEF Lines
<1>5. \A t \in Range(buffer) : status[t] = "absent"
  BY <1>3 DEF IInv, LinesInv
<1>6. /\ q \in Seq(Callbacks) /\ Distinct(q)
      /\ Range(ready) = {Main} \cup Range(q) /\ Main \notin Range(q)
  BY <1>1, HeadFacts
<1>7. steps \in Seq(Callbacks) /\ Range(steps) = {Step(t) : t \in Range(buffer)} /\ Distinct(steps)
  BY <1>2, <1>3, StepsFacts
<1>. HIDE DEF q, steps
<1>8. /\ ready' \in Seq(Callbacks) /\ Distinct(ready')
      /\ Range(ready') = Range(q) \cup {Step(t) : t \in Range(buffer)}
  <2>1. ASSUME NEW t \in Range(buffer) PROVE Step(t) \notin Range(q)
    BY <1>2, <1>5, <1>6 DEF IInv, QueueInv
  <2>2. Range(q) \cap Range(steps) = {}
    BY <1>7, <2>1
  <2>. QED BY <1>1, <1>6, <1>7, <2>2, ConcatFacts
<1>9. /\ \A t \in Tasks : Done(t) \in Range(ready') <=> Done(t) \in Range(ready)
      /\ \A t \in Tasks : Step(t) \in Range(ready') <=>
                            Step(t) \in Range(ready) \/ t \in Range(buffer)
  <2>1. \A t : /\ Done(t) \in Range(q) <=> Done(t) \in Range(ready)
               /\ Step(t) \in Range(q) <=> Step(t) \in Range(ready)
    BY <1>6, CallbackFacts
  <2>. DEFINE first == {Step(t) : t \in Range(buffer)}
  <2>2. \A t : Done(t) \notin first /\ (Step(t) \in first <=> t \in Range(buffer))
    BY CallbackFacts
  <2>3. Range(ready') = Range(q) \cup first
    BY <1>8
  <2>. HIDE DEF first
  <2>. QED BY <2>1, <2>2, <2>3
<1>10. /\ DOMAIN requestIdToTask' = DOMAIN requestIdToTask \cup {t.id : t \in Range(buffer)}
       /\ \A r \in DOMAIN requestIdToTask :
            (\A t \in Range(buffer) : t.id # r) => requestIdToTask'[r] = requestIdToTask[r]
       /\ \A t \in Range(buffer) :
            /\ requestIdToTask'[t.id] \in Range(buffer) /\ requestIdToTask'[t.id].id = t.id
            /\ t.cancel => requestIdToTask'[t.id] = t
  <2>1. Distinct(buffer) /\ Ordered(buffer) /\ buffer \in Seq(Tasks)
    BY <1>2, <1>3
  <2>2. LET map == Registered(requestIdToTask, buffer) IN
        /\ DOMAIN map = DOMAIN requestIdToTask \cup {t.id : t \in Range(buffer)}
        /\ \A r \in DOMAIN requestIdToTask :
            (\A t \in Range(buffer) : t.id # r) => map[r] = requestIdToTask[r]
        /\ \A t \in Range(buffer) :
            /\ map[t.id] \in Range(buffer) /\ map[t.id].id = t.id
            /\ t.cancel => map[t.id] = t
    BY ONLY <2>1, RegisteredFacts
  <2>. QED BY <1>1, <2>2
<1>11. TypeInv'
  <2>1. DOMAIN requestIdToTask' \subseteq Requests
    BY <1>2, <1>10, TaskFacts DEF IInv, TypeInv, TypeOK
  <2>2. \A r \in DOMAIN requestIdToTask' : requestIdToTask'[r] \in Tasks
    BY <1>2, <1>10 DEF IInv, TypeInv, TypeOK
  <2>3. Range(ready') \subseteq Callbacks
    BY <1>8, RangeOfSeq
  <2>. QED BY <1>1, <1>2, <1>8, <2>1, <2>2, <2>3 DEF IInv, TypeInv, TypeOK, Callbacks
<1>12. LinesInv'
  <2>1. \A t \in Range(pipe) : status'[t] = "absent"
    BY <1>1, <1>2, <1>3 DEF IInv, LinesInv
  <2>2. \A t \in Tasks :
        t \in Range(pipe) \/ status'[t] # "absent" =>
            t.id \in asked /\ (t.cancel => t.id \in cancelling)
    BY <1>1, <1>3 DEF IInv, LinesInv
  <2>3. ASSUME NEW r \in Requests, status'[Cancel(r)] # "absent" PROVE Compile(r) \notin Range(pipe)
    BY <1>1, <1>3, <2>3, TaskFacts DEF IInv, LinesInv
  <2>. QED BY <1>1, <1>3, <1>4, <2>1, <2>2, <2>3 DEF LinesInv
<1>13. QueueInv'
  BY <1>1, <1>2, <1>5, <1>8, <1>9 DEF IInv, QueueInv
<1>14. NeverCancelled'
  BY <1>1 DEF IInv, NeverCancelled
<1>15. TablesInv'
  <2>1. taskToRequestId' = {t \in Tasks :
            status'[t] \in {"new", "waiting"} \/ Done(t) \in Range(ready')}
    BY <1>1, <1>2, <1>9 DEF IInv, TablesInv
  <2>2. ASSUME NEW r \in DOMAIN requestIdToTask', \A t \in Range(buffer) : t.id # r
        PROVE  /\ requestIdToTask'[r] \in taskToRequestId' /\ requestIdToTask'[r].id = r
               /\ ~requestIdToTask'[r].cancel => status'[Cancel(r)] = "absent"
    <3>1. r \in DOMAIN requestIdToTask /\ requestIdToTask'[r] = requestIdToTask[r]
      BY <1>10, <2>2
    <3>2. r \in Requests
      BY <3>1 DEF IInv, TypeInv, TypeOK
    <3>. QED BY <1>1, <2>2, <3>1, <3>2, TaskFacts DEF IInv, TablesInv
  <2>3. ASSUME NEW t \in Range(buffer)
        PROVE  LET r == t.id IN
               /\ requestIdToTask'[r] \in taskToRequestId' /\ requestIdToTask'[r].id = r
               /\ ~requestIdToTask'[r].cancel => status'[Cancel(r)] = "absent"
    <3>. DEFINE r == t.id
    <3>1. requestIdToTask'[r] \in Range(buffer) /\ requestIdToTask'[r].id = r
      BY <1>10
    <3>2. ASSUME ~requestIdToTask'[r].cancel PROVE status'[Cancel(r)] = "absent"
      <4>1. r \in Requests /\ Cancel(r) \notin Range(buffer)
        BY <1>2, <1>10, <3>2, TaskFacts
      <4>2. Compile(r) \in Range(Lines)
        BY <1>2, <1>3, <3>1, <3>2, TaskFacts
      <4>. QED BY <1>1, <4>1, <4>2, TaskFacts DEF IInv, LinesInv
    <3>. QED BY <1>1, <3>1, <3>2
  <2>. QED BY <1>10, <2>1, <2>2, <2>3 DEF TablesInv
<1>16. ExitsInv'
  <2>1. \A r \in Requests : status'[Compile(r)] = "finished" <=> status[Compile(r)] = "finished"
    BY <1>1, <1>5, TaskFacts
  <2>. QED BY <1>1, <2>1 DEF IInv, ExitsInv, ExitsAt
<1>17. CancelsInv'
  <2>1. ASSUME NEW r \in Requests, status'[Cancel(r)] = "new", r \notin DOMAIN requestIdToTask'
        PROVE  status'[Compile(r)] = "finished"
    <3>1. Cancel(r) \notin Range(buffer) /\ Compile(r) \notin Range(buffer)
      BY <1>10, <2>1, TaskFacts
    <3>. QED BY <1>1, <1>10, <2>1, <3>1, TaskFacts DEF IInv, CancelsInv
  <2>. QED BY <1>1, <2>1, TaskFacts DEF IInv, CancelsInv
<1>. QED BY <1>11, <1>12, <1>13, <1>14, <1>15, <1>16, <1>17 DEF IInv

\* The first step of a compile starts its thread, or ends the worker.
LEMMA StartCompileInv ==
    ASSUME IInv, NEW t \in Tasks, StartCompile(t)
    PROVE  IInv'
<1>. DEFINE q == Tail(ready)
<1>1. /\ ready # <<>> /\ Head(ready) = Step(t) /\ ready' = q /\ ~t.cancel /\ status[t] = "new"
      /\ exited' \in BOOLEAN
      /\ \/ UNCHANGED <<status, thread>>
         \/ /\ status' = [status EXCEPT ![t] = "waiting"]
            /\ thread' = [thread EXCEPT ![t.id] = "running"]
      /\ UNCHANGED <<bazelVars, buffer, atEof, requestIdToTask, taskToRequestId,
                     responses, pycs>>
  BY DEF StartCompile, IInv, TypeInv, TypeOK
<1>2. /\ q \in Seq(Callbacks) /\ Distinct(q)
      /\ Range(ready) = {Step(t)} \cup Range(q) /\ Step(t) \notin Range(q)
  BY <1>1, HeadFacts
<1>. HIDE DEF q
<1>3. t.id \in Requests /\ t = Compile(t.id)
  BY <1>1, TaskFacts
<1>4. /\ \A u \in Tasks : u # t => status'[u] = status[u]
      /\ \A r \in Requests : r # t.id => thread'[r] = thread[r]
      /\ status'[t] \in {"new", "waiting"}
  BY <1>1 DEF IInv, TypeInv, TypeOK
<1>5. TypeInv'
  <2>1. Range(ready') \subseteq Callbacks
    BY <1>1, <1>2, RangeOfSeq
  <2>. QED BY <1>1, <1>2, <1>3, <2>1 DEF IInv, TypeInv, TypeOK, Callbacks, bazelVars
<1>6. LinesInv'
  BY <1>1, <1>4, LinesKept DEF IInv, bazelVars, Lines
<1>7. QueueInv'
  <2>1. ASSUME NEW u \in Tasks, u # t
        PROVE  /\ Step(u) \in Range(ready') => status'[u] \in {"new", "waiting"}
               /\ Done(u) \in Range(ready') => status'[u] = "finished"
               /\ status'[u] = "waiting" =>
                    ~u.cancel /\ (Step(u) \in Range(ready') => thread'[u.id] \in {"ok", "failed"})
    <3>1. ~u.cancel => u.id # t.id /\ u.id \in Requests
      BY <1>3, <2>1, TaskFacts
    <3>. QED BY <1>1, <1>2, <1>4, <2>1, <3>1 DEF IInv, QueueInv
  <2>2. Done(t) \notin Range(ready') /\ Step(t) \notin Range(ready')
    BY <1>1, <1>2 DEF IInv, QueueInv
  <2>. QED BY <1>1, <1>2, <1>4, <2>1, <2>2 DEF QueueInv
<1>8. NeverCancelled'
  BY <1>4 DEF IInv, NeverCancelled
<1>9. TablesInv'
  <2>1. \A u : Done(u) \in Range(ready') <=> Done(u) \in Range(ready)
    BY <1>1, <1>2, CallbackFacts
  <2>2. \A u \in Tasks : status'[u] \in {"new", "waiting"} <=> status[u] \in {"new", "waiting"}
    BY <1>1, <1>4
  <2>3. \A r \in Requests : status'[Cancel(r)] = status[Cancel(r)]
    BY <1>1, <1>4, TaskFacts
  <2>. QED BY <1>1, <2>1, <2>2, <2>3 DEF IInv, TablesInv, TypeInv, TypeOK
<1>10. ExitsInv'
  <2>1. ASSUME NEW r \in Requests, r # t.id
        PROVE  status'[Compile(r)] = status[Compile(r)] /\ thread'[r] = thread[r]
    BY <1>3, <1>4, <2>1, TaskFacts
  <2>2. status[Compile(t.id)] # "finished" /\ status'[Compile(t.id)] # "finished"
    BY <1>1, <1>3, <1>4
  <2>3. thread'[t.id] \in {thread[t.id], "running"}
    BY <1>1, <1>3 DEF IInv, TypeInv, TypeOK
  <2>. QED BY <1>1, <2>1, <2>2, <2>3 DEF IInv, ExitsInv, ExitsAt
<1>11. CancelsInv'
  <2>1. \A r \in Requests :
            /\ status'[Cancel(r)] = status[Cancel(r)]
            /\ status[Compile(r)] = "finished" => status'[Compile(r)] = "finished"
    BY <1>1, <1>4, TaskFacts
  <2>. QED BY <1>1, <2>1 DEF IInv, CancelsInv
<1>. QED BY <1>5, <1>6, <1>7, <1>8, <1>9, <1>10, <1>11 DEF IInv

\* One more answer to a request.
LEMMA AnswerFacts ==
    ASSUME TypeInv, NEW r \in Requests, NEW kind \in Answers,
           responses' = [responses EXCEPT ![r] = Append(@, kind)]
    PROVE  /\ responses' \in [Requests -> Seq(Answers)]
           /\ responses'[r] # <<>>
           /\ Range(responses'[r]) = Range(responses[r]) \cup {kind}
           /\ \A s \in Requests : s # r => responses'[s] = responses[s]
           /\ kind = "wasCancelled" =>
                /\ ExitsAt(r)' = ExitsAt(r)
                /\ \A i \in DOMAIN responses[r] :
                    i \in DOMAIN responses'[r] /\ responses'[r][i] = responses[r][i]
           /\ kind # "wasCancelled" /\ ExitsAt(r) = {} =>
                \E i \in DOMAIN responses'[r] :
                    ExitsAt(r)' = {i} /\ responses'[r][i] = kind
<1>. DEFINE n == Len(responses[r]) + 1
<1>1. /\ responses[r] \in Seq(Answers) /\ responses \in [Requests -> Seq(Answers)]
      /\ responses'[r] = Append(responses[r], kind)
  BY DEF TypeInv
<1>2. /\ Append(responses[r], kind) \in Seq(Answers) /\ Append(responses[r], kind) # <<>>
      /\ Range(Append(responses[r], kind)) = Range(responses[r]) \cup {kind}
  BY <1>1, AppendFacts, AppendProperties
<1>3. /\ DOMAIN responses[r] = 1..Len(responses[r]) /\ DOMAIN responses'[r] = 1..n
      /\ n \in Nat /\ Len(responses[r]) \in Nat
      /\ \A i \in 1..Len(responses[r]) : responses'[r][i] = responses[r][i]
      /\ responses'[r][n] = kind
  BY <1>1, <1>2, AppendProperties, LenProperties
<1>4. DOMAIN responses'[r] = DOMAIN responses[r] \cup {n} /\ n \notin DOMAIN responses[r]
  BY <1>3
<1>. HIDE DEF n
<1>5. /\ responses' \in [Requests -> Seq(Answers)]
      /\ \A s \in Requests : s # r => responses'[s] = responses[s]
  BY <1>1, <1>2
<1>6. kind = "wasCancelled" =>
        /\ ExitsAt(r)' = ExitsAt(r)
        /\ \A i \in DOMAIN responses[r] :
            i \in DOMAIN responses'[r] /\ responses'[r][i] = responses[r][i]
  BY <1>3, <1>4 DEF ExitsAt
<1>7. ASSUME kind # "wasCancelled", ExitsAt(r) = {}
      PROVE  \E i \in DOMAIN responses'[r] : ExitsAt(r)' = {i} /\ responses'[r][i] = kind
  <2>1. ExitsAt(r)' = {n}
    BY <1>3, <1>4, <1>7 DEF ExitsAt
  <2>. QED BY <1>3, <1>4, <2>1
<1>. QED BY <1>1, <1>2, <1>5, <1>6, <1>7

\* What the end of a task leaves of the queue and the tables: Finish of a task
\* that has run its first step.
LEMMA FinishFacts ==
    ASSUME IInv, NEW t \in Tasks, ready # <<>>, Head(ready) = Step(t),
           status[t] \in {"new", "waiting"}, Finish(t, Tail(ready), status),
           UNCHANGED <<bazelVars, buffer, atEof, requestIdToTask, taskToRequestId,
                       exited, threadVars>>
    PROVE  /\ LinesInv' /\ QueueInv' /\ NeverCancelled' /\ TablesInv'
           /\ ready' \in Seq(Callbacks)
           /\ status' = [status EXCEPT ![t] = "finished"]
<1>. DEFINE q == Tail(ready)
<1>1. /\ q \in Seq(Callbacks) /\ Distinct(q)
      /\ Range(ready) = {Step(t)} \cup Range(q) /\ Step(t) \notin Range(q)
  BY HeadFacts
<1>2. ready' = Append(q, Done(t)) /\ status' = [status EXCEPT ![t] = "finished"]
  BY DEF Finish
<1>. HIDE DEF q
<1>3. Done(t) \in Callbacks /\ Done(t) \notin Range(q)
  BY <1>1, CallbackFacts DEF IInv, QueueInv
<1>4. /\ ready' \in Seq(Callbacks) /\ Distinct(ready')
      /\ Range(ready') = Range(q) \cup {Done(t)}
  BY <1>1, <1>2, <1>3, QueuedFacts
<1>5. /\ status'[t] = "finished"
      /\ \A u \in Tasks : u # t => status'[u] = status[u]
  BY <1>2 DEF IInv, TypeInv, TypeOK
<1>6. LinesInv'
  BY <1>5, LinesKept DEF IInv, bazelVars, Lines
<1>7. /\ \A u \in Tasks : Step(u) \in Range(ready') => Step(u) \in Range(ready) /\ u # t
      /\ \A u \in Tasks : Done(u) \in Range(ready') <=> Done(u) \in Range(ready) \/ u = t
  BY <1>1, <1>4, CallbackFacts
<1>8. QueueInv'
  BY <1>4, <1>5, <1>7 DEF IInv, QueueInv, threadVars
<1>9. NeverCancelled'
  BY <1>5 DEF IInv, NeverCancelled
<1>10. TablesInv'
  <2>1. taskToRequestId' = {u \in Tasks :
            status'[u] \in {"new", "waiting"} \/ Done(u) \in Range(ready')}
    BY <1>5, <1>7 DEF IInv, TablesInv
  <2>2. \A r \in Requests : status[Cancel(r)] = "absent" => status'[Cancel(r)] = "absent"
    BY <1>5, TaskFacts
  <2>. QED BY <2>1, <2>2 DEF IInv, TablesInv, TypeInv, TypeOK
<1>. QED BY <1>2, <1>4, <1>6, <1>8, <1>9, <1>10

\* A compile that goes on has its thread's outcome, and answers for the first
\* time.
LEMMA FinishCompileInv ==
    ASSUME IInv, NEW t \in Tasks, FinishCompile(t)
    PROVE  IInv'
<1>. DEFINE r == t.id
            kind == IF thread[r] = "ok" THEN "exit0" ELSE "exit3"
<1>1. /\ ready # <<>> /\ Head(ready) = Step(t) /\ ~t.cancel /\ status[t] = "waiting"
      /\ Finish(t, Tail(ready), status)
      /\ responses' = [responses EXCEPT ![r] = Append(@, kind)]
      /\ UNCHANGED <<bazelVars, buffer, atEof, requestIdToTask, taskToRequestId,
                     exited, threadVars>>
  BY DEF FinishCompile, IInv, NeverCancelled
<1>2. r \in Requests /\ t = Compile(r) /\ kind \in Answers /\ kind # "wasCancelled"
  BY <1>1, TaskFacts DEF Answers
<1>3. thread[r] \in {"ok", "failed"} /\ ExitsAt(r) = {}
  <2>1. Step(t) \in Range(ready)
    BY <1>1, HeadFacts
  <2>. QED BY <1>1, <1>2, <2>1 DEF IInv, QueueInv, ExitsInv
<1>. HIDE DEF r, kind
<1>4. /\ LinesInv' /\ QueueInv' /\ NeverCancelled' /\ TablesInv'
      /\ ready' \in Seq(Callbacks)
      /\ status' = [status EXCEPT ![t] = "finished"]
  BY <1>1, FinishFacts
<1>5. /\ responses' \in [Requests -> Seq(Answers)] /\ responses'[r] # <<>>
      /\ \A s \in Requests : s # r => responses'[s] = responses[s]
      /\ \E i \in DOMAIN responses'[r] : ExitsAt(r)' = {i} /\ responses'[r][i] = kind
  BY <1>1, <1>2, <1>3, AnswerFacts DEF IInv
<1>6. status'[t] = "finished" /\ \A u \in Tasks : u # t => status'[u] = status[u]
  BY <1>4 DEF IInv, TypeInv, TypeOK
<1>7. TypeInv'
  <2>1. Range(ready') \subseteq Callbacks
    BY <1>4, RangeOfSeq
  <2>2. \A s \in Requests : Range(responses'[s]) \subseteq Answers
    BY <1>5, RangeOfSeq
  <2>. QED BY <1>1, <1>4, <1>5, <2>1, <2>2
       DEF IInv, TypeInv, TypeOK, Callbacks, Answers, bazelVars, threadVars
<1>8. ExitsInv'
  <2>1. ASSUME NEW s \in Requests, s # r
        PROVE  /\ status'[Compile(s)] = status[Compile(s)]
               /\ responses'[s] = responses[s] /\ ExitsAt(s)' = ExitsAt(s)
    BY <1>2, <1>5, <1>6, <2>1, TaskFacts DEF ExitsAt
  <2>2. /\ status'[Compile(r)] = "finished"
        /\ \E i \in DOMAIN responses'[r] :
            /\ ExitsAt(r)' = {i}
            /\ responses'[r][i] = IF thread[r] = "ok" THEN "exit0" ELSE "exit3"
    BY <1>2, <1>5, <1>6 DEF kind
  <2>. QED BY <1>1, <1>3, <2>1, <2>2 DEF IInv, ExitsInv, threadVars
<1>9. CancelsInv'
  <2>1. \A s \in Requests :
            /\ status'[Cancel(s)] = status[Cancel(s)]
            /\ status[Compile(s)] = "finished" => status'[Compile(s)] = "finished"
            /\ responses[s] # <<>> => responses'[s] # <<>>
    BY <1>2, <1>5, <1>6, TaskFacts
  <2>. QED BY <1>1, <2>1 DEF IInv, CancelsInv
<1>. QED BY <1>4, <1>7, <1>8, <1>9 DEF IInv

\* A cancel finds itself in the dictionary, or a request that is completed.
LEMMA ProcessCancelInv ==
    ASSUME IInv, NEW t \in Tasks, ProcessCancel(t)
    PROVE  IInv'
<1>. DEFINE r == t.id
<1>1. /\ ready # <<>> /\ Head(ready) = Step(t) /\ t.cancel /\ status[t] = "new"
      /\ UNCHANGED <<bazelVars, buffer, atEof, requestIdToTask, taskToRequestId,
                     exited, threadVars>>
  BY DEF ProcessCancel
<1>2. r \in Requests /\ t = Cancel(r) /\ "wasCancelled" \in Answers
  BY <1>1, TaskFacts DEF Answers
<1>3. Finish(t, Tail(ready), status)
  <2>1. CASE r \notin DOMAIN requestIdToTask
    BY <2>1 DEF ProcessCancel
  <2>2. CASE r \in DOMAIN requestIdToTask
    <3>1. requestIdToTask[r] = t
      <4>1. requestIdToTask[r] \in Tasks /\ requestIdToTask[r].id = r
        BY <2>2 DEF IInv, TablesInv, TypeInv, TypeOK
      <4>2. requestIdToTask[r].cancel
        <5>1. status[Cancel(r)] # "absent"
          BY <1>1, <1>2
        <5>. QED BY <2>2, <5>1 DEF IInv, TablesInv
      <4>. QED BY <1>2, <4>1, <4>2, TaskFacts
    <3>2. Woken(t, Tail(ready)) = Tail(ready)
      BY <1>1 DEF Woken
    <3>3. Cancelled(t) = [status EXCEPT ![t] = "cancelled"]
      BY <1>1 DEF Cancelled
    <3>4. Finish(t, Woken(t, Tail(ready)), Cancelled(t))
      BY <2>2, <3>1 DEF ProcessCancel
    <3>. QED BY <3>2, <3>3, <3>4 DEF Finish, IInv, TypeInv, TypeOK
  <2>. QED BY <2>1, <2>2
<1>4. /\ LinesInv' /\ QueueInv' /\ NeverCancelled' /\ TablesInv'
      /\ ready' \in Seq(Callbacks)
      /\ status' = [status EXCEPT ![t] = "finished"]
  BY <1>1, <1>3, FinishFacts
<1>5. /\ responses' \in [Requests -> Seq(Answers)] /\ responses'[r] # <<>>
      /\ \A s \in Requests : Range(responses'[s]) \subseteq Answers
      /\ \A s \in Requests :
            /\ ExitsAt(s)' = ExitsAt(s)
            /\ \A i \in DOMAIN responses[s] :
                i \in DOMAIN responses'[s] /\ responses'[s][i] = responses[s][i]
            /\ responses[s] # <<>> => responses'[s] # <<>>
  <2>0. responses \in [Requests -> Seq(Answers)]
    BY DEF IInv, TypeInv
  <2>1. CASE r \in DOMAIN requestIdToTask
    <3>1. responses' = [responses EXCEPT ![r] = Append(@, "wasCancelled")]
      BY <2>1 DEF ProcessCancel
    <3>2. /\ responses' \in [Requests -> Seq(Answers)] /\ responses'[r] # <<>>
          /\ \A s \in Requests : s # r => responses'[s] = responses[s]
          /\ ExitsAt(r)' = ExitsAt(r)
          /\ \A i \in DOMAIN responses[r] :
                i \in DOMAIN responses'[r] /\ responses'[r][i] = responses[r][i]
      BY <1>2, <3>1, AnswerFacts DEF IInv
    <3>3. \A s \in Requests : Range(responses'[s]) \subseteq Answers
      BY <3>2, RangeOfSeq
    <3>4. \A s \in Requests : s # r => ExitsAt(s)' = ExitsAt(s)
      BY <3>2 DEF ExitsAt
    <3>. QED BY <3>2, <3>3, <3>4
  <2>2. CASE r \notin DOMAIN requestIdToTask
    <3>1. responses' = responses
      BY <2>2 DEF ProcessCancel
    <3>2. status[Compile(r)] = "finished"
      BY <1>1, <1>2, <2>2 DEF IInv, CancelsInv
    <3>3. responses[r] # <<>>
      <4>1. \E i : i \in DOMAIN responses[r]
        BY <1>2, <3>2 DEF IInv, ExitsInv
      <4>. QED BY <1>2, <2>0, <4>1, EmptySeq, LenProperties
    <3>4. \A s \in Requests : Range(responses'[s]) \subseteq Answers
      BY <2>0, <3>1, RangeOfSeq
    <3>. QED BY <2>0, <3>1, <3>3, <3>4 DEF ExitsAt
  <2>. QED BY <2>1, <2>2
<1>. HIDE DEF r
<1>6. status'[t] = "finished" /\ \A u \in Tasks : u # t => status'[u] = status[u]
  BY <1>4 DEF IInv, TypeInv, TypeOK
<1>7. TypeInv'
  <2>1. Range(ready') \subseteq Callbacks
    BY <1>4, RangeOfSeq
  <2>. QED BY <1>1, <1>4, <1>5, <2>1
       DEF IInv, TypeInv, TypeOK, Callbacks, Answers, bazelVars, threadVars
<1>8. ExitsInv'
  <2>1. \A s \in Requests : status'[Compile(s)] = status[Compile(s)]
    BY <1>2, <1>6, TaskFacts
  <2>2. ASSUME NEW s \in Requests, NEW i \in DOMAIN responses[s],
               ExitsAt(s) = {i},
               responses[s][i] = IF thread[s] = "ok" THEN "exit0" ELSE "exit3"
        PROVE  \E j \in DOMAIN responses'[s] :
                    /\ ExitsAt(s)' = {j}
                    /\ responses'[s][j] = IF thread[s] = "ok" THEN "exit0" ELSE "exit3"
    BY <1>5, <2>2
  <2>. QED BY <1>1, <1>5, <2>1, <2>2 DEF IInv, ExitsInv, threadVars
<1>9. CancelsInv'
  <2>1. ASSUME NEW s \in Requests
        PROVE  /\ status'[Compile(s)] = status[Compile(s)]
               /\ s # r => status'[Cancel(s)] = status[Cancel(s)]
               /\ s = r => status'[Cancel(s)] = "finished"
    BY <1>2, <1>6, TaskFacts
  <2>. QED BY <1>1, <1>2, <1>5, <2>1 DEF IInv, CancelsInv
<1>. QED BY <1>4, <1>7, <1>8, <1>9 DEF IInv

\* The done callback takes the request's entry, which leads to a task that has
\* finished or to no later task of the same request.
LEMMA HandleTaskDoneInv ==
    ASSUME IInv, NEW t \in Tasks, HandleTaskDone(t)
    PROVE  IInv'
<1>. DEFINE q == Tail(ready)
<1>1. /\ ready # <<>> /\ Head(ready) = Done(t) /\ ready' = q
      /\ taskToRequestId' = taskToRequestId \ {t}
      /\ requestIdToTask' = Restrict(requestIdToTask, DOMAIN requestIdToTask \ {t.id})
      /\ UNCHANGED <<bazelVars, buffer, atEof, status, exited, responses, threadVars>>
  BY DEF HandleTaskDone
<1>2. /\ q \in Seq(Callbacks) /\ Distinct(q)
      /\ Range(ready) = {Done(t)} \cup Range(q) /\ Done(t) \notin Range(q)
  BY <1>1, HeadFacts
<1>. HIDE DEF q
<1>3. status[t] = "finished"
  BY <1>2 DEF IInv, QueueInv
<1>4. /\ \A u \in Tasks : Step(u) \in Range(ready') <=> Step(u) \in Range(ready)
      /\ \A u \in Tasks : Done(u) \in Range(ready') <=> Done(u) \in Range(ready) /\ u # t
  BY <1>1, <1>2, CallbackFacts
<1>5. /\ DOMAIN requestIdToTask' = DOMAIN requestIdToTask \ {t.id}
      /\ \A r \in DOMAIN requestIdToTask' : requestIdToTask'[r] = requestIdToTask[r]
  BY <1>1 DEF Restrict
<1>6. TypeInv'
  <2>1. Range(ready') \subseteq Callbacks
    BY <1>1, <1>2, RangeOfSeq
  <2>2. DOMAIN requestIdToTask' \subseteq Requests
    BY <1>5 DEF IInv, TypeInv, TypeOK
  <2>3. \A r \in DOMAIN requestIdToTask' : requestIdToTask'[r] \in Tasks
    BY <1>5 DEF IInv, TypeInv, TypeOK
  <2>4. taskToRequestId' \subseteq Tasks
    BY <1>1 DEF IInv, TypeInv, TypeOK
  <2>. QED BY <1>1, <1>2, <2>1, <2>2, <2>3, <2>4
       DEF IInv, TypeInv, TypeOK, Callbacks, bazelVars, threadVars
<1>7. LinesInv'
  BY <1>1, LinesKept DEF IInv, bazelVars, Lines
<1>8. QueueInv'
  BY <1>1, <1>2, <1>4 DEF IInv, QueueInv, threadVars
<1>9. NeverCancelled'
  BY <1>1 DEF IInv, NeverCancelled
<1>10. TablesInv'
  <2>1. taskToRequestId' = {u \in Tasks :
            status'[u] \in {"new", "waiting"} \/ Done(u) \in Range(ready')}
    BY <1>1, <1>3, <1>4 DEF IInv, TablesInv
  <2>2. ASSUME NEW r \in DOMAIN requestIdToTask'
        PROVE  /\ requestIdToTask'[r] \in taskToRequestId' /\ requestIdToTask'[r].id = r
               /\ ~requestIdToTask'[r].cancel => status'[Cancel(r)] = "absent"
    BY <1>1, <1>5 DEF IInv, TablesInv
  <2>. QED BY <2>1, <2>2 DEF TablesInv
<1>11. ExitsInv'
  BY <1>1 DEF IInv, ExitsInv, ExitsAt, threadVars
<1>12. CancelsInv'
  <2>1. ASSUME NEW r \in Requests, status[Cancel(r)] = "new", r \notin DOMAIN requestIdToTask'
        PROVE  status[Compile(r)] = "finished"
    <3>1. CASE r = t.id
      BY <1>3, <2>1, <3>1, TaskFacts
    <3>2. CASE r # t.id
      BY <1>5, <2>1, <3>2 DEF IInv, CancelsInv
    <3>. QED BY <3>1, <3>2
  <2>. QED BY <1>1, <2>1 DEF IInv, CancelsInv
<1>. QED BY <1>6, <1>7, <1>8, <1>9, <1>10, <1>11, <1>12 DEF IInv

-----------------------------------------------------------------------------
(* The threads *)

\* A thread writes pycs only while its compile waits for it.
LEMMA CompileOneInv ==
    ASSUME IInv, NEW r \in Requests, CompileOne(r)
    PROVE  IInv'
<1>1. /\ thread[r] = "running" /\ pycs' = [pycs EXCEPT ![r] = @ + 1]
      /\ pycs[r] \in 0..Files /\ pycs[r] < Files
      /\ UNCHANGED <<bazelVars, loopVars, thread>>
  BY DEF CompileOne, IInv, TypeInv, TypeOK
<1>2. pycs' \in [Requests -> 0..Files]
  BY <1>1, FilesAssumption DEF IInv, TypeInv, TypeOK
<1>3. TypeInv'
  BY <1>1, <1>2 DEF IInv, TypeInv, TypeOK, bazelVars, loopVars
<1>4. LinesInv'
  BY <1>1, LinesKept DEF IInv, bazelVars, loopVars, Lines
<1>5. QueueInv' /\ NeverCancelled' /\ TablesInv' /\ CancelsInv'
  BY <1>1 DEF IInv, QueueInv, NeverCancelled, TablesInv, CancelsInv, loopVars
<1>6. ExitsInv'
  <2>1. \A s \in Requests : thread[s] # "running" => pycs'[s] = pycs[s]
    BY <1>1 DEF IInv, TypeInv, TypeOK
  <2>. QED BY <1>1, <2>1 DEF IInv, ExitsInv, ExitsAt, loopVars
<1>. QED BY <1>3, <1>4, <1>5, <1>6 DEF IInv

\* The thread's end wakes the task, whose step was not queued before.
LEMMA ThreadEndsInv ==
    ASSUME IInv, NEW r \in Requests, CompileError(r) \/ CompileDone(r)
    PROVE  IInv'
<1>. DEFINE t == Compile(r)
<1>1. PICK outcome \in {"ok", "failed"} :
        /\ thread[r] = "running" /\ thread' = [thread EXCEPT ![r] = outcome]
        /\ outcome = "ok" => pycs[r] = Files
        /\ outcome = "failed" => pycs[r] < Files
        /\ ready' = IF ~exited /\ status[t] = "waiting" THEN Append(ready, Step(t)) ELSE ready
        /\ UNCHANGED <<bazelVars, buffer, atEof, status, requestIdToTask,
                       taskToRequestId, exited, responses, pycs>>
  BY DEF CompileError, CompileDone, ThreadEnds, Compile
<1>2. t \in Tasks /\ t.id = r /\ ~t.cancel
  BY TaskFacts
<1>. HIDE DEF t
<1>3. thread'[r] = outcome /\ \A s \in Requests : s # r => thread'[s] = thread[s]
  BY <1>1 DEF IInv, TypeInv, TypeOK
<1>4. /\ ready' \in Seq(Callbacks) /\ Distinct(ready')
      /\ \A u \in Tasks :
            /\ Step(u) \in Range(ready') =>
                    Step(u) \in Range(ready) \/ (u = t /\ status[u] = "waiting")
            /\ Done(u) \in Range(ready') <=> Done(u) \in Range(ready)
  <2>1. ready \in Seq(Callbacks) /\ Distinct(ready)
    BY DEF IInv, TypeInv, QueueInv
  <2>2. CASE ~exited /\ status[t] = "waiting"
    <3>1. Step(t) \notin Range(ready) /\ Step(t) \in Callbacks
      BY <1>1, <1>2, <2>2, CallbackFacts DEF IInv, QueueInv
    <3>2. /\ ready' \in Seq(Callbacks) /\ Distinct(ready')
          /\ Range(ready') = Range(ready) \cup {Step(t)}
      BY <1>1, <2>1, <2>2, <3>1, QueuedFacts
    <3>. QED BY <2>2, <3>2, CallbackFacts
  <2>3. CASE ~(~exited /\ status[t] = "waiting")
    BY <1>1, <2>1, <2>3
  <2>. QED BY <2>2, <2>3
<1>5. TypeInv'
  <2>1. Range(ready') \subseteq Callbacks
    BY <1>4, RangeOfSeq
  <2>. QED BY <1>1, <1>4, <2>1 DEF IInv, TypeInv, TypeOK, Callbacks, bazelVars
<1>6. LinesInv'
  BY <1>1, LinesKept DEF IInv, bazelVars, Lines
<1>7. QueueInv'
  <2>1. ASSUME NEW u \in Tasks, status[u] = "waiting", Step(u) \in Range(ready')
        PROVE  thread'[u.id] \in {"ok", "failed"}
    <3>1. CASE u.id = r
      BY <1>3, <3>1
    <3>2. CASE u.id # r
      <4>1. Step(u) \in Range(ready) /\ u.id \in Requests
        BY <1>2, <1>4, <2>1, <3>2, TaskFacts
      <4>. QED BY <1>3, <2>1, <3>2, <4>1 DEF IInv, QueueInv
    <3>. QED BY <3>1, <3>2
  <2>. QED BY <1>1, <1>4, <2>1 DEF IInv, QueueInv
<1>8. NeverCancelled' /\ TablesInv' /\ CancelsInv'
  BY <1>1, <1>4 DEF IInv, NeverCancelled, TablesInv, CancelsInv
<1>9. ExitsInv'
  <2>1. status[Compile(r)] # "finished"
    BY <1>1 DEF IInv, ExitsInv
  <2>. QED BY <1>1, <1>3, <2>1 DEF IInv, ExitsInv, ExitsAt
<1>. QED BY <1>5, <1>6, <1>7, <1>8, <1>9 DEF IInv

-----------------------------------------------------------------------------
\* Every step keeps the invariant.
LEMMA StepInv == IInv /\ [Next]_vars => IInv'
<1>. SUFFICES ASSUME IInv, [Next]_vars PROVE IInv'
  OBVIOUS
<1>1. CASE UNCHANGED vars
  <2>. USE <1>1 DEF vars, bazelVars, loopVars, threadVars
  <2>1. TypeInv'
    BY DEF IInv, TypeInv, TypeOK
  <2>2. LinesInv'
    BY LinesKept DEF IInv, Lines
  <2>3. QueueInv' /\ NeverCancelled' /\ TablesInv'
    BY DEF IInv, QueueInv, NeverCancelled, TablesInv
  <2>4. ExitsInv' /\ CancelsInv'
    BY DEF IInv, ExitsInv, ExitsAt, CancelsInv
  <2>. QED BY <2>1, <2>2, <2>3, <2>4 DEF IInv
<1>2. CASE Bazel
  BY <1>2, CloseStdinInv, SendCompileInv, SendCancelInv DEF Bazel
<1>3. CASE Loop
  BY <1>3, ReceiveInv, RunMainInv, StartCompileInv, FinishCompileInv, ProcessCancelInv,
     HandleTaskDoneInv DEF Loop
<1>4. ASSUME NEW r \in Requests, Thread(r) PROVE IInv'
  BY <1>4, CompileOneInv, ThreadEndsInv DEF Thread
<1>. QED BY <1>1, <1>2, <1>3, <1>4 DEF Next

\* Type correctness for any requests and any number of files.
THEOREM TypeCorrect == Spec => []TypeOK
<1>1. IInv => TypeOK
  BY DEF IInv, TypeInv
<1>. QED BY <1>1, InitInv, StepInv, PTL DEF Spec

\* However cancels, threads and callbacks interleave, a compile is reported
\* once, and as a success exactly when its thread wrote every pyc.
THEOREM ExitsAreTrue == Spec => []OneExitPerRequest
<1>1. IInv => OneExitPerRequest
  <2>. SUFFICES ASSUME IInv, NEW r \in Requests
                PROVE  /\ \A i, j \in ExitsAt(r) : i = j
                       /\ \A i \in ExitsAt(r) : responses[r][i] = "exit0" <=> pycs[r] = Files
    BY DEF OneExitPerRequest
  <2>1. CASE status[Compile(r)] # "finished"
    BY <2>1 DEF IInv, ExitsInv
  <2>2. CASE status[Compile(r)] = "finished"
    <3>1. PICK i \in DOMAIN responses[r] :
            /\ ExitsAt(r) = {i}
            /\ responses[r][i] = IF thread[r] = "ok" THEN "exit0" ELSE "exit3"
      BY <2>2 DEF IInv, ExitsInv
    <3>2. thread[r] = "ok" <=> pycs[r] = Files
      <4>1. pycs[r] \in 0..Files /\ Files \in Nat
        BY FilesAssumption DEF IInv, TypeInv, TypeOK
      <4>. QED BY <2>2, <4>1 DEF IInv, ExitsInv
    <3>. QED BY <3>1, <3>2
  <2>. QED BY <2>1, <2>2
<1>. QED BY <1>1, InitInv, StepInv, PTL DEF Spec

\* A task is in _task_to_request_id until its done callback ran, and no entry
\* of _request_id_to_task leads to a task that is gone.
THEOREM TablesAreTrue == Spec => []TablesFollowTasks
<1>1. IInv => TablesFollowTasks
  BY DEF IInv, TablesInv, NeverCancelled, TablesFollowTasks
<1>. QED BY <1>1, InitInv, StepInv, PTL DEF Spec

\* A cancel that writes nothing is about a request that has been answered.
THEOREM IgnoredCancelIsLate == Spec => []IgnoredCancelWasCompleted
<1>1. IInv => IgnoredCancelWasCompleted
  BY DEF IInv, CancelsInv, IgnoredCancelWasCompleted, Cancel
<1>. QED BY <1>1, InitInv, StepInv, PTL DEF Spec

\* No compile is ever cancelled: when a cancel looks for the request's task it
\* finds its own, and cancels what is running it.
THEOREM CompilesAreNeverCancelled == Spec => []NeverCancelled
<1>1. IInv => NeverCancelled
  BY DEF IInv
<1>. QED BY <1>1, InitInv, StepInv, PTL DEF Spec

-----------------------------------------------------------------------------
(* The exits keep the worker protocol *)

\* What there is in order at no place, and at one.
LEMMA InOrderFacts ==
    ASSUME NEW seq
    PROVE  /\ InOrder(seq, {}) = <<>>
           /\ \A i \in Nat : InOrder(seq, {i}) = <<seq[i]>>
<1>1. InOrder(seq, {}) = <<>>
  <2>1. Cardinality({}) = 0
    BY FS_EmptySet
  <2>. QED BY <2>1 DEF InOrder
<1>2. ASSUME NEW i \in Nat PROVE InOrder(seq, {i}) = <<seq[i]>>
  <2>. DEFINE below(k) == {j \in {i} : j < k}
              at(n) == CHOOSE k \in {i} : Cardinality(below(k)) = n - 1
  <2>1. Cardinality({i}) = 1 /\ Cardinality({}) = 0
    BY FS_Singleton, FS_EmptySet
  <2>2. below(i) = {}
    OBVIOUS
  <2>3. Cardinality(below(i)) = 1 - 1
    BY ONLY <2>1, <2>2
  <2>4. at(1) = i
    <3>. HIDE DEF below
    <3>1. \E k \in {i} : Cardinality(below(k)) = 1 - 1
      BY <2>3
    <3>2. at(1) \in {i}
      BY <3>1
    <3>. QED BY ONLY <3>2
  <2>5. InOrder(seq, {i}) = [n \in 1..1 |-> seq[at(n)]]
    BY ONLY <2>1 DEF InOrder
  <2>. HIDE DEF at
  <2>6. InOrder(seq, {i}) = [n \in 1..1 |-> seq[i]]
    <3>1. \A n \in 1..1 : at(n) = i
      BY <2>4
    <3>. QED BY <2>5, <3>1
  <2>7. [n \in 1..1 |-> seq[i]] = <<seq[i]>>
    OBVIOUS
  <2>. QED BY <2>6, <2>7
<1>. QED BY <1>1, <1>2

\* At the start nothing has been answered.
LEMMA InitRefines == Init => Protocol!Init
<1>. SUFFICES ASSUME Init PROVE Protocol!Init
  OBVIOUS
<1>1. \A r \in Requests : ExitsAt(r) = {}
  BY DEF Init, ExitsAt
<1>2. \A r \in Requests : Exits(r) = <<>>
  BY <1>1, InOrderFacts DEF Exits
<1>. QED BY <1>2 DEF Init, Protocol!Init

\* The end of a compile is the response to its request.
LEMMA FinishCompileRefines ==
    ASSUME IInv, NEW t \in Tasks, FinishCompile(t)
    PROVE  Protocol!Next
<1>. DEFINE r == t.id
            kind == IF thread[r] = "ok" THEN "exit0" ELSE "exit3"
<1>1. /\ ~t.cancel /\ status[t] = "waiting"
      /\ responses' = [responses EXCEPT ![r] = Append(@, kind)]
      /\ UNCHANGED <<asked, cancelling>>
  BY DEF FinishCompile, IInv, NeverCancelled, bazelVars
<1>2. /\ r \in Requests /\ t = Compile(r) /\ kind \in Answers /\ kind # "wasCancelled"
      /\ r \in asked
  BY <1>1, TaskFacts DEF Answers, IInv, LinesInv
<1>. HIDE DEF r, kind
<1>3. ExitsAt(r) = {}
  BY <1>1, <1>2 DEF IInv, ExitsInv
<1>4. /\ \A s \in Requests : s # r => responses'[s] = responses[s]
      /\ \E i \in DOMAIN responses'[r] : ExitsAt(r)' = {i} /\ responses'[r][i] = kind
      /\ responses' \in [Requests -> Seq(Answers)]
  <2>1. TypeInv
    BY DEF IInv
  <2>2. r \in Requests /\ kind \in Answers /\ kind # "wasCancelled" /\ ExitsAt(r) = {}
    BY <1>2, <1>3
  <2>3. responses' = [responses EXCEPT ![r] = Append(@, kind)]
    BY <1>1
  <2>4. \A s \in Requests : s # r => responses'[s] = responses[s]
    BY ONLY <2>1, <2>2, <2>3, AnswerFacts
  <2>5. \E i \in DOMAIN responses'[r] : ExitsAt(r)' = {i} /\ responses'[r][i] = kind
    BY ONLY <2>1, <2>2, <2>3, AnswerFacts
  <2>6. responses' \in [Requests -> Seq(Answers)]
    BY ONLY <2>1, <2>2, <2>3, AnswerFacts
  <2>. QED BY ONLY <2>4, <2>5, <2>6
<1>5. Exits(r) = <<>>
  BY <1>3, InOrderFacts DEF Exits
<1>6. Exits(r)' = <<kind>>
  <2>1. PICK i \in DOMAIN responses'[r] : ExitsAt(r)' = {i} /\ responses'[r][i] = kind
    BY <1>4
  <2>2. i \in Nat
    <3>1. responses'[r] \in Seq(Answers)
      BY <1>2, <1>4
    <3>. QED BY <2>1, <3>1, LenProperties
  <2>. QED BY <1>2, <2>1, <2>2, InOrderFacts DEF Exits
<1>7. ASSUME NEW s \in Requests, s # r PROVE Exits(s)' = Exits(s)
  <2>1. responses'[s] = responses[s]
    BY <1>4, <1>7
  <2>2. ExitsAt(s)' = ExitsAt(s)
    BY <2>1 DEF ExitsAt
  <2>. QED BY ONLY <2>1, <2>2 DEF Exits
<1>8. Protocol!Respond(r, kind)
  <2>1. [s \in Requests |-> Exits(s)]' = [[s \in Requests |-> Exits(s)] EXCEPT ![r] = <<kind>>]
    BY <1>2, <1>6, <1>7
  <2>. QED BY <1>1, <1>2, <1>5, <2>1 DEF Protocol!Respond
<1>9. kind \in Protocol!ResponseKinds
  BY <1>2 DEF Answers, Protocol!ResponseKinds
<1>. QED BY <1>2, <1>8, <1>9 DEF Protocol!Next

\* A step that leaves the exits alone is not one of the protocol's.
LEMMA Stutters ==
    ASSUME UNCHANGED <<asked, cancelling>>, \A r \in Requests : Exits(r)' = Exits(r)
    PROVE  UNCHANGED Protocol!protocolVars
<1>1. [r \in Requests |-> Exits(r)]' = [r \in Requests |-> Exits(r)]
  OBVIOUS
<1>. QED BY <1>1 DEF Protocol!protocolVars

\* As long as no response is written, the exits are what they were.
LEMMA SameExits ==
    ASSUME UNCHANGED responses
    PROVE  \A r \in Requests : Exits(r)' = Exits(r)
BY DEF Exits, ExitsAt

\* What a cancel writes is not an exit.
LEMMA ProcessCancelStutters ==
    ASSUME IInv, NEW t \in Tasks, ProcessCancel(t)
    PROVE  UNCHANGED Protocol!protocolVars
<1>1. UNCHANGED <<asked, cancelling>>
  BY DEF ProcessCancel, bazelVars
<1>2. CASE responses' = responses
  BY <1>1, <1>2, SameExits, Stutters
<1>3. CASE responses' = [responses EXCEPT ![t.id] = Append(@, "wasCancelled")]
  <2>. DEFINE r == t.id
  <2>1. r \in Requests
    BY DEF Tasks
  <2>2. responses' = [responses EXCEPT ![r] = Append(@, "wasCancelled")]
    BY <1>3
  <2>. HIDE DEF r
  <2>3. /\ ExitsAt(r)' = ExitsAt(r)
        /\ \A i \in DOMAIN responses[r] : responses'[r][i] = responses[r][i]
        /\ \A s \in Requests : s # r => responses'[s] = responses[s]
    <3>1. TypeInv /\ "wasCancelled" \in Answers
      BY DEF IInv, Answers
    <3>. QED BY <2>1, <2>2, <3>1, AnswerFacts
  <2>4. Exits(r)' = Exits(r)
    <3>1. CASE ExitsAt(r) = {}
      BY <2>3, <3>1, InOrderFacts DEF Exits
    <3>2. CASE ExitsAt(r) # {}
      <4>1. PICK i \in DOMAIN responses[r] : ExitsAt(r) = {i}
        BY <2>1, <3>2 DEF IInv, ExitsInv
      <4>2. i \in Nat
        BY <2>1, LenProperties DEF IInv, TypeInv
      <4>3. Exits(r) = <<responses[r][i]>>
        BY <4>1, <4>2, InOrderFacts DEF Exits
      <4>4. Exits(r)' = <<responses'[r][i]>>
        BY <2>3, <4>1, <4>2, InOrderFacts DEF Exits
      <4>. QED BY <2>3, <4>3, <4>4
    <3>. QED BY <3>1, <3>2
  <2>5. ASSUME NEW s \in Requests, s # r PROVE Exits(s)' = Exits(s)
    <3>1. responses'[s] = responses[s]
      BY <2>3, <2>5
    <3>2. ExitsAt(s)' = ExitsAt(s)
      BY <3>1 DEF ExitsAt
    <3>. QED BY ONLY <3>1, <3>2 DEF Exits
  <2>. QED BY <1>1, <2>4, <2>5, Stutters
<1>. QED BY <1>2, <1>3 DEF ProcessCancel

\* Bazel's requests are the protocol's.
LEMMA SendCompileRefines ==
    ASSUME NEW r \in Requests, SendCompile(r)
    PROVE  Protocol!Next
<1>1. \A s \in Requests : Exits(s)' = Exits(s)
  BY SameExits DEF SendCompile, loopVars
<1>2. [s \in Requests |-> Exits(s)]' = [s \in Requests |-> Exits(s)]
  BY <1>1
<1>3. Protocol!Ask(r)
  BY <1>2 DEF SendCompile, Protocol!Ask
<1>. QED BY <1>3 DEF Protocol!Next

\* And so are its cancels.
LEMMA SendCancelRefines ==
    ASSUME NEW r \in Requests, SendCancel(r)
    PROVE  Protocol!Next
<1>1. \A s \in Requests : Exits(s)' = Exits(s)
  BY SameExits DEF SendCancel, loopVars
<1>2. [s \in Requests |-> Exits(s)]' = [s \in Requests |-> Exits(s)]
  BY <1>1
<1>3. Protocol!AskCancel(r)
  BY <1>2 DEF SendCancel, Protocol!AskCancel
<1>. QED BY <1>3 DEF Protocol!Next

\* The rest writes no response and asks for none.
LEMMA OthersStutter ==
    ASSUME \/ UNCHANGED vars \/ CloseStdin \/ ReceiveLines \/ ReceiveEof \/ RunMain
           \/ \E t \in Tasks : StartCompile(t) \/ HandleTaskDone(t)
           \/ \E r \in Requests : Thread(r)
    PROVE  UNCHANGED Protocol!protocolVars
<1>1. UNCHANGED <<asked, cancelling, responses>>
  BY DEF vars, bazelVars, loopVars, threadVars, CloseStdin, ReceiveLines, ReceiveEof,
     RunMain, StartCompile, HandleTaskDone, Thread, CompileOne, CompileError,
     CompileDone, ThreadEnds
<1>. QED BY <1>1, SameExits, Stutters

\* The exits of the worker's compiles, answers to cancels left out, keep the
\* worker protocol: one exit at most for each request Bazel wrote.
THEOREM Refinement == Spec => ImplementsProtocol
<1>1. IInv /\ [Next]_vars => [Protocol!Next]_(Protocol!protocolVars)
  <2>. SUFFICES ASSUME IInv, [Next]_vars
                PROVE  Protocol!Next \/ UNCHANGED Protocol!protocolVars
    OBVIOUS
  <2>1. CASE UNCHANGED vars \/ \E r \in Requests : Thread(r)
    BY <2>1, OthersStutter
  <2>2. CASE Bazel
    BY <2>2, OthersStutter, SendCompileRefines, SendCancelRefines DEF Bazel
  <2>3. CASE Loop
    BY <2>3, OthersStutter, FinishCompileRefines, ProcessCancelStutters DEF Loop
  <2>. QED BY <2>1, <2>2, <2>3 DEF Next
<1>. QED BY <1>1, InitRefines, InitInv, StepInv, PTL
         DEF Spec, ImplementsProtocol, Protocol!Spec
=============================================================================

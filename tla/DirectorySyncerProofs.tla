----------------------- MODULE DirectorySyncerProofs -----------------------
(* DirectorySyncer for any paths, entries, number of threads and errors: its  *)
(* counter counts, no task outlives sync(), and a sync without a failure      *)
(* mirrors the manifest wherever removals and copies do not meet.             *)
EXTENDS DirectorySyncer, FiniteSetTheorems, TLAPS

TaskType == task \in [Tasks -> {"none", "queued", "returned", "done"} \cup Running]

\* What sync() decides by, the counter, is about tasks; the induction needs to
\* know that there are finitely many.
CountInv ==
    /\ TaskType
    /\ IsFiniteSet(Active)
    /\ RemainingCountsTasks
    /\ NoTaskOutlivesSync

-----------------------------------------------------------------------------
\* The tasks that the operations make.
LEMMA TaskNames ==
    ASSUME NEW p \in Paths
    PROVE  Remove(p) \in Tasks /\ CopyFile(p) \in Tasks /\ CopyDir(p) \in Tasks
BY DEF Tasks, Remove, CopyFile, CopyDir

\* _submit_task: one more task, and one more in the counter.
LEMMA SubmitCounts ==
    ASSUME CountInv, NEW t \in Tasks, Submit(t)
    PROVE  TaskType' /\ IsFiniteSet(Active') /\ RemainingCountsTasks'
<1>1. TaskType' /\ Active' = Active \cup {t} /\ t \notin Active
  BY DEF CountInv, TaskType, Submit, Active, Running
<1>2. /\ IsFiniteSet(Active \cup {t})
      /\ Cardinality(Active \cup {t}) = Cardinality(Active) + 1
  BY <1>1, FS_AddElement DEF CountInv
<1>3. remaining' = remaining + 1
  BY DEF Submit
<1>. QED BY <1>1, <1>2, <1>3 DEF CountInv, RemainingCountsTasks

\* _task_finished: one less of both; whoever was waiting had something to wait
\* for.
LEMMA FinishCounts ==
    ASSUME CountInv, NEW t \in Tasks, task[t] \in Running, TaskFinished(t)
    PROVE  CountInv'
<1>1. TaskType' /\ Active' = Active \ {t} /\ t \in Active
  BY DEF CountInv, TaskType, TaskFinished, Active, Running
<1>2. /\ IsFiniteSet(Active \ {t})
      /\ Cardinality(Active \ {t}) = Cardinality(Active) - 1
  BY <1>1, FS_RemoveElement DEF CountInv
<1>3. IsFiniteSet(Active') /\ RemainingCountsTasks'
  BY <1>1, <1>2 DEF CountInv, RemainingCountsTasks, TaskFinished
<1>4. NoTaskOutlivesSync'
  <2>1. phase \notin {"closing", "idle"}
    BY <1>1 DEF CountInv, NoTaskOutlivesSync
  <2>. QED BY <2>1 DEF TaskFinished, NoTaskOutlivesSync
<1>. QED BY <1>1, <1>3, <1>4 DEF CountInv

\* A step from one to another of the states in which a task is counted, or is
\* not, changes nothing that the counter says.
LEMMA MoveCounts ==
    ASSUME CountInv, NEW t \in Tasks, NEW new, task' = [task EXCEPT ![t] = new],
           \/ task[t] \in {"queued"} \cup Running /\ new \in Running
           \/ task[t] = "returned" /\ new = "done",
           UNCHANGED <<remaining, phase>>
    PROVE  CountInv'
<1>1. TaskType' /\ Active' = Active
  BY DEF CountInv, TaskType, Active, Running
<1>. QED BY <1>1 DEF CountInv, RemainingCountsTasks, NoTaskOutlivesSync

\* A step of a running function goes on or finishes it.
Runs(t) ==
    /\ t \in Tasks /\ task[t] \in Running
    /\ \/ Succeed(t) \/ Fault(t)
       \/ Raise(t) /\ UNCHANGED faults
       \/ \E state \in Running : Goto(t, state)

LEMMA RunsWhere ==
    ASSUME NEW p \in Paths
    PROVE  /\ RemovePath(p) \/ UnlinkPath(p) \/ RemoveDir(p) => Runs(Remove(p))
           /\ FileCopy(p) => Runs(CopyFile(p))
           /\ ScanDir(p) \/ CopyDirEnds(p) => Runs(CopyDir(p))
<1>1. RemovePath(p) => Runs(Remove(p))
  BY TaskNames DEF RemovePath, Runs, Running
<1>2. UnlinkPath(p) => Runs(Remove(p))
  BY TaskNames DEF UnlinkPath, Runs, Running
<1>3. RemoveDir(p) => Runs(Remove(p))
  BY TaskNames DEF RemoveDir, Runs, Running
<1>4. ASSUME NEW t \in Tasks, NEW d, NEW state \in Running, task[t] \in Running,
             MakeDir(t, d, state)
      PROVE  Runs(t)
  BY <1>4 DEF MakeDir, Runs
<1>5. MakeParent(p) => Runs(CopyFile(p))
  BY <1>4, TaskNames DEF MakeParent, Running
<1>6. CopyContent(p) => Runs(CopyFile(p))
  BY TaskNames DEF CopyContent, Runs, Running
<1>7. ChangeMode(p) => Runs(CopyFile(p))
  BY TaskNames DEF ChangeMode, Runs, Running
<1>8. ScanDir(p) => Runs(CopyDir(p))
  BY <1>4, TaskNames DEF ScanDir, Running
<1>9. CopyDirEnds(p) => Runs(CopyDir(p))
  BY TaskNames DEF CopyDirEnds, Runs, Running
<1>. QED BY <1>1, <1>2, <1>3, <1>5, <1>6, <1>7, <1>8, <1>9 DEF FileCopy

-----------------------------------------------------------------------------
\* Nothing has been submitted.
LEMMA InitCounts == Init => CountInv
<1>. SUFFICES ASSUME Init PROVE CountInv
  OBVIOUS
<1>1. TaskType /\ Active = {}
  BY DEF Init, TaskType, Active, Running
<1>. QED BY <1>1, FS_EmptySet DEF Init, CountInv, RemainingCountsTasks, NoTaskOutlivesSync

\* The calling thread: sync() starts with a counter and tasks of its own, and
\* decides when the counter is zero.
LEMMA CallerCounts ==
    ASSUME CountInv, Caller \/ \E new \in Manifests : Sync(new)
    PROVE  CountInv'
<1>1. ASSUME NEW new \in Manifests, Sync(new) PROVE CountInv'
  <2>1. TaskType' /\ Active' = {} /\ remaining' = 0
    BY <1>1 DEF Sync, TaskType, Active, Running
  <2>. QED BY <2>1, FS_EmptySet DEF CountInv, RemainingCountsTasks, NoTaskOutlivesSync
<1>2. ASSUME NEW e \in Paths, SubmitRemove(e) PROVE CountInv'
  <2>1. Remove(e) \in Tasks /\ Submit(Remove(e)) /\ phase' = "submitting"
    BY <1>2, TaskNames DEF SubmitRemove
  <2>2. TaskType' /\ IsFiniteSet(Active') /\ RemainingCountsTasks'
    BY <2>1, SubmitCounts
  <2>. QED BY <2>1, <2>2 DEF CountInv, NoTaskOutlivesSync
<1>3. ASSUME NEW e \in Paths, SubmitCopy(e) PROVE CountInv'
  <2>. DEFINE t == IF IsDir(e) THEN CopyDir(e) ELSE CopyFile(e)
  <2>1. t \in Tasks /\ Submit(t) /\ phase' = "submitting"
    BY <1>3, TaskNames DEF SubmitCopy
  <2>. HIDE DEF t
  <2>2. TaskType' /\ IsFiniteSet(Active') /\ RemainingCountsTasks'
    BY <2>1, SubmitCounts
  <2>. QED BY <2>1, <2>2 DEF CountInv, NoTaskOutlivesSync
<1>4. CASE StartWaiting \/ WaitForCompletion \/ CloseExecutor
  <2>1. UNCHANGED <<task, remaining>>
    BY <1>4 DEF StartWaiting, WaitForCompletion, CloseExecutor, poolVars
  <2>2. Active' = Active
    BY <2>1 DEF Active
  <2>3. phase' \in {"closing", "idle"} => Active = {}
    <3>1. CASE StartWaiting
      BY <3>1 DEF StartWaiting
    <3>2. CASE WaitForCompletion
      <4>1. Cardinality(Active) \in Nat
        BY FS_CardinalityType DEF CountInv
      <4>2. phase' = "closing" => Cardinality(Active) = 0
        BY <3>2, <4>1 DEF WaitForCompletion, CountInv, RemainingCountsTasks
      <4>. QED BY <3>2, <4>2, FS_EmptySet DEF WaitForCompletion, CountInv
    <3>3. CASE CloseExecutor
      BY <3>3 DEF CloseExecutor, Active, Running
    <3>. QED BY <1>4, <3>1, <3>2, <3>3
  <2>. QED BY <2>1, <2>2, <2>3 DEF CountInv, TaskType, RemainingCountsTasks, NoTaskOutlivesSync
<1>. QED BY <1>1, <1>2, <1>3, <1>4 DEF Caller

\* The pool: whatever it runs is counted until its function has finished, and
\* while a directory is scanned its own task is.
LEMMA PoolCounts == ASSUME CountInv, Pool PROVE CountInv'
<1>1. ASSUME NEW t \in Tasks, StartTask(t) PROVE CountInv'
  BY <1>1, MoveCounts DEF StartTask, callerVars, Running
<1>2. ASSUME NEW t \in Tasks, HandleTaskDone(t) PROVE CountInv'
  BY <1>2, MoveCounts DEF HandleTaskDone, callerVars
<1>3. ASSUME NEW t, Runs(t) PROVE CountInv'
  <2>1. CASE Succeed(t) \/ Fault(t) \/ Raise(t)
    BY <1>3, <2>1, FinishCounts DEF Runs, Succeed, Fault, Raise
  <2>2. ASSUME NEW state \in Running, Goto(t, state) PROVE CountInv'
    BY <1>3, <2>2, MoveCounts DEF Runs, Goto, callerVars
  <2>. QED BY <1>3, <2>1, <2>2 DEF Runs
<1>4. ASSUME NEW p \in Paths, NEW c \in Paths, RemoveListed(p, c) PROVE CountInv'
  <2>1. UNCHANGED <<task, remaining, phase>>
    BY <1>4 DEF RemoveListed, callerVars
  <2>2. Active' = Active
    BY <2>1 DEF Active
  <2>. QED BY <2>1, <2>2 DEF CountInv, TaskType, RemainingCountsTasks, NoTaskOutlivesSync
<1>5. ASSUME NEW d \in Paths, NEW f \in Paths, SubmitChild(d, f) PROVE CountInv'
  <2>1. /\ CopyFile(f) \in Tasks /\ Submit(CopyFile(f))
        /\ CopyDir(d) \in Active /\ phase' = phase
    BY <1>5, TaskNames DEF SubmitChild, Active, callerVars, Running
  <2>2. TaskType' /\ IsFiniteSet(Active') /\ RemainingCountsTasks'
    BY <2>1, SubmitCounts
  <2>. QED BY <2>1, <2>2 DEF CountInv, NoTaskOutlivesSync
<1>. QED BY <1>1, <1>2, <1>3, <1>4, <1>5, RunsWhere DEF Pool, Removal, DirCopy

\* Every step keeps the counter true.
LEMMA StepCounts == CountInv /\ [Next]_vars => CountInv'
<1>1. CASE UNCHANGED vars
  <2>1. CountInv => Active' = Active
    BY <1>1 DEF vars, poolVars, Active
  <2>. QED BY <1>1, <2>1 DEF vars, poolVars, callerVars, CountInv, TaskType,
            RemainingCountsTasks, NoTaskOutlivesSync
<1>2. CASE Next
  BY <1>2, CallerCounts, PoolCounts DEF Next
<1>. QED BY <1>1, <1>2

\* _remaining is the number of tasks that have not finished, whatever is
\* submitted from pool threads and whichever tasks fail.
THEOREM CounterCounts == Spec => []RemainingCountsTasks
<1>1. CountInv => RemainingCountsTasks
  BY DEF CountInv
<1>. QED BY <1>1, InitCounts, StepCounts, PTL DEF Spec

\* sync() neither decides nor returns while a task of it is under way.
THEOREM NoTaskOutlives == Spec => []NoTaskOutlivesSync
<1>1. CountInv => NoTaskOutlivesSync
  BY DEF CountInv
<1>. QED BY <1>1, InitCounts, StepCounts, PTL DEF Spec

-----------------------------------------------------------------------------
(* Types.  What a task copies or removes is in the manifest, or not, when it  *)
(* is submitted and as long as the sync lasts.                                *)

\* A file of the manifest: an entry, or in one.
Listed(p) ==
    \/ p \in DOMAIN entries /\ ~IsDir(p)
    \/ /\ p \notin DOMAIN entries /\ Parent[p] \in DOMAIN entries
       /\ p \in Source[Parent[p]][entries[Parent[p]]]

OwnersInv ==
    /\ \A p \in toRemove : Given(p) /\ p \notin DOMAIN entries
    /\ \A p \in Paths :
        /\ task[Remove(p)] # "none" => Given(p) /\ p \notin DOMAIN entries
        /\ task[CopyDir(p)] # "none" => IsDir(p)
        /\ task[CopyFile(p)] # "none" => Listed(p)
        /\ task[CopyDir(p)] = "scanning" => scan[p] \subseteq Source[p][entries[p]]
        /\ task[Remove(p)] = "removing" => scan[p] \subseteq In(p)

\* The manifests that sync() works with are among those it was given.
GivenInv ==
    /\ \A p \in DOMAIN entries : <<p, entries[p]>> \in given
    /\ \A p \in DOMAIN currentShas : <<p, currentShas[p]>> \in given

TypeInv == CountInv /\ TypeOK /\ GivenInv /\ OwnersInv

\* Operations of different kinds, or on different paths, are different tasks.
LEMMA TasksDiffer ==
    ASSUME NEW e, NEW g
    PROVE  /\ Remove(e) # CopyFile(g) /\ Remove(e) # CopyDir(g) /\ CopyFile(e) # CopyDir(g)
           /\ Remove(e) = Remove(g) => e = g
           /\ CopyFile(e) = CopyFile(g) => e = g
           /\ CopyDir(e) = CopyDir(g) => e = g
<1>1. /\ Remove(e).op = "remove" /\ Remove(e).path = e /\ Remove(g).path = g
      /\ CopyFile(e).op = "copyFile" /\ CopyFile(e).path = e
      /\ CopyFile(g).op = "copyFile" /\ CopyFile(g).path = g
      /\ CopyDir(g).op = "copyDir" /\ CopyDir(g).path = g /\ CopyDir(e).path = e
  BY DEF Remove, CopyFile, CopyDir
<1>. QED BY <1>1

\* A manifest gives its entries versions, and lists no directory together with
\* what is in it.
LEMMA ManifestFacts ==
    ASSUME NEW m \in Manifests
    PROVE  /\ DOMAIN m \subseteq Paths
           /\ \A p \in DOMAIN m : m[p] \in Versions /\ Parent[p] \notin DOMAIN m
<1>1. PICK S \in SUBSET Paths : m \in [S -> Versions]
  BY DEF Manifests
<1>2. \A p \in DOMAIN m : Parent[p] \notin DOMAIN m
  BY DEF Manifests
<1>. QED BY <1>1, <1>2

\* The manifest before the first sync.
LEMMA EmptyManifest == [p \in {} |-> 0] \in Manifests
<1>1. [p \in {} |-> 0] \in [{} -> Versions] /\ {} \in SUBSET Paths
  OBVIOUS
<1>. QED BY <1>1 DEF Manifests

\* An entry is a file or a directory; what is in a directory lies in it.
LEMMA SourceFacts ==
    ASSUME NEW p \in Paths, NEW v \in Versions
    PROVE  /\ Parent[p] \in Paths \cup {Root} /\ Parent[p] # p
           /\ Source[p][v] \subseteq Paths
           /\ p \notin Source[p][v] => Parent[p] = Root /\ Source[p][v] \subseteq In(p)
           /\ \A q \in Source[p][v] : q # p => p \notin Source[p][v] /\ Parent[q] = p
<1>1. /\ Parent[p] \in Paths \cup {Root} /\ Parent[p] # p
      /\ Source[p][v] \subseteq Paths
  BY PathsAssumption, SourceAssumption
<1>2. Source[p][v] = {p} \/ (Parent[p] = Root /\ Source[p][v] \subseteq In(p))
  BY SourceAssumption
<1>3. p \notin In(p)
  BY <1>1 DEF In
<1>. QED BY <1>1, <1>2, <1>3 DEF In

\* A listed file has a version, and lies in a directory of the manifest or is
\* an entry itself.
LEMMA ListedFacts ==
    ASSUME TypeOK, NEW p \in Paths, Listed(p)
    PROVE  /\ Version(p) \in Versions
           /\ p \in DOMAIN entries \/ IsDir(Parent[p])
           /\ Parent[p] # Root => Parent[p] \in Paths
<1>1. /\ DOMAIN entries \subseteq Paths
      /\ \A q \in DOMAIN entries : entries[q] \in Versions
  BY ManifestFacts DEF TypeOK
<1>2. Parent[p] \in Paths \cup {Root} /\ Parent[p] # p
  BY PathsAssumption
<1>3. CASE p \in DOMAIN entries
  BY <1>1, <1>2, <1>3 DEF Version
<1>4. CASE p \notin DOMAIN entries
  <2>1. /\ Parent[p] \in DOMAIN entries /\ p \in Source[Parent[p]][entries[Parent[p]]]
        /\ Parent[p] \in Paths /\ entries[Parent[p]] \in Versions
    BY <1>1, <1>4 DEF Listed
  <2>2. Parent[p] \notin Source[Parent[p]][entries[Parent[p]]]
    BY <1>2, <2>1, SourceFacts
  <2>. QED BY <1>2, <1>4, <2>1, <2>2 DEF Version, IsDir
<1>. QED BY <1>3, <1>4

-----------------------------------------------------------------------------
\* The first state has its type.
LEMMA InitTypes == Init => TypeInv
<1>. SUFFICES ASSUME Init PROVE TypeInv
  OBVIOUS
<1>1. CountInv
  BY InitCounts
<1>2. TypeOK
  <2>1. /\ entries \in Manifests /\ currentShas \in Manifests
        /\ toRemove \subseteq Paths /\ toCopy \subseteq DOMAIN entries
    BY EmptyManifest DEF Init
  <2>2. /\ task \in [Tasks -> {"none", "queued", "returned", "done"} \cup Running]
        /\ scan \in [Paths -> SUBSET Paths]
        /\ dest \in [Paths -> Versions \cup {Absent, Directory, Torn}]
    BY DEF Init
  <2>3. /\ remaining \in Nat /\ syncs \in 0..MaxSyncs /\ faults \in 0..MaxFaults
    BY BoundsAssumption DEF Init
  <2>. QED BY <2>1, <2>2, <2>3 DEF Init, TypeOK
<1>3. OwnersInv /\ GivenInv
  BY TaskNames DEF Init, OwnersInv, GivenInv
<1>. QED BY <1>1, <1>2, <1>3 DEF TypeInv

\* The counter is a number.
LEMMA RemainingType == CountInv => remaining \in Nat
BY FS_CardinalityType DEF CountInv, RemainingCountsTasks

\* What sync() computes from two manifests are entries of theirs.
LEMMA SyncTypes ==
    ASSUME TypeInv, CountInv', NEW new \in Manifests, Sync(new)
    PROVE  TypeInv'
<1>1. /\ DOMAIN new \subseteq Paths /\ DOMAIN currentShas \subseteq Paths
      /\ \A p \in DOMAIN new : new[p] \in Versions
  BY ManifestFacts DEF TypeInv, TypeOK
<1>2. TypeOK'
  <2>1. given' \subseteq Paths \X Versions
    BY <1>1 DEF Sync, TypeInv, TypeOK
  <2>2. syncs' \in 0..MaxSyncs
    BY BoundsAssumption DEF Sync, TypeInv, TypeOK
  <2>. QED BY <1>1, <2>1, <2>2 DEF Sync, TypeInv, TypeOK, Changed, Removed
<1>3. GivenInv'
  <2>1. /\ entries' = new /\ (currentShas' = new \/ currentShas' = currentShas)
        /\ given \subseteq given' /\ \A p \in DOMAIN new : <<p, new[p]>> \in given'
    BY DEF Sync
  <2>. QED BY <2>1 DEF TypeInv, GivenInv
<1>4. OwnersInv'
  <2>1. \A p \in toRemove' : Given(p)' /\ p \notin DOMAIN entries'
    <3>1. \A p \in DOMAIN currentShas : <<p, currentShas[p]>> \in given'
      BY DEF Sync, TypeInv, GivenInv
    <3>2. entries' = new /\ toRemove' = Removed(new)
      BY DEF Sync
    <3>3. ASSUME NEW p \in Removed(new) PROVE Given(p)' /\ p \notin DOMAIN new
      <4>1. <<p, currentShas[p]>> \in given' /\ p \notin DOMAIN new
        BY <3>1, <3>3 DEF Removed
      <4>2. <<p, currentShas[p]>>[1] = p
        OBVIOUS
      <4>. QED BY <4>1, <4>2 DEF Given
    <3>. QED BY <3>2, <3>3
  <2>2. \A t \in Tasks : task'[t] = "none"
    BY DEF Sync
  <2>. QED BY <2>1, <2>2, TaskNames DEF OwnersInv
<1>. QED BY <1>2, <1>3, <1>4 DEF TypeInv

\* An entry is removed because it is not in the manifest, copied because it is.
LEMMA SubmitTypes ==
    ASSUME TypeInv, CountInv', NEW e \in Paths, SubmitRemove(e) \/ SubmitCopy(e)
    PROVE  TypeInv'
<1>0. remaining' \in Nat
  BY RemainingType DEF CountInv, RemainingCountsTasks, TypeInv, TypeOK, Submit, SubmitRemove,
     SubmitCopy
<1>1. GivenInv'
  BY DEF TypeInv, GivenInv, SubmitRemove, SubmitCopy
<1>2. CASE SubmitRemove(e)
  <2>1. TypeOK'
    BY <1>0, <1>2, TaskNames DEF SubmitRemove, Submit, TypeInv, TypeOK
  <2>2. e \notin DOMAIN entries /\ Given(e)
    BY <1>2 DEF SubmitRemove, TypeInv, OwnersInv
  <2>3. /\ task' = [task EXCEPT ![Remove(e)] = "queued"] /\ toRemove' \subseteq toRemove
        /\ UNCHANGED <<entries, given, scan>>
    BY <1>2 DEF SubmitRemove, Submit
  <2>4. OwnersInv'
    BY <2>2, <2>3, TaskNames, TasksDiffer
    DEF TypeInv, TypeOK, OwnersInv, Given, IsDir, Listed
  <2>. QED BY <1>1, <2>1, <2>4 DEF TypeInv
<1>3. CASE SubmitCopy(e)
  <2>1. TypeOK'
    BY <1>0, <1>3, TaskNames DEF SubmitCopy, Submit, TypeInv, TypeOK
  <2>2. e \in DOMAIN entries /\ (~IsDir(e) => Listed(e))
    BY <1>3 DEF SubmitCopy, TypeInv, TypeOK, Listed
  <2>3. OwnersInv'
    <3>1. UNCHANGED <<entries, given, scan, toRemove>>
      BY <1>3 DEF SubmitCopy
    <3>2. CASE IsDir(e)
      <4>1. task' = [task EXCEPT ![CopyDir(e)] = "queued"]
        BY <1>3, <3>2 DEF SubmitCopy, Submit
      <4>. QED BY <2>2, <3>1, <3>2, <4>1, TaskNames, TasksDiffer
           DEF TypeInv, TypeOK, OwnersInv, Given, IsDir, Listed
    <3>3. CASE ~IsDir(e)
      <4>1. task' = [task EXCEPT ![CopyFile(e)] = "queued"]
        BY <1>3, <3>3 DEF SubmitCopy, Submit
      <4>. QED BY <2>2, <3>1, <3>3, <4>1, TaskNames, TasksDiffer
           DEF TypeInv, TypeOK, OwnersInv, Given, IsDir, Listed
    <3>. QED BY <3>2, <3>3
  <2>. QED BY <1>1, <2>1, <2>3 DEF TypeInv
<1>. QED BY <1>2, <1>3

\* Waiting and closing touch no task.
LEMMA CallerTypes ==
    ASSUME TypeInv, CountInv', StartWaiting \/ WaitForCompletion \/ CloseExecutor
    PROVE  TypeInv'
<1>1. /\ UNCHANGED <<entries, given, poolVars>> /\ toRemove' = toRemove
      /\ currentShas' = currentShas \/ currentShas' = entries
  BY DEF StartWaiting, WaitForCompletion, CloseExecutor
<1>2. TypeOK'
  BY DEF StartWaiting, WaitForCompletion, CloseExecutor, poolVars, TypeInv, TypeOK
<1>3. OwnersInv' /\ GivenInv'
  BY <1>1 DEF poolVars, TypeInv, OwnersInv, GivenInv, Given, IsDir, Listed
<1>. QED BY <1>2, <1>3 DEF TypeInv

\* A step of the pool leaves what its tasks are about.
LEMMA OwnersKept ==
    ASSUME TypeInv, UNCHANGED <<entries, currentShas, given, toRemove>>,
           \A t \in Tasks : task'[t] # "none" => task[t] # "none",
           \A p \in Paths :
              /\ task'[CopyDir(p)] = "scanning" => scan'[p] \subseteq Source[p][entries[p]]
              /\ task'[Remove(p)] = "removing" => scan'[p] \subseteq In(p)
    PROVE  OwnersInv' /\ GivenInv'
<1>1. OwnersInv'
  BY TaskNames DEF TypeInv, OwnersInv, Given, IsDir, Listed
<1>2. GivenInv'
  BY DEF TypeInv, GivenInv
<1>. QED BY <1>1, <1>2

\* A step of a function: the variables of its caller stay, and its task goes on
\* or ends.
LEMMA RunFacts ==
    ASSUME TypeOK, NEW t, Runs(t)
    PROVE  /\ UNCHANGED <<entries, currentShas, given, toRemove, toCopy>>
           /\ \E state \in Running \cup {"returned"} : task' = [task EXCEPT ![t] = state]
           /\ t \in Tasks /\ task[t] \in Running /\ task[t] # "none"
           /\ task'[t] \in Running \cup {"returned"}
           /\ \A u \in Tasks : u # t => task'[u] = task[u]
<1>1. /\ UNCHANGED <<entries, currentShas, given, toRemove, toCopy>>
      /\ \E state \in Running \cup {"returned"} : task' = [task EXCEPT ![t] = state]
  BY DEF Runs, Succeed, Fault, Raise, TaskFinished, Goto, callerVars
<1>2. t \in Tasks /\ task[t] \in Running /\ task[t] # "none"
  BY DEF Runs, Running
<1>. QED BY <1>1, <1>2 DEF TypeOK

LEMMA RunTypeOK ==
    ASSUME TypeInv, CountInv', NEW t, Runs(t),
           scan' \in [Paths -> SUBSET Paths],
           dest' \in [Paths -> Versions \cup {Absent, Directory, Torn}]
    PROVE  TypeOK'
<1>1. remaining' \in Nat
  <2>1. remaining' = Cardinality(Active') /\ IsFiniteSet(Active')
    BY DEF CountInv, RemainingCountsTasks
  <2>. QED BY <2>1, FS_CardinalityType
<1>2. /\ failed' \subseteq Tasks /\ faults' \in 0..MaxFaults /\ tainted' \in BOOLEAN
      /\ errors' = errors /\ syncs' = syncs /\ outcome' = outcome
      /\ phase' \in {"idle", "submitting", "waiting", "sleeping", "closing"}
  <2>1. CASE Succeed(t)
    BY <2>1 DEF Succeed, TaskFinished, TypeInv, TypeOK
  <2>2. CASE Fault(t)
    BY <2>2, BoundsAssumption DEF Runs, Fault, Raise, TaskFinished, TypeInv, TypeOK
  <2>3. CASE Raise(t) /\ UNCHANGED faults
    BY <2>3 DEF Runs, Raise, TaskFinished, TypeInv, TypeOK
  <2>4. ASSUME NEW state \in Running, Goto(t, state)
        PROVE  /\ UNCHANGED <<failed, faults, tainted, errors, syncs, outcome, phase>>
    BY <2>4 DEF Goto, callerVars
  <2>. QED BY <2>1, <2>2, <2>3, <2>4 DEF Runs, TypeInv, TypeOK
<1>3. task' \in [Tasks -> {"none", "queued", "returned", "done"} \cup Running]
  BY DEF CountInv, TaskType
<1>. QED BY <1>1, <1>2, <1>3, RunFacts DEF TypeInv, TypeOK

\* A pool thread takes a task, or runs its callback.
LEMMA ThreadTypes ==
    ASSUME TypeInv, CountInv', NEW t \in Tasks, StartTask(t) \/ HandleTaskDone(t)
    PROVE  TypeInv'
<1>1. TypeOK'
  BY DEF StartTask, HandleTaskDone, callerVars, TypeInv, TypeOK, Running
<1>2. /\ UNCHANGED <<entries, currentShas, given, toRemove, scan>>
      /\ \E state \in {"running", "done"} : task' = [task EXCEPT ![t] = state]
      /\ task[t] # "none"
  BY DEF StartTask, HandleTaskDone, callerVars
<1>3. \A u \in Tasks : /\ task'[u] # "none" => task[u] # "none"
                       /\ task'[u] \in {"scanning", "removing"} => task'[u] = task[u]
  BY <1>2 DEF TypeInv, TypeOK
<1>4. OwnersInv' /\ GivenInv'
  BY <1>2, <1>3, OwnersKept, TaskNames DEF TypeInv, OwnersInv
<1>. QED BY <1>1, <1>4 DEF TypeInv

\* The functions: what they list is in the directory they are about.
LEMMA RunTypes ==
    ASSUME TypeInv, CountInv', NEW p \in Paths,
           \/ RemovePath(p) \/ UnlinkPath(p) \/ RemoveDir(p)
           \/ FileCopy(p) \/ ScanDir(p) \/ CopyDirEnds(p)
    PROVE  TypeInv'
<1>1. PICK t \in {Remove(p), CopyFile(p), CopyDir(p)} :
        /\ Runs(t)
        /\ t = Remove(p) => RemovePath(p) \/ UnlinkPath(p) \/ RemoveDir(p)
        /\ t = CopyFile(p) => FileCopy(p)
        /\ t = CopyDir(p) => ScanDir(p) \/ CopyDirEnds(p)
  BY RunsWhere, TasksDiffer
<1>2. /\ UNCHANGED <<entries, currentShas, given, toRemove, toCopy>>
      /\ task[t] # "none" /\ t \in Tasks
      /\ \A u \in Tasks : u # t => task'[u] = task[u]
  BY <1>1, RunFacts DEF TypeInv
<1>3. \A u \in Tasks : task'[u] # "none" => task[u] # "none"
  BY <1>2
<1>4. CASE t = Remove(p)
  <2>1. scan' \in [Paths -> SUBSET Paths] /\ \A q \in Paths : q # p => scan'[q] = scan[q]
    <3>1. CASE RemovePath(p)
      <4>1. {c \in In(p) : dest[c] # Absent} \subseteq Paths
        BY DEF In
      <4>. QED BY <3>1, <4>1 DEF RemovePath, TypeInv, TypeOK
    <3>. QED BY <1>1, <1>4, <3>1 DEF UnlinkPath, RemoveDir, TypeInv, TypeOK
  <2>2. dest' \in [Paths -> Versions \cup {Absent, Directory, Torn}]
    BY <1>1, <1>4 DEF RemovePath, UnlinkPath, RemoveDir, Put, TypeInv, TypeOK
  <2>3. task'[Remove(p)] = "removing" => scan'[p] \subseteq In(p)
    <3>1. CASE RemovePath(p)
      BY <3>1, TaskNames DEF RemovePath, Goto, TypeInv, TypeOK
    <3>2. CASE UnlinkPath(p)
      BY <3>2, TaskNames DEF UnlinkPath, Succeed, Raise, Fault, TaskFinished, TypeInv, TypeOK
    <3>3. CASE RemoveDir(p)
      BY <3>3 DEF RemoveDir, TypeInv, OwnersInv
    <3>. QED BY <1>1, <1>4, <3>1, <3>2, <3>3
  <2>4. \A q \in Paths :
          /\ task'[CopyDir(q)] = "scanning" => scan'[q] \subseteq Source[q][entries[q]]
          /\ task'[Remove(q)] = "removing" => scan'[q] \subseteq In(q)
    <3>. TAKE q \in Paths
    <3>1. task'[CopyDir(q)] = task[CopyDir(q)] /\ (q # p => task'[Remove(q)] = task[Remove(q)])
      BY <1>2, <1>4, TaskNames, TasksDiffer
    <3>2. q = p => task[CopyDir(q)] = "none"
      BY <1>2, <1>4 DEF TypeInv, OwnersInv, IsDir
    <3>. QED BY <2>1, <2>3, <3>1, <3>2 DEF TypeInv, OwnersInv
  <2>. QED BY <1>1, <1>2, <1>3, <2>1, <2>2, <2>4, RunTypeOK, OwnersKept DEF TypeInv
<1>5. CASE t = CopyFile(p)
  <2>1. scan' = scan
    BY <1>1, <1>5 DEF FileCopy, MakeParent, CopyContent, ChangeMode
  <2>2. dest' \in [Paths -> Versions \cup {Absent, Directory, Torn}]
    <3>1. Version(p) \in Versions
      BY <1>2, <1>5, ListedFacts DEF TypeInv, OwnersInv
    <3>. QED BY <1>1, <1>5, <3>1
         DEF FileCopy, MakeParent, MakeDir, CopyContent, ChangeMode, Put, TypeInv, TypeOK
  <2>3. \A q \in Paths : /\ task'[CopyDir(q)] = task[CopyDir(q)]
                         /\ task'[Remove(q)] = task[Remove(q)]
    BY <1>2, <1>5, TaskNames, TasksDiffer
  <2>4. OwnersInv' /\ GivenInv'
    BY <1>2, <1>3, <2>1, <2>3, OwnersKept DEF TypeInv, OwnersInv
  <2>5. TypeOK'
    BY <1>1, <2>1, <2>2, RunTypeOK DEF TypeInv, TypeOK
  <2>. QED BY <2>4, <2>5 DEF TypeInv
<1>6. CASE t = CopyDir(p)
  <2>1. p \in DOMAIN entries /\ entries[p] \in Versions
    BY <1>2, <1>6, ManifestFacts DEF TypeInv, TypeOK, OwnersInv, IsDir
  <2>2. Source[p][entries[p]] \subseteq Paths
    BY <2>1, SourceFacts
  <2>3. /\ scan' \in [Paths -> SUBSET Paths] /\ \A q \in Paths : q # p => scan'[q] = scan[q]
        /\ scan'[p] \subseteq Source[p][entries[p]]
    <3>1. CASE ScanDir(p)
      <4>1. scan' = [scan EXCEPT ![p] = Source[p][entries[p]]]
        BY <3>1 DEF ScanDir
      <4>. QED BY <2>2, <4>1 DEF TypeInv, TypeOK
    <3>2. CASE CopyDirEnds(p)
      BY <3>2 DEF CopyDirEnds, TypeInv, TypeOK, OwnersInv
    <3>. QED BY <1>1, <1>6, <3>1, <3>2
  <2>4. dest' \in [Paths -> Versions \cup {Absent, Directory, Torn}]
    BY <1>1, <1>6 DEF ScanDir, MakeDir, CopyDirEnds, Put, TypeInv, TypeOK
  <2>5. \A q \in Paths :
          /\ task'[CopyDir(q)] = "scanning" => scan'[q] \subseteq Source[q][entries[q]]
          /\ task'[Remove(q)] = "removing" => scan'[q] \subseteq In(q)
    <3>. TAKE q \in Paths
    <3>1. task'[Remove(q)] = task[Remove(q)] /\ (q # p => task'[CopyDir(q)] = task[CopyDir(q)])
      BY <1>2, <1>6, TaskNames, TasksDiffer
    <3>2. q = p => task[Remove(q)] = "none"
      BY <2>1 DEF TypeInv, OwnersInv
    <3>. QED BY <2>3, <3>1, <3>2 DEF TypeInv, OwnersInv
  <2>. QED BY <1>1, <1>2, <1>3, <2>3, <2>4, <2>5, RunTypeOK, OwnersKept DEF TypeInv
<1>. QED BY <1>4, <1>5, <1>6

\* rmtree removes what it listed.
LEMMA RemoveListedTypes ==
    ASSUME TypeInv, CountInv', NEW p \in Paths, NEW c \in Paths, RemoveListed(p, c)
    PROVE  TypeInv'
<1>1. TypeOK'
  BY DEF RemoveListed, Put, callerVars, TypeInv, TypeOK
<1>2. \A q \in Paths : scan'[q] \subseteq scan[q]
  BY DEF RemoveListed, TypeInv, TypeOK
<1>3. UNCHANGED <<entries, currentShas, given, toRemove, task>>
  BY DEF RemoveListed, callerVars
<1>4. \A q \in Paths :
        /\ task'[CopyDir(q)] = "scanning" => scan'[q] \subseteq Source[q][entries[q]]
        /\ task'[Remove(q)] = "removing" => scan'[q] \subseteq In(q)
  BY <1>2, <1>3 DEF TypeInv, OwnersInv
<1>. QED BY <1>1, <1>3, <1>4, OwnersKept DEF TypeInv

\* A file of a directory in the manifest is copied.
LEMMA SubmitChildTypes ==
    ASSUME TypeInv, CountInv', NEW d \in Paths, NEW f \in Paths, SubmitChild(d, f)
    PROVE  TypeInv'
<1>1. Listed(f)
  <2>1. d \in DOMAIN entries /\ d \notin Source[d][entries[d]] /\ f \in Source[d][entries[d]]
    BY DEF SubmitChild, TypeInv, OwnersInv, IsDir
  <2>2. entries[d] \in Versions
    BY <2>1, ManifestFacts DEF TypeInv, TypeOK
  <2>3. Parent[f] = d
    BY <2>1, <2>2, SourceFacts DEF In
  <2>4. f \notin DOMAIN entries
    BY <2>1, <2>3, ManifestFacts DEF TypeInv, TypeOK
  <2>. QED BY <2>1, <2>3, <2>4 DEF Listed
<1>2. remaining' \in Nat
  BY RemainingType DEF TypeInv, SubmitChild, Submit
<1>3. TypeOK'
  BY <1>2, TaskNames DEF SubmitChild, Submit, callerVars, TypeInv, TypeOK
<1>4. /\ UNCHANGED <<entries, currentShas, given, toRemove>>
      /\ task' = [task EXCEPT ![CopyFile(f)] = "queued"]
      /\ \A q \in Paths : scan'[q] \subseteq scan[q]
  BY DEF SubmitChild, Submit, callerVars, TypeInv, TypeOK
<1>5. OwnersInv' /\ GivenInv'
  BY <1>1, <1>4, TaskNames, TasksDiffer
  DEF TypeInv, TypeOK, OwnersInv, GivenInv, Given, IsDir, Listed
<1>. QED BY <1>3, <1>5 DEF TypeInv

\* Every step keeps the types.
LEMMA StepTypes == TypeInv /\ [Next]_vars => TypeInv'
<1>. SUFFICES ASSUME TypeInv, [Next]_vars PROVE TypeInv'
  OBVIOUS
<1>1. CountInv'
  BY StepCounts DEF TypeInv
<1>2. CASE UNCHANGED vars
  BY <1>1, <1>2 DEF vars, callerVars, poolVars, TypeInv, TypeOK, OwnersInv, GivenInv, Given,
     IsDir, Listed
<1>3. CASE Next
  BY <1>1, <1>3, SyncTypes, SubmitTypes, CallerTypes, ThreadTypes, RunTypes, RemoveListedTypes,
     SubmitChildTypes DEF Next, Caller, Pool, Removal, DirCopy
<1>. QED BY <1>2, <1>3

\* Type correctness for any paths, threads and failures: a task never looks up
\* an entry that the manifest does not have.
THEOREM TypeCorrect == Spec => []TypeOK
<1>1. TypeInv => TypeOK
  BY DEF TypeInv
<1>. QED BY <1>1, InitTypes, StepTypes, PTL DEF Spec

-----------------------------------------------------------------------------
(* The destination is a tree at every moment, whatever fails.                 *)

\* What is there is in a directory, and a directory is one that a manifest gave.
TreeInv ==
    \A p \in Paths :
        /\ dest[p] # Absent /\ Parent[p] # Root => dest[Parent[p]] = Directory
        /\ dest[p] = Directory => WasDirectory(p)

\* One path of the destination has become absent, a directory, or a file.
Becomes(q, what) ==
    /\ dest' = [dest EXCEPT ![q] = what]
    /\ \/ what = Absent /\ \A c \in In(q) : dest[c] = Absent
       \/ what = Directory /\ Parent[q] = Root /\ WasDirectory(q)
       \/ /\ what \notin {Absent, Directory} /\ dest[q] # Directory
          /\ Parent[q] # Root => dest[Parent[q]] = Directory

\* The sentinels are no versions.
LEMMA Contents ==
    /\ Absent # Directory /\ Torn \notin {Absent, Directory}
    /\ \A v \in Versions : v \notin {Absent, Directory}
BY ContentsAssumption DEF Absent, Directory, Torn

\* A directory that is made is one of a manifest.
LEMMA MadeDirectory ==
    ASSUME TypeInv, NEW d \in Paths, IsDir(d) \/ \E p \in Paths : Listed(p) /\ Parent[p] = d
    PROVE  Parent[d] = Root /\ WasDirectory(d)
<1>1. CASE IsDir(d)
  <2>1. /\ d \in DOMAIN entries /\ entries[d] \in Versions
        /\ <<d, entries[d]>> \in given /\ d \notin Source[d][entries[d]]
    BY <1>1, ManifestFacts DEF TypeInv, TypeOK, GivenInv, IsDir
  <2>2. <<d, entries[d]>>[1] = d /\ <<d, entries[d]>>[2] = entries[d]
    OBVIOUS
  <2>. QED BY <2>1, <2>2, SourceFacts DEF WasDirectory
<1>2. ASSUME NEW p \in Paths, Listed(p), Parent[p] = d, ~IsDir(d)
      PROVE  Parent[d] = Root /\ WasDirectory(d)
  <2>1. p \in DOMAIN entries
    BY <1>2, ListedFacts DEF TypeInv
  <2>2. <<p, entries[p]>> \in given /\ <<p, entries[p]>>[1] = p
    BY <2>1 DEF TypeInv, GivenInv
  <2>3. d # Root
    BY PathsAssumption
  <2>. QED BY <1>2, <2>2, <2>3, PathsAssumption DEF WasDirectory
<1>. QED BY <1>1, <1>2

LEMMA MakeDirBecomes ==
    ASSUME TypeInv, NEW t, NEW d \in Paths \cup {Root}, NEW state, MakeDir(t, d, state),
           d # Root => Parent[d] = Root /\ WasDirectory(d)
    PROVE  dest' = dest \/ (d # Root /\ Becomes(d, Directory))
BY DEF MakeDir, Put, Becomes

\* The steps that change the destination.
LEMMA DestSteps ==
    ASSUME TypeInv, TreeInv, NEW p \in Paths,
           Removal(p) \/ FileCopy(p) \/ DirCopy(p)
    PROVE  dest' = dest \/ \E q \in Paths : \E what : Becomes(q, what)
<1>1. CASE RemovePath(p) \/ ChangeMode(p) \/ CopyDirEnds(p) \/ \E c \in Paths : SubmitChild(p, c)
  BY <1>1 DEF RemovePath, ChangeMode, CopyDirEnds, SubmitChild
<1>2. CASE UnlinkPath(p)
  <2>1. dest' = dest \/ (dest[p] # Directory /\ dest' = [dest EXCEPT ![p] = Absent])
    BY <1>2 DEF UnlinkPath, Put
  <2>2. dest[p] # Directory => \A c \in In(p) : dest[c] = Absent
    BY PathsAssumption DEF TreeInv, In
  <2>. QED BY <2>1, <2>2 DEF Becomes
<1>3. CASE RemoveDir(p)
  BY <1>3 DEF RemoveDir, Put, Becomes
<1>4. ASSUME NEW c \in Paths, RemoveListed(p, c) PROVE Becomes(c, Absent)
  <2>1. Parent[c] = p /\ p # Root /\ dest' = [dest EXCEPT ![c] = Absent]
    BY <1>4, PathsAssumption DEF RemoveListed, Put, TypeInv, OwnersInv, In
  <2>2. In(c) = {}
    BY <2>1, PathsAssumption DEF In
  <2>. QED BY <2>1, <2>2 DEF Becomes
<1>5. CASE MakeParent(p)
  <2>1. Listed(p) /\ Parent[p] \in Paths \cup {Root}
    BY <1>5, PathsAssumption DEF MakeParent, TypeInv, OwnersInv
  <2>2. Parent[p] # Root => Parent[Parent[p]] = Root /\ WasDirectory(Parent[p])
    BY <2>1, MadeDirectory
  <2>3. MakeDir(CopyFile(p), Parent[p], "made")
    BY <1>5 DEF MakeParent
  <2>. QED BY <2>1, <2>2, <2>3, MakeDirBecomes
<1>6. CASE ScanDir(p)
  <2>1. IsDir(p)
    BY <1>6 DEF ScanDir, TypeInv, OwnersInv
  <2>2. Parent[p] = Root /\ WasDirectory(p)
    BY <2>1, MadeDirectory
  <2>3. MakeDir(CopyDir(p), p, "scanning")
    BY <1>6 DEF ScanDir
  <2>. QED BY <2>2, <2>3, MakeDirBecomes
<1>7. CASE CopyContent(p)
  <2>1. Listed(p) /\ Version(p) \in Versions
    BY <1>7, ListedFacts DEF CopyContent, TypeInv, OwnersInv
  <2>2. \/ dest' = dest
        \/ dest[p] = Directory /\ dest' = [dest EXCEPT ![p] = Directory]
        \/ /\ dest[p] # Directory /\ (Parent[p] # Root => dest[Parent[p]] = Directory)
           /\ \E what \in {Torn, Version(p)} : dest' = [dest EXCEPT ![p] = what]
    BY <1>7 DEF CopyContent, Put
  <2>3. dest[p] = Directory /\ dest' = [dest EXCEPT ![p] = Directory] => dest' = dest
    BY DEF TypeInv, TypeOK
  <2>. QED BY <2>1, <2>2, <2>3, Contents DEF Becomes
<1>. QED BY <1>1, <1>2, <1>3, <1>4, <1>5, <1>6, <1>7 DEF Removal, FileCopy, DirCopy

\* Every step keeps the tree.
LEMMA StepTree == TypeInv /\ TreeInv /\ [Next]_vars => TreeInv'
<1>. SUFFICES ASSUME TypeInv, TreeInv, [Next]_vars PROVE TreeInv'
  OBVIOUS
<1>1. ASSUME dest' = dest, given \subseteq given' PROVE TreeInv'
  BY <1>1 DEF TreeInv, WasDirectory
<1>2. ASSUME NEW q \in Paths, NEW what, Becomes(q, what), given' = given PROVE TreeInv'
  <2>1. /\ dest'[q] = what /\ \A p \in Paths : p # q => dest'[p] = dest[p]
        /\ \A p \in Paths : WasDirectory(p)' <=> WasDirectory(p)
    BY <1>2 DEF Becomes, WasDirectory, TypeInv, TypeOK
  <2>2. ASSUME NEW p \in Paths, dest'[p] # Absent, Parent[p] # Root
        PROVE  dest'[Parent[p]] = Directory
    <3>1. Parent[p] \in Paths /\ Parent[p] # p
      BY <2>2, PathsAssumption
    <3>2. CASE p = q
      BY <1>2, <2>1, <2>2, <3>1, <3>2 DEF Becomes
    <3>3. CASE p # q /\ Parent[p] # q
      BY <2>1, <2>2, <3>1, <3>3 DEF TreeInv
    <3>4. CASE p # q /\ Parent[p] = q
      <4>1. dest[p] # Absent /\ dest[q] = Directory /\ p \in In(q)
        BY <2>1, <2>2, <3>4 DEF TreeInv, In
      <4>. QED BY <1>2, <2>1, <3>4, <4>1 DEF Becomes
    <3>. QED BY <3>2, <3>3, <3>4
  <2>3. ASSUME NEW p \in Paths, dest'[p] = Directory PROVE WasDirectory(p)'
    BY <1>2, <2>1, <2>3, Contents DEF Becomes, TreeInv
  <2>. QED BY <2>2, <2>3 DEF TreeInv
<1>3. CASE UNCHANGED vars
  BY <1>1, <1>3 DEF vars, callerVars, poolVars
<1>4. ASSUME NEW p \in Paths, Removal(p) \/ FileCopy(p) \/ DirCopy(p) PROVE TreeInv'
  <2>1. given' = given
    <3>1. CASE \E t : Runs(t)
      BY <3>1, RunFacts DEF TypeInv
    <3>2. CASE \E c \in Paths : RemoveListed(p, c) \/ SubmitChild(p, c)
      BY <3>2 DEF RemoveListed, SubmitChild, callerVars
    <3>. QED BY <1>4, <3>1, <3>2, RunsWhere DEF Removal, DirCopy
  <2>. QED BY <1>1, <1>2, <1>4, <2>1, DestSteps
<1>5. ASSUME NEW t \in Tasks, StartTask(t) \/ HandleTaskDone(t) PROVE TreeInv'
  BY <1>1, <1>5 DEF StartTask, HandleTaskDone, callerVars
<1>6. CASE Caller \/ \E new \in Manifests : Sync(new)
  BY <1>1, <1>6 DEF Caller, SubmitRemove, SubmitCopy, StartWaiting, WaitForCompletion,
     CloseExecutor, Sync, poolVars
<1>. QED BY <1>3, <1>4, <1>5, <1>6 DEF Next, Pool

-----------------------------------------------------------------------------
(* The mirror: what each path of the destination is like at every moment of a *)
(* sync without a failure, and what is still to come for it.  A path that is  *)
(* plain is always a file, and always an entry or always in one, its owner.   *)

Plain(p) == ~WasDirectory(p) /\ ~GivenTwice(p)
Owner(p) == IF Given(p) THEN p ELSE Parent[p]

\* As the manifest wants it; a file that an earlier version of a directory had
\* may be left.
Good(p) == dest[p] = Expected(p) \/ (Expected(p) = Absent /\ StaleChild(p))

\* Entries that this sync does not touch.
Untouched(e) ==
    \/ e \notin DOMAIN currentShas /\ e \notin DOMAIN entries
    \/ e \in DOMAIN currentShas /\ e \in DOMAIN entries /\ currentShas[e] = entries[e]

Ended(t) == task[t] \in {"returned", "done"}

\* An entry e that is removed: its task is to come, under way or has done it.
RemovalInv(p, e) ==
    e \in DOMAIN currentShas \ DOMAIN entries =>
        /\ e \in toRemove \/ task[Remove(e)] # "none"
        /\ Ended(Remove(e)) => dest[p] = Absent

\* A file of a new entry e is copied, or the directory's task is to come, is
\* scanning and has not reached it, or has submitted it.
CopyInv(p, e) ==
    e \in DOMAIN entries /\ ~Untouched(e) /\ Expected(p) # Absent =>
        /\ \/ e \in toCopy \/ task[CopyFile(p)] # "none"
           \/ /\ e # p
              /\ \/ task[CopyDir(e)] \in {"queued", "running"}
                 \/ task[CopyDir(e)] = "scanning" /\ p \in scan[e]
        /\ task[CopyFile(p)] = "copied" \/ Ended(CopyFile(p)) => dest[p] = Expected(p)

PathInv(p) ==
    /\ Untouched(Owner(p)) => Good(p)
    /\ RemovalInv(p, Owner(p)) /\ CopyInv(p, Owner(p))

SyncInv ==
    /\ failed = {} /\ errors = {} /\ outcome # "error"
    /\ phase = "idle" => entries = currentShas
    /\ phase = "closing" => outcome = "ok"
    /\ phase # "submitting" => toRemove = {} /\ toCopy = {}

MirrorInv == ~tainted => SyncInv /\ \A p \in Paths : Plain(p) => PathInv(p)

MInv == TypeInv /\ TreeInv /\ MirrorInv

\* An entry of one of the two manifests has been given.
LEMMA EntriesGiven ==
    ASSUME TypeInv, NEW p \in DOMAIN entries \cup DOMAIN currentShas
    PROVE  Given(p)
<1>1. PICK v : <<p, v>> \in given
  BY DEF TypeInv, GivenInv
<1>2. <<p, v>>[1] = p
  OBVIOUS
<1>. QED BY <1>1, <1>2 DEF Given

\* What the owner of a plain path says about it.
LEMMA PlainFacts ==
    ASSUME TypeInv, NEW p \in Paths, Plain(p)
    PROVE  /\ Owner(p) \in {p, Parent[p]} /\ p # Parent[p]
           /\ Owner(p) \in Paths \cup {Root}
           /\ \A q \in {p, Parent[p]} : Given(q) => Owner(p) = q
           /\ Owner(p) # p => p \notin DOMAIN entries \cup DOMAIN currentShas
           /\ Owner(p) = p => Parent[p] \notin DOMAIN entries \cup DOMAIN currentShas
           /\ ~IsDir(p)
<1>1. /\ Parent[p] \in Paths \cup {Root} /\ Parent[p] # p
  BY PathsAssumption
<1>2. \A q \in {p, Parent[p]} : Given(q) => Owner(p) = q
  BY DEF Plain, GivenTwice, Owner
<1>3. \A q \in DOMAIN entries \cup DOMAIN currentShas : Given(q)
  BY EntriesGiven
<1>4. ~IsDir(p)
  BY MadeDirectory DEF Plain
<1>. QED BY <1>1, <1>2, <1>3, <1>4 DEF Owner

\* A plain path is expected exactly if it is listed, and then its owner is in
\* the manifest and gives its version.
LEMMA ExpectedFacts ==
    ASSUME TypeInv, NEW p \in Paths, Plain(p)
    PROVE  /\ Expected(p) # Absent <=> Listed(p)
           /\ Listed(p) => /\ Owner(p) \in DOMAIN entries
                           /\ Expected(p) = Version(p)
           /\ Owner(p) \notin DOMAIN entries => Expected(p) = Absent
           /\ Expected(p) = Absent /\ Owner(p) \in DOMAIN entries => StaleChild(p)
<1>1. /\ p \in DOMAIN entries \/ Parent[p] \in DOMAIN entries => Owner(p) \in DOMAIN entries
      /\ Owner(p) \in {p, Parent[p]}
  BY EntriesGiven, PlainFacts
<1>2. /\ Listed(p) => Expected(p) = Version(p)
      /\ ~Listed(p) => Expected(p) = Absent
  BY PlainFacts DEF Listed, Expected, Version
<1>3. Listed(p) => Version(p) # Absent
  BY ListedFacts, Contents DEF TypeInv
<1>4. Listed(p) => p \in DOMAIN entries \/ Parent[p] \in DOMAIN entries
  BY DEF Listed
<1>5. Expected(p) = Absent => p \notin DOMAIN entries
  BY <1>2, <1>3, PlainFacts DEF Listed
<1>. QED BY <1>1, <1>2, <1>3, <1>4, <1>5 DEF StaleChild

\* Only its owner's tasks touch a plain path.
LEMMA OwnersTasks ==
    ASSUME TypeInv, NEW p \in Paths, Plain(p)
    PROVE  /\ \A q \in Paths : task[Remove(q)] # "none" /\ q \in {p, Parent[p]} =>
                Owner(p) = q /\ q \notin DOMAIN entries
           /\ task[CopyFile(p)] # "none" => Listed(p) /\ Owner(p) \in DOMAIN entries
BY PlainFacts, ExpectedFacts DEF TypeInv, OwnersInv

-----------------------------------------------------------------------------
\* An empty destination mirrors the empty manifest.
LEMMA InitMirror == Init => MInv
<1>. SUFFICES ASSUME Init PROVE MInv
  OBVIOUS
<1>1. TypeInv
  BY InitTypes
<1>2. TreeInv
  BY Contents DEF Init, TreeInv
<1>3. ASSUME NEW p \in Paths, Plain(p) PROVE PathInv(p)
  <2>1. entries = currentShas /\ DOMAIN entries = {}
    BY DEF Init
  <2>2. Expected(p) = Absent
    BY <1>1, <1>3, <2>1, ExpectedFacts, PlainFacts
  <2>. QED BY <2>1, <2>2 DEF Init, PathInv, RemovalInv, CopyInv, Good
<1>. QED BY <1>1, <1>2, <1>3 DEF Init, MInv, MirrorInv, SyncInv

\* A new manifest: what is mirrored already needs nothing, the rest is to be
\* removed or copied.
LEMMA SyncMirror ==
    ASSUME MInv, TypeInv', NEW new \in Manifests, Sync(new)
    PROVE  MirrorInv'
<1>. SUFFICES ASSUME ~tainted' PROVE SyncInv' /\ \A p \in Paths : Plain(p)' => PathInv(p)'
  BY DEF MirrorInv
<1>1. SyncInv /\ \A p \in Paths : Plain(p) => PathInv(p)
  BY DEF Sync, MInv, MirrorInv
<1>2. /\ entries = currentShas /\ entries' = new /\ dest' = dest
      /\ toRemove' = Removed(new) /\ toCopy' = Changed(new)
      /\ \A t \in Tasks : task'[t] = "none"
      /\ currentShas' = currentShas \/ currentShas' = new
      /\ given \subseteq given'
  BY <1>1 DEF Sync, SyncInv
<1>3. SyncInv'
  BY <1>1 DEF Sync, SyncInv
<1>4. ASSUME NEW p \in Paths, Plain(p)' PROVE PathInv(p)'
  <2>0. PICK o : o = Owner(p)'
    OBVIOUS
  <2>1. Plain(p) /\ PathInv(p)
    BY <1>1, <1>2, <1>4 DEF Plain, WasDirectory, GivenTwice, Given
  <2>2. o \in {p, Parent[p]} /\ o \in Paths \cup {Root} /\ Root \notin Paths
    BY <2>0, PathsAssumption DEF Owner
  <2>3. \A m \in {new, currentShas} :
          /\ o # p => p \notin DOMAIN m
          /\ o = p => Parent[p] \notin DOMAIN m
    <3>1. \A q \in DOMAIN new \cup DOMAIN currentShas : Given(q)'
      <4>1. ASSUME NEW q \in DOMAIN new PROVE Given(q)'
        <5>1. <<q, new[q]>> \in given' /\ <<q, new[q]>>[1] = q
          BY DEF Sync
        <5>. QED BY <5>1 DEF Given
      <4>2. \A q \in DOMAIN currentShas : Given(q)'
        BY <1>2, EntriesGiven DEF MInv, Given
      <4>. QED BY <4>1, <4>2
    <3>. QED BY <1>4, <2>0, <2>2, <3>1 DEF Plain, GivenTwice, Owner
  <2>4. Good(p)
    BY <1>2, <2>1 DEF PathInv, Untouched
  <2>5. ASSUME \/ o \notin DOMAIN currentShas /\ o \notin DOMAIN new
               \/ o \in DOMAIN currentShas /\ o \in DOMAIN new /\ currentShas[o] = new[o]
        PROVE  Good(p)'
    <3>1. CASE o = p
      <4>1. /\ Parent[p] \notin DOMAIN entries /\ Parent[p] \notin DOMAIN new
            /\ p \in DOMAIN entries <=> p \in DOMAIN new
            /\ p \in DOMAIN entries => entries[p] = new[p]
        BY <1>2, <2>3, <2>5, <3>1
      <4>. QED BY <1>2, <2>4, <4>1 DEF Good, Expected, StaleChild
    <3>2. CASE o # p
      <4>1. /\ p \notin DOMAIN entries /\ p \notin DOMAIN new
            /\ Parent[p] \in DOMAIN entries <=> Parent[p] \in DOMAIN new
            /\ Parent[p] \in DOMAIN entries => entries[Parent[p]] = new[Parent[p]]
        BY <1>2, <2>2, <2>3, <2>5, <3>2
      <4>2. Expected(p)' = Expected(p) /\ (StaleChild(p)' <=> StaleChild(p))
        <5>1. StaleChild(p)' <=> StaleChild(p)
          BY <1>2, <4>1 DEF StaleChild
        <5>2. CASE Parent[p] \notin DOMAIN entries
          BY <1>2, <4>1, <5>1, <5>2 DEF Expected
        <5>3. CASE Parent[p] \in DOMAIN entries
          <6>1. /\ entries'[Parent[p]] = entries[Parent[p]]
                /\ Parent[p] \in DOMAIN entries' /\ p \notin DOMAIN entries'
            BY <1>2, <4>1, <5>3
          <6>. QED BY <4>1, <5>1, <5>3, <6>1 DEF Expected
        <5>. QED BY <5>2, <5>3
      <4>. QED BY <1>2, <2>4, <4>2 DEF Good
    <3>. QED BY <3>1, <3>2
  <2>6. Untouched(o)' => Good(p)'
    <3>1. CASE currentShas' = currentShas
      BY <1>2, <2>5, <3>1 DEF Untouched
    <3>2. CASE Removed(new) \cup Changed(new) = {}
      BY <2>5, <3>2 DEF Removed, Changed
    <3>. QED BY <3>1, <3>2 DEF Sync
  <2>7. RemovalInv(p, o)'
    <3>1. ASSUME o \in DOMAIN currentShas' \ DOMAIN new
          PROVE  o \in Removed(new) /\ o \in Paths /\ task'[Remove(o)] = "none"
      BY <1>2, <2>2, <3>1, TaskNames, ManifestFacts DEF Removed, MInv, TypeInv, TypeOK
    <3>. QED BY <1>2, <3>1 DEF RemovalInv, Ended
  <2>8. CopyInv(p, o)'
    <3>1. ASSUME o \in DOMAIN new, ~Untouched(o)' PROVE o \in Changed(new)
      BY <1>2, <3>1 DEF Untouched, Changed
    <3>2. task'[CopyFile(p)] = "none"
      BY <1>2, TaskNames
    <3>. QED BY <1>2, <3>1, <3>2 DEF CopyInv, Ended
  <2>. QED BY <2>0, <2>6, <2>7, <2>8 DEF PathInv
<1>. QED BY <1>3, <1>4

\* When the pool is closed everything has ended, so that what was to come has
\* been done: the directory mirrors the new manifest.
LEMMA CloseMirror ==
    ASSUME MInv, CloseExecutor
    PROVE  MirrorInv'
<1>. SUFFICES ASSUME ~tainted' PROVE SyncInv' /\ \A p \in Paths : Plain(p)' => PathInv(p)'
  BY DEF MirrorInv
<1>1. SyncInv /\ \A p \in Paths : Plain(p) => PathInv(p)
  BY DEF CloseExecutor, poolVars, MInv, MirrorInv
<1>2. /\ toRemove = {} /\ toCopy = {} /\ currentShas' = entries /\ entries' = entries
      /\ \A t \in Tasks : task[t] \in {"none", "done"}
      /\ dest' = dest /\ given' = given
  BY <1>1 DEF CloseExecutor, poolVars, SyncInv
<1>3. SyncInv'
  BY <1>1, <1>2 DEF CloseExecutor, poolVars, SyncInv
<1>4. ASSUME NEW p \in Paths, Plain(p)' PROVE PathInv(p)'
  <2>. DEFINE o == Owner(p)
  <2>1. Plain(p) /\ PathInv(p) /\ Owner(p)' = o
    BY <1>1, <1>2, <1>4 DEF Plain, WasDirectory, GivenTwice, Given, Owner
  <2>2. Good(p)
    <3>1. CASE Untouched(o)
      BY <2>1, <3>1 DEF PathInv
    <3>2. CASE ~Untouched(o) /\ o \notin DOMAIN entries
      <4>1. o \in DOMAIN currentShas /\ o \in Paths
        BY <3>2, ManifestFacts DEF Untouched, MInv, TypeInv, TypeOK
      <4>2. dest[p] = Absent
        BY <1>2, <2>1, <3>2, <4>1, TaskNames DEF PathInv, RemovalInv, Ended
      <4>. QED BY <2>1, <3>2, <4>2, ExpectedFacts DEF Good, MInv
    <3>3. CASE ~Untouched(o) /\ o \in DOMAIN entries
      <4>1. o \in Paths
        BY <3>3, ManifestFacts DEF MInv, TypeInv, TypeOK
      <4>2. CASE Expected(p) # Absent
        BY <1>2, <2>1, <3>3, <4>1, <4>2, TaskNames DEF PathInv, CopyInv, Ended, Good
      <4>3. CASE Expected(p) = Absent
        BY <2>1, <3>3, <4>3, ExpectedFacts DEF Good, MInv
      <4>. QED BY <4>2, <4>3
    <3>. QED BY <3>1, <3>2, <3>3
  <2>3. Good(p)'
    BY <1>2, <2>2 DEF Good, Expected, StaleChild
  <2>. QED BY <1>2, <2>1, <2>3 DEF PathInv, RemovalInv, CopyInv, Untouched
<1>. QED BY <1>3, <1>4

-----------------------------------------------------------------------------
\* A task has not entered, in this step, a state that says something of a path,
\* and has not been forgotten.
Keeps(t) ==
    /\ task[t] # "none" => task'[t] # "none"
    /\ task'[t] \in Running \ {"running"} => task'[t] = task[t]
    /\ task'[t] \in {"returned", "done"} => task[t] \in {"returned", "done"}

\* A step that leaves the path alone and drops nothing of what is to come for it.
LEMMA PathKept ==
    ASSUME MInv, NEW p \in Paths, PathInv(p), NEW o, o = Owner(p),
           UNCHANGED <<entries, currentShas, given>>, dest'[p] = dest[p],
           Keeps(CopyFile(p)) \/ task'[CopyFile(p)] = "made",
           o \in Paths => Keeps(Remove(o)) /\ Keeps(CopyDir(o)),
           o \in Paths /\ p \in scan[o] =>
              p \in scan'[o] \/ task'[CopyFile(p)] # "none",
           o \in toRemove => o \in toRemove' \/ task'[Remove(o)] # "none",
           o \in toCopy /\ Expected(p) # Absent =>
              \/ o \in toCopy' \/ task'[CopyFile(p)] # "none"
              \/ o # p /\ task'[CopyDir(o)] = "queued",
           task' \in [Tasks -> {"none", "queued", "returned", "done"} \cup Running]
    PROVE  PathInv(p)'
<1>1. /\ Owner(p)' = o /\ (Untouched(o)' <=> Untouched(o)) /\ Expected(p)' = Expected(p)
      /\ Good(p)' <=> Good(p)
  BY DEF Owner, Given, Untouched, Good, Expected, StaleChild
<1>2. RemovalInv(p, o)'
  <2>1. SUFFICES ASSUME o \in DOMAIN currentShas \ DOMAIN entries
                 PROVE  /\ o \in toRemove' \/ task'[Remove(o)] # "none"
                        /\ Ended(Remove(o))' => dest'[p] = Absent
    BY DEF RemovalInv
  <2>2. o \in Paths
    BY <2>1, ManifestFacts DEF MInv, TypeInv, TypeOK
  <2>. QED BY <2>1, <2>2 DEF PathInv, RemovalInv, Ended, Keeps, Running
<1>3. CopyInv(p, o)'
  <2>1. SUFFICES ASSUME o \in DOMAIN entries, ~Untouched(o), Expected(p) # Absent
                 PROVE  /\ \/ o \in toCopy' \/ task'[CopyFile(p)] # "none"
                           \/ /\ o # p
                              /\ \/ task'[CopyDir(o)] \in {"queued", "running"}
                                 \/ task'[CopyDir(o)] = "scanning" /\ p \in scan'[o]
                        /\ task'[CopyFile(p)] = "copied" \/ Ended(CopyFile(p))' =>
                             dest'[p] = Expected(p)
    BY <1>1 DEF CopyInv
  <2>2. o \in Paths /\ CopyDir(o) \in Tasks
    BY <2>1, ManifestFacts, TaskNames DEF MInv, TypeInv, TypeOK
  <2>3. /\ \/ o \in toCopy \/ task[CopyFile(p)] # "none"
           \/ /\ o # p
              /\ \/ task[CopyDir(o)] \in {"queued", "running"}
                 \/ task[CopyDir(o)] = "scanning" /\ p \in scan[o]
        /\ task[CopyFile(p)] = "copied" \/ Ended(CopyFile(p)) => dest[p] = Expected(p)
    BY <2>1 DEF PathInv, CopyInv
  <2>4. task[CopyDir(o)] \in {"queued", "running", "scanning"} =>
          \/ task'[CopyDir(o)] \in {"queued", "running"}
          \/ task'[CopyDir(o)] = "scanning" /\ task[CopyDir(o)] = "scanning"
    BY <2>2 DEF Keeps, Running
  <2>5. \/ o \in toCopy' \/ task'[CopyFile(p)] # "none"
        \/ /\ o # p
           /\ \/ task'[CopyDir(o)] \in {"queued", "running"}
              \/ task'[CopyDir(o)] = "scanning" /\ p \in scan'[o]
    BY <2>1, <2>2, <2>3, <2>4 DEF Keeps
  <2>6. task'[CopyFile(p)] = "copied" \/ Ended(CopyFile(p))' => dest'[p] = Expected(p)
    BY <2>3 DEF Keeps, Ended, Running
  <2>. QED BY <2>5, <2>6
<1>. QED BY <1>1, <1>2, <1>3 DEF PathInv

\* Submitting a task moves an entry from what is to come to what is under way.
LEMMA SubmitMirror ==
    ASSUME MInv, NEW e \in Paths, SubmitRemove(e) \/ SubmitCopy(e), TypeInv'
    PROVE  MirrorInv'
<1>. SUFFICES ASSUME ~tainted' PROVE SyncInv' /\ \A p \in Paths : Plain(p)' => PathInv(p)'
  BY DEF MirrorInv
<1>1. SyncInv /\ \A p \in Paths : Plain(p) => PathInv(p)
  BY DEF SubmitRemove, SubmitCopy, MInv, MirrorInv
<1>2. UNCHANGED <<entries, currentShas, given, dest, scan>>
  BY DEF SubmitRemove, SubmitCopy
<1>3. \A t \in Tasks : task'[t] = task[t] \/ (task[t] = "none" /\ task'[t] = "queued")
  BY DEF SubmitRemove, SubmitCopy, Submit, MInv, TypeInv, TypeOK
<1>4. \A t \in Tasks : Keeps(t)
  BY <1>3 DEF Keeps, Running
<1>5. SyncInv'
  BY <1>1 DEF SubmitRemove, SubmitCopy, SyncInv
<1>6. ASSUME NEW p \in Paths, Plain(p)' PROVE PathInv(p)'
  <2>1. PICK o : o = Owner(p)
    OBVIOUS
  <2>2. Plain(p) /\ PathInv(p)
    BY <1>1, <1>2, <1>6 DEF Plain, WasDirectory, GivenTwice, Given
  <2>3. o \in toRemove => o \in toRemove' \/ task'[Remove(o)] # "none"
    <3>1. CASE SubmitRemove(e) /\ o = e
      BY <3>1, TaskNames DEF SubmitRemove, Submit, MInv, TypeInv, TypeOK
    <3>2. CASE ~(SubmitRemove(e) /\ o = e)
      BY <3>2 DEF SubmitRemove, SubmitCopy
    <3>. QED BY <3>1, <3>2
  <2>4. o \in toCopy /\ Expected(p) # Absent =>
          \/ o \in toCopy' \/ task'[CopyFile(p)] # "none"
          \/ o # p /\ task'[CopyDir(o)] = "queued"
    <3>1. CASE ~(SubmitCopy(e) /\ o = e)
      BY <3>1 DEF SubmitRemove, SubmitCopy
    <3>2. CASE SubmitCopy(e) /\ o = e /\ IsDir(e)
      <4>1. o # p
        BY <2>1, <2>2, <3>2, PlainFacts DEF MInv
      <4>2. task' = [task EXCEPT ![CopyDir(o)] = "queued"]
        BY <3>2 DEF SubmitCopy, Submit
      <4>. QED BY <3>2, <4>1, <4>2, TaskNames DEF MInv, TypeInv, TypeOK
    <3>3. CASE SubmitCopy(e) /\ o = e /\ ~IsDir(e)
      <4>1. CASE o = p
        BY <3>3, <4>1, TaskNames DEF SubmitCopy, Submit, MInv, TypeInv, TypeOK
      <4>2. CASE o # p
        <5>1. e = Parent[p] /\ p \notin DOMAIN entries
          BY <2>1, <2>2, <3>3, <4>2, PlainFacts DEF MInv
        <5>2. ~Listed(p)
          BY <3>3, <5>1, ListedFacts DEF MInv, TypeInv
        <5>. QED BY <2>2, <5>2, ExpectedFacts DEF MInv
      <4>. QED BY <4>1, <4>2
    <3>. QED BY <3>1, <3>2, <3>3
  <2>5. task' \in [Tasks -> {"none", "queued", "returned", "done"} \cup Running]
    BY DEF TypeInv, TypeOK
  <2>. QED BY <1>2, <1>4, <2>1, <2>2, <2>3, <2>4, <2>5, PathKept, TaskNames
<1>. QED BY <1>5, <1>6

\* Waiting changes nothing in the destination.
LEMMA WaitMirror ==
    ASSUME MInv, StartWaiting \/ WaitForCompletion
    PROVE  MirrorInv'
<1>. SUFFICES ASSUME ~tainted' PROVE SyncInv' /\ \A p \in Paths : Plain(p)' => PathInv(p)'
  BY DEF MirrorInv
<1>1. SyncInv /\ \A p \in Paths : Plain(p) => PathInv(p)
  BY DEF StartWaiting, WaitForCompletion, poolVars, MInv, MirrorInv
<1>2. SyncInv'
  BY <1>1 DEF StartWaiting, WaitForCompletion, poolVars, SyncInv
<1>3. ASSUME NEW p \in Paths, Plain(p)' PROVE PathInv(p)'
  <2>1. UNCHANGED <<entries, currentShas, given, toRemove, toCopy, task, scan, dest>>
    BY DEF StartWaiting, WaitForCompletion, poolVars
  <2>2. Plain(p)
    BY <1>3, <2>1 DEF Plain, WasDirectory, GivenTwice, Given
  <2>. QED BY <1>1, <2>1, <2>2
       DEF PathInv, RemovalInv, CopyInv, Untouched, Good, Ended, Owner, Given, Expected, StaleChild
<1>. QED BY <1>2, <1>3

-----------------------------------------------------------------------------
(* The pool *)

\* A pool thread takes a task, or runs its callback, which without a failure
\* reports none.
LEMMA ThreadMirror ==
    ASSUME MInv, NEW t \in Tasks, StartTask(t) \/ HandleTaskDone(t), TypeInv'
    PROVE  MirrorInv'
<1>. SUFFICES ASSUME ~tainted' PROVE SyncInv' /\ \A p \in Paths : Plain(p)' => PathInv(p)'
  BY DEF MirrorInv
<1>1. SyncInv /\ \A p \in Paths : Plain(p) => PathInv(p)
  BY DEF StartTask, HandleTaskDone, MInv, MirrorInv
<1>2. UNCHANGED <<entries, currentShas, given, toRemove, toCopy, scan, dest>>
  BY DEF StartTask, HandleTaskDone, callerVars
<1>3. SyncInv'
  BY <1>1 DEF StartTask, HandleTaskDone, callerVars, SyncInv
<1>4. \A u \in Tasks : Keeps(u)
  <2>1. \A u \in Tasks : \/ task'[u] = task[u]
                         \/ task[u] = "queued" /\ task'[u] = "running"
                         \/ task[u] = "returned" /\ task'[u] = "done"
    BY DEF StartTask, HandleTaskDone, MInv, TypeInv, TypeOK
  <2>. QED BY <2>1 DEF Keeps, Running
<1>5. task' \in [Tasks -> {"none", "queued", "returned", "done"} \cup Running]
  BY DEF TypeInv, TypeOK
<1>6. ASSUME NEW p \in Paths, Plain(p)' PROVE PathInv(p)'
  <2>1. Plain(p) /\ PathInv(p)
    BY <1>1, <1>2, <1>6 DEF Plain, WasDirectory, GivenTwice, Given
  <2>2. PICK o : o = Owner(p)
    OBVIOUS
  <2>. QED BY <1>2, <1>4, <1>5, <2>1, <2>2, PathKept, TaskNames
<1>. QED BY <1>3, <1>6

\* A step of a function that does not raise, and what it leaves of the other
\* tasks.
LEMMA CleanRun ==
    ASSUME MInv, TypeInv', NEW t, Runs(t), ~tainted'
    PROVE  /\ Succeed(t) \/ \E state \in Running : Goto(t, state)
           /\ SyncInv' /\ \A p \in Paths : Plain(p)' => Plain(p) /\ PathInv(p)
           /\ \A u \in Tasks : u # t => Keeps(u)
<1>1. Succeed(t) \/ \E state \in Running : Goto(t, state)
  BY DEF Runs, Fault, Raise
<1>2. UNCHANGED <<tainted, failed, errors, outcome, entries, currentShas, given, toRemove, toCopy>>
  BY <1>1 DEF Succeed, TaskFinished, Goto, callerVars
<1>3. SyncInv /\ \A p \in Paths : Plain(p) => PathInv(p)
  BY <1>2 DEF MInv, MirrorInv
<1>4. SyncInv'
  BY <1>1, <1>2, <1>3 DEF Succeed, TaskFinished, Goto, callerVars, SyncInv
<1>5. \A p \in Paths : Plain(p)' => Plain(p)
  BY <1>2 DEF Plain, WasDirectory, GivenTwice, Given
<1>6. \A u \in Tasks : u # t => Keeps(u)
  BY RunFacts DEF MInv, TypeInv, Keeps
<1>. QED BY <1>1, <1>3, <1>4, <1>5, <1>6

\* A path that the function is not about.
LEMMA OtherKept ==
    ASSUME MInv, TypeInv', NEW t, Runs(t), ~tainted', NEW p \in Paths, PathInv(p),
           dest'[p] = dest[p],
           t # Remove(Owner(p)), t # CopyDir(Owner(p)),
           t = CopyFile(p) => task'[t] = "made",
           Owner(p) \in Paths => scan'[Owner(p)] = scan[Owner(p)]
    PROVE  PathInv(p)'
<1>1. PICK o : o = Owner(p)
  OBVIOUS
<1>2. UNCHANGED <<entries, currentShas, given, toRemove, toCopy>>
  BY RunFacts DEF MInv, TypeInv
<1>3. \A u \in Tasks : u # t => Keeps(u)
  BY CleanRun
<1>4. Keeps(CopyFile(p)) \/ task'[CopyFile(p)] = "made"
  BY <1>3, TaskNames
<1>5. o \in Paths => Keeps(Remove(o)) /\ Keeps(CopyDir(o))
  BY <1>1, <1>3, TaskNames
<1>6. task' \in [Tasks -> {"none", "queued", "returned", "done"} \cup Running]
  BY DEF TypeInv, TypeOK
<1>. QED BY <1>1, <1>2, <1>4, <1>5, <1>6, PathKept

\* A removal, where nothing of the owner is expected.
LEMMA RemovedKept ==
    ASSUME MInv, NEW p \in Paths, Plain(p), PathInv(p), NEW o \in Paths, o = Owner(p),
           task[Remove(o)] # "none", task'[Remove(o)] # "none",
           UNCHANGED <<entries, currentShas, given>>,
           dest'[p] = dest[p] \/ dest'[p] = Absent,
           Ended(Remove(o))' => dest'[p] = Absent
    PROVE  PathInv(p)'
<1>1. o \notin DOMAIN entries
  BY DEF MInv, TypeInv, OwnersInv
<1>2. /\ Owner(p)' = o /\ (Untouched(o)' <=> Untouched(o)) /\ Expected(p)' = Expected(p)
      /\ Expected(p) = Absent
  BY <1>1, ExpectedFacts DEF MInv, Owner, Given, Untouched, Expected, StaleChild
<1>3. Untouched(o)' => Good(p)'
  BY <1>2 DEF PathInv, Good, StaleChild
<1>4. RemovalInv(p, o)'
  BY DEF RemovalInv
<1>5. CopyInv(p, o)'
  BY <1>1 DEF CopyInv
<1>. QED BY <1>2, <1>3, <1>4, <1>5 DEF PathInv

\* What is removed with its owner goes, and nothing else does.
LEMMA RemovalMirror ==
    ASSUME MInv, TypeInv', NEW q \in Paths, RemovePath(q) \/ UnlinkPath(q) \/ RemoveDir(q)
    PROVE  MirrorInv'
<1>. SUFFICES ASSUME ~tainted' PROVE SyncInv' /\ \A p \in Paths : Plain(p)' => PathInv(p)'
  BY DEF MirrorInv
<1>. DEFINE t == Remove(q)
<1>1. Runs(t) /\ t \in Tasks /\ task[t] # "none"
  BY RunsWhere, TaskNames DEF Runs, Running
<1>2. /\ SyncInv' /\ \A p \in Paths : Plain(p)' => Plain(p) /\ PathInv(p)
      /\ Succeed(t) \/ \E state \in Running : Goto(t, state)
  BY <1>1, CleanRun
<1>3. UNCHANGED <<entries, currentShas, given>> /\ task'[t] # "none"
  BY <1>1, RunFacts DEF MInv, TypeInv, Running
<1>4. \/ dest' = dest /\ task'[t] \notin {"returned", "done"}
      \/ dest' = [dest EXCEPT ![q] = Absent] /\ \A c \in In(q) : dest[c] = Absent
  <2>1. CASE RemovePath(q)
    BY <1>1, <2>1 DEF RemovePath, Goto, MInv, TypeInv, TypeOK
  <2>2. CASE UnlinkPath(q)
    <3>1. dest[q] # Directory => \A c \in In(q) : dest[c] = Absent
      BY PathsAssumption DEF MInv, TreeInv, In
    <3>. QED BY <2>2, <3>1 DEF UnlinkPath, Fault, Raise, Put
  <2>3. CASE RemoveDir(q)
    BY <2>3 DEF RemoveDir, Fault, Raise, Put
  <2>. QED BY <2>1, <2>2, <2>3
<1>5. ASSUME NEW p \in Paths, Plain(p)' PROVE PathInv(p)'
  <2>1. Plain(p) /\ PathInv(p)
    BY <1>2, <1>5
  <2>2. /\ Owner(p) = q => p = q \/ p \in In(q)
        /\ p = q => Owner(p) = q
    BY <1>1, <2>1, PlainFacts, OwnersTasks DEF MInv, In
  <2>3. CASE Owner(p) = q
    <3>1. dest'[p] = dest[p] \/ dest'[p] = Absent
      BY <1>4 DEF MInv, TypeInv, TypeOK
    <3>2. Ended(t)' => dest'[p] = Absent
      BY <1>4, <2>2, <2>3 DEF Ended, MInv, TypeInv, TypeOK
    <3>. QED BY <1>1, <1>3, <2>1, <2>3, <3>1, <3>2, RemovedKept
  <2>4. CASE Owner(p) # q
    <3>1. dest'[p] = dest[p]
      BY <1>4, <2>2, <2>4 DEF MInv, TypeInv, TypeOK
    <3>2. Owner(p) \in Paths => scan'[Owner(p)] = scan[Owner(p)]
      BY <2>4 DEF RemovePath, UnlinkPath, RemoveDir, MInv, TypeInv, TypeOK
    <3>3. t # Remove(Owner(p)) /\ t # CopyDir(Owner(p)) /\ t # CopyFile(p)
      BY <2>4, TasksDiffer
    <3>. QED BY <1>1, <2>1, <3>1, <3>2, <3>3, OtherKept
  <2>. QED BY <2>3, <2>4
<1>. QED BY <1>2, <1>5

\* What rmtree removes is owned by the directory.
LEMMA RemoveListedMirror ==
    ASSUME MInv, TypeInv', NEW q \in Paths, NEW c \in Paths, RemoveListed(q, c)
    PROVE  MirrorInv'
<1>. SUFFICES ASSUME ~tainted' PROVE SyncInv' /\ \A p \in Paths : Plain(p)' => PathInv(p)'
  BY DEF MirrorInv
<1>1. /\ UNCHANGED <<entries, currentShas, given, toRemove, toCopy, task>>
      /\ task[Remove(q)] = "removing" /\ Parent[c] = q
      /\ dest' = [dest EXCEPT ![c] = Absent] /\ scan' = [scan EXCEPT ![q] = @ \ {c}]
  BY DEF RemoveListed, Put, callerVars, MInv, TypeInv, OwnersInv, In
<1>2. SyncInv /\ \A p \in Paths : Plain(p) => PathInv(p)
  BY DEF RemoveListed, MInv, MirrorInv
<1>3. SyncInv'
  BY <1>2 DEF RemoveListed, callerVars, SyncInv
<1>4. ASSUME NEW p \in Paths, Plain(p)' PROVE PathInv(p)'
  <2>1. Plain(p) /\ PathInv(p)
    BY <1>1, <1>2, <1>4 DEF Plain, WasDirectory, GivenTwice, Given
  <2>2. PICK o : o = Owner(p)
    OBVIOUS
  <2>3. CASE p = c
    <3>1. o = q
      BY <1>1, <2>1, <2>2, <2>3, OwnersTasks DEF MInv
    <3>2. dest'[p] = Absent
      BY <1>1, <2>3 DEF MInv, TypeInv, TypeOK
    <3>. QED BY <1>1, <2>1, <2>2, <3>1, <3>2, RemovedKept
  <2>4. CASE p # c
    <3>1. dest'[p] = dest[p]
      BY <1>1, <2>4 DEF MInv, TypeInv, TypeOK
    <3>2. o \in Paths /\ p \in scan[o] => p \in scan'[o]
      BY <1>1, <2>4 DEF MInv, TypeInv, TypeOK
    <3>3. \A u : Keeps(u)
      BY <1>1 DEF Keeps
    <3>4. task' \in [Tasks -> {"none", "queued", "returned", "done"} \cup Running]
      BY DEF TypeInv, TypeOK
    <3>. QED BY <1>1, <2>1, <2>2, <3>1, <3>2, <3>3, <3>4, PathKept
  <2>. QED BY <2>3, <2>4
<1>. QED BY <1>3, <1>4

\* A copied file is as the manifest wants it, from its content's arrival on.
LEMMA FileCopyMirror ==
    ASSUME MInv, TypeInv', NEW q \in Paths, FileCopy(q)
    PROVE  MirrorInv'
<1>. SUFFICES ASSUME ~tainted' PROVE SyncInv' /\ \A p \in Paths : Plain(p)' => PathInv(p)'
  BY DEF MirrorInv
<1>. DEFINE t == CopyFile(q)
<1>1. Runs(t) /\ t \in Tasks /\ task[t] # "none"
  BY RunsWhere, TaskNames DEF Runs, Running
<1>2. /\ SyncInv' /\ \A p \in Paths : Plain(p)' => Plain(p) /\ PathInv(p)
      /\ Succeed(t) \/ \E state \in Running : Goto(t, state)
  BY <1>1, CleanRun
<1>3. UNCHANGED <<entries, currentShas, given>> /\ task'[t] # "none"
  BY <1>1, RunFacts DEF MInv, TypeInv, Running
<1>4. scan' = scan
  BY DEF FileCopy, MakeParent, CopyContent, ChangeMode
<1>5. Listed(q)
  BY <1>1 DEF MInv, TypeInv, OwnersInv
<1>6. ASSUME NEW p \in Paths, Plain(p)' PROVE PathInv(p)'
  <2>1. Plain(p) /\ PathInv(p)
    BY <1>2, <1>6
  <2>2. t # Remove(Owner(p)) /\ t # CopyDir(Owner(p)) /\ (t = CopyFile(p) => p = q)
    BY TasksDiffer
  <2>3. CASE MakeParent(q)
    <3>1. dest'[p] = dest[p]
      <4>1. Parent[q] # p
        BY <1>5, <2>1, MadeDirectory DEF Plain, MInv
      <4>2. MakeDir(t, Parent[q], "made")
        BY <2>3 DEF MakeParent
      <4>. QED BY <4>1, <4>2 DEF MakeDir, Put, MInv, TypeInv, TypeOK
    <3>2. task'[t] = "made"
      <4>1. MakeDir(t, Parent[q], "made")
        BY <2>3 DEF MakeParent
      <4>. QED BY <1>1, <4>1 DEF MakeDir, Goto, Fault, Raise, MInv, TypeInv, TypeOK
    <3>. QED BY <1>1, <1>4, <2>1, <2>2, <3>1, <3>2, OtherKept
  <2>4. CASE ~MakeParent(q) /\ p # q
    <3>1. dest'[p] = dest[p]
      BY <2>4 DEF FileCopy, CopyContent, ChangeMode, Put, MInv, TypeInv, TypeOK
    <3>. QED BY <1>1, <1>4, <2>1, <2>2, <2>4, <3>1, OtherKept
  <2>5. CASE ~MakeParent(q) /\ p = q
    <3>1. /\ Owner(p) \in DOMAIN entries /\ Expected(p) = Version(p) /\ Expected(p) # Absent
          /\ dest[p] # Directory
      BY <1>5, <2>1, <2>5, ExpectedFacts DEF MInv, TreeInv, Plain
    <3>2. PICK o : o = Owner(p)
      OBVIOUS
    <3>3. dest'[p] = Expected(p)
      <4>1. CASE CopyContent(q)
        BY <2>5, <3>1, <4>1 DEF CopyContent, Fault, Raise, Put, MInv, TypeInv, TypeOK
      <4>2. CASE ChangeMode(q)
        <5>1. dest' = dest /\ task[CopyFile(p)] = "copied"
          BY <2>5, <4>2 DEF ChangeMode
        <5>2. CASE Untouched(o)
          BY <2>1, <3>1, <3>2, <5>1, <5>2 DEF PathInv, Good
        <5>3. CASE ~Untouched(o)
          BY <2>1, <3>1, <3>2, <5>1, <5>3 DEF PathInv, CopyInv
        <5>. QED BY <5>2, <5>3
      <4>. QED BY <2>5, <4>1, <4>2 DEF FileCopy
    <3>4. Owner(p)' = o /\ Expected(p)' = Expected(p)
      BY <1>3, <3>2 DEF Owner, Given, Expected
    <3>5. Good(p)'
      BY <3>3, <3>4 DEF Good
    <3>6. RemovalInv(p, o)' /\ CopyInv(p, o)'
      BY <1>3, <2>5, <3>1, <3>2, <3>3, <3>4 DEF RemovalInv, CopyInv
    <3>. QED BY <3>4, <3>5, <3>6 DEF PathInv
  <2>. QED BY <2>3, <2>4, <2>5
<1>. QED BY <1>2, <1>6

\* A directory's scan begins with all its files, and ends when every one of
\* them has become a task.
LEMMA DirMirror ==
    ASSUME MInv, TypeInv', NEW d \in Paths, ScanDir(d) \/ CopyDirEnds(d)
    PROVE  MirrorInv'
<1>. SUFFICES ASSUME ~tainted' PROVE SyncInv' /\ \A p \in Paths : Plain(p)' => PathInv(p)'
  BY DEF MirrorInv
<1>. DEFINE t == CopyDir(d)
<1>1. Runs(t) /\ t \in Tasks /\ task[t] # "none"
  BY RunsWhere, TaskNames DEF Runs, Running
<1>2. /\ SyncInv' /\ \A p \in Paths : Plain(p)' => Plain(p) /\ PathInv(p)
      /\ Succeed(t) \/ \E state \in Running : Goto(t, state)
      /\ \A u \in Tasks : u # t => Keeps(u)
  BY <1>1, CleanRun
<1>3. UNCHANGED <<entries, currentShas, given, toRemove, toCopy>>
  BY <1>1, RunFacts DEF MInv, TypeInv
<1>4. IsDir(d)
  BY <1>1 DEF MInv, TypeInv, OwnersInv
<1>5. \A p \in Paths : p # d => dest'[p] = dest[p] /\ scan'[p] = scan[p]
  BY DEF ScanDir, MakeDir, CopyDirEnds, Put, MInv, TypeInv, TypeOK
<1>6. \/ task[t] = "running" /\ task'[t] = "scanning" /\ scan'[d] = Source[d][entries[d]]
      \/ task[t] = "scanning" /\ scan[d] = {}
  <2>1. CASE ScanDir(d)
    <3>1. MakeDir(t, d, "scanning") /\ scan' = [scan EXCEPT ![d] = Source[d][entries[d]]]
      BY <2>1 DEF ScanDir
    <3>. QED BY <1>1, <2>1, <3>1 DEF ScanDir, MakeDir, Goto, Fault, Raise, MInv, TypeInv, TypeOK
  <2>2. CASE CopyDirEnds(d)
    BY <2>2 DEF CopyDirEnds, Fault, Raise
  <2>. QED BY <2>1, <2>2
<1>7. ASSUME NEW p \in Paths, Plain(p)' PROVE PathInv(p)'
  <2>1. Plain(p) /\ PathInv(p)
    BY <1>2, <1>7
  <2>2. p # d /\ dest'[p] = dest[p]
    BY <1>4, <1>5, <2>1, MadeDirectory DEF Plain, MInv
  <2>3. t # Remove(Owner(p)) /\ t # CopyFile(p) /\ (Owner(p) # d => t # CopyDir(Owner(p)))
    BY TasksDiffer
  <2>4. CASE Owner(p) # d
    BY <1>1, <1>5, <2>1, <2>2, <2>3, <2>4, OtherKept
  <2>5. CASE Owner(p) = d
    <3>1. /\ Owner(p)' = d /\ (Untouched(d)' <=> Untouched(d)) /\ Expected(p)' = Expected(p)
          /\ Good(p)' <=> Good(p)
      BY <1>3, <2>2, <2>5 DEF Owner, Given, Untouched, Good, Expected, StaleChild
    <3>2. RemovalInv(p, d)'
      BY <1>3, <1>4 DEF RemovalInv, IsDir
    <3>3. CopyInv(p, d)'
      <4>1. Keeps(CopyFile(p))
        BY <1>2, <2>3, TaskNames
      <4>2. SUFFICES ASSUME ~Untouched(d), Expected(p) # Absent, d \in DOMAIN entries
                     PROVE  /\ \/ d \in toCopy' \/ task'[CopyFile(p)] # "none"
                               \/ d # p /\ task'[CopyDir(d)] = "scanning" /\ p \in scan'[d]
                            /\ task'[CopyFile(p)] = "copied" \/ Ended(CopyFile(p))' =>
                                 dest'[p] = Expected(p)
        BY <1>3, <3>1 DEF CopyInv
      <4>3. /\ \/ d \in toCopy \/ task[CopyFile(p)] # "none"
               \/ task[t] \in {"queued", "running"}
               \/ task[t] = "scanning" /\ p \in scan[d]
            /\ task[CopyFile(p)] = "copied" \/ Ended(CopyFile(p)) => dest[p] = Expected(p)
        BY <2>1, <2>5, <4>2 DEF PathInv, CopyInv
      <4>4. p \in Source[d][entries[d]]
        BY <2>1, <2>2, <2>5, <4>2, ExpectedFacts, PlainFacts DEF Listed, MInv
      <4>5. \/ d \in toCopy' \/ task'[CopyFile(p)] # "none"
            \/ d # p /\ task'[CopyDir(d)] = "scanning" /\ p \in scan'[d]
        BY <1>3, <1>6, <2>2, <4>1, <4>3, <4>4 DEF Keeps
      <4>6. task'[CopyFile(p)] = "copied" \/ Ended(CopyFile(p))' => dest'[p] = Expected(p)
        BY <2>2, <4>1, <4>3 DEF Keeps, Ended, Running
      <4>. QED BY <4>5, <4>6
    <3>. QED BY <2>1, <2>5, <3>1, <3>2, <3>3 DEF PathInv
  <2>. QED BY <2>4, <2>5
<1>. QED BY <1>2, <1>7

\* A file leaves the scan as a task of its own.
LEMMA SubmitChildMirror ==
    ASSUME MInv, TypeInv', NEW d \in Paths, NEW g \in Paths, SubmitChild(d, g)
    PROVE  MirrorInv'
<1>. SUFFICES ASSUME ~tainted' PROVE SyncInv' /\ \A p \in Paths : Plain(p)' => PathInv(p)'
  BY DEF MirrorInv
<1>1. SyncInv /\ \A p \in Paths : Plain(p) => PathInv(p)
  BY DEF SubmitChild, MInv, MirrorInv
<1>2. /\ SyncInv' /\ dest' = dest
      /\ UNCHANGED <<entries, currentShas, given, toRemove, toCopy>>
      /\ scan' = [scan EXCEPT ![d] = @ \ {g}]
  BY <1>1 DEF SubmitChild, callerVars, SyncInv
<1>3. /\ task'[CopyFile(g)] = "queued"
      /\ \A u \in Tasks : task'[u] = task[u] \/ (task[u] = "none" /\ task'[u] = "queued")
  BY TaskNames DEF SubmitChild, Submit, MInv, TypeInv, TypeOK
<1>4. \A u \in Tasks : Keeps(u)
  BY <1>3 DEF Keeps, Running
<1>5. task' \in [Tasks -> {"none", "queued", "returned", "done"} \cup Running]
  BY DEF TypeInv, TypeOK
<1>6. ASSUME NEW p \in Paths, Plain(p)' PROVE PathInv(p)'
  <2>1. Plain(p) /\ PathInv(p)
    BY <1>1, <1>2, <1>6 DEF Plain, WasDirectory, GivenTwice, Given
  <2>2. PICK o : o = Owner(p)
    OBVIOUS
  <2>3. o \in Paths /\ p \in scan[o] => p \in scan'[o] \/ task'[CopyFile(p)] # "none"
    <3>1. CASE p = g
      BY <1>3, <3>1
    <3>2. CASE p # g
      BY <1>2, <3>2 DEF MInv, TypeInv, TypeOK
    <3>. QED BY <3>1, <3>2
  <2>. QED BY <1>2, <1>4, <1>5, <2>1, <2>2, <2>3, PathKept, TaskNames
<1>. QED BY <1>2, <1>6

-----------------------------------------------------------------------------
\* Every step keeps the mirror.
LEMMA StepMirror == MInv /\ [Next]_vars => MInv'
<1>. SUFFICES ASSUME MInv, [Next]_vars PROVE MInv'
  OBVIOUS
<1>1. TypeInv' /\ TreeInv'
  BY StepTypes, StepTree DEF MInv
<1>2. CASE UNCHANGED vars
  <2>1. UNCHANGED <<entries, currentShas, given, toRemove, toCopy, task, scan, dest, tainted,
                    failed, errors, outcome, phase>>
    BY <1>2 DEF vars, callerVars, poolVars
  <2>2. ASSUME NEW p \in Paths
        PROVE  (Plain(p)' => Plain(p)) /\ (PathInv(p) => PathInv(p)')
    BY <2>1 DEF Plain, WasDirectory, GivenTwice, Given, PathInv, RemovalInv, CopyInv, Untouched,
       Good, Ended, Owner, Expected, StaleChild
  <2>3. SyncInv => SyncInv'
    BY <2>1 DEF SyncInv
  <2>. QED BY <1>1, <2>1, <2>2, <2>3 DEF MInv, MirrorInv
<1>3. CASE Next
  <2>1. MirrorInv'
    BY <1>1, <1>3, SyncMirror, SubmitMirror, WaitMirror, CloseMirror, ThreadMirror,
       RemovalMirror, RemoveListedMirror, FileCopyMirror, DirMirror, SubmitChildMirror
       DEF Next, Caller, Pool, Removal, DirCopy
  <2>. QED BY <1>1, <2>1 DEF MInv
<1>. QED BY <1>2, <1>3

\* As long as no task raised, a sync that returns leaves every path that was
\* always a file, and always an entry or always in one, as the manifest wants
\* it, whatever removals, copies and scans do to all the others meanwhile: for
\* any paths, manifests, threads and syncs.
THEOREM CleanSyncIsMirror == Spec => []CleanSyncMirrors
<1>1. MInv => CleanSyncMirrors
  <2>. SUFFICES ASSUME MInv, SyncReturned, ~tainted, NEW p \in Paths, Plain(p)
                PROVE  dest[p] = Expected(p) \/ (Expected(p) = Absent /\ StaleChild(p))
    BY DEF CleanSyncMirrors, Plain
  <2>1. entries = currentShas /\ PathInv(p)
    BY DEF MInv, MirrorInv, SyncInv, SyncReturned
  <2>. QED BY <2>1 DEF PathInv, Untouched, Good
<1>. QED BY <1>1, InitMirror, StepMirror, PTL DEF Spec
====

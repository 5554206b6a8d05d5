--------------------------- MODULE DirectorySyncer ---------------------------
(* sphinxdocs/private/sphinx_build.py, DirectorySyncer: sync() brings the    *)
(* destination directory up to date with a manifest {path: sha} using a      *)
(* thread pool, and remembers the manifest for the next call.                *)
EXTENDS Naturals, FiniteSets

CONSTANTS
    Paths,       \* paths relative to the destination directory
    Root,        \* that directory
    Parent,      \* [Paths -> the directory that a path lies in]
    Versions,    \* digests an entry may have
    Source,      \* [Paths -> [Versions -> files that the entry consists of]]:
                 \* itself, or the files in it if it is a directory
    MaxWorkers,  \* threads of the pool
    MaxSyncs,    \* bound: calls of sync()
    MaxFaults    \* bound: operating-system errors met by the tasks

In(d) == {p \in Paths : Parent[p] = d}

\* One level of directories.  An entry may be a file in one manifest and a
\* directory in another, or lie in what is an entry of another.
ASSUME PathsAssumption ==
    /\ IsFiniteSet(Paths) /\ Root \notin Paths
    /\ Parent \in [Paths -> Paths \cup {Root}]
    /\ \A p \in Paths : Parent[p] # Root => Parent[Parent[p]] = Root
ASSUME SourceAssumption ==
    /\ Source \in [Paths -> [Versions -> SUBSET Paths]]
    /\ \A p \in Paths, v \in Versions :
        Source[p][v] = {p} \/ (Parent[p] = Root /\ Source[p][v] \subseteq In(p))
ASSUME BoundsAssumption ==
    MaxWorkers \in Nat \ {0} /\ MaxSyncs \in Nat /\ MaxFaults \in Nat

\* What is at a path of the destination, other than a file of some version.
Absent == "absent"
Directory == "directory"
Torn == "torn"     \* a copy that failed half way
ASSUME ContentsAssumption == Versions \cap {Absent, Directory, Torn} = {}

\* Bazel lists a directory or the files in it, never both.
Manifests == {m \in UNION {[S -> Versions] : S \in SUBSET Paths} :
                \A p \in DOMAIN m : Parent[p] \notin DOMAIN m}

VARIABLES
    phase,        \* where the thread that called sync() is
    entries,      \* its argument
    toRemove, toCopy,  \* what it has not submitted yet
    currentShas,  \* _current_shas
    remaining,    \* _remaining
    errors,       \* _errors, as the set of tasks whose exception is in it
    task,         \* [Tasks -> life of each submitted task]
    scan,         \* [Paths -> what a _copy_dir or an rmtree there has yet to do]
    dest,         \* [Paths -> what is there in the destination directory]
    failed,       \* history: tasks of this sync that raised
    outcome,      \* how the last sync() ended
    given,        \* history: <<path, version>> of all manifests
    syncs, faults, tainted  \* counters, and whether any task ever raised

callerVars == <<phase, entries, toRemove, toCopy, currentShas, outcome, given, syncs>>
poolVars == <<remaining, errors, task, scan, dest, failed, faults, tainted>>
vars == <<callerVars, poolVars>>

Tasks == [op : {"remove", "copyFile", "copyDir"}, path : Paths]
Remove(p) == [op |-> "remove", path |-> p]
CopyFile(p) == [op |-> "copyFile", path |-> p]
CopyDir(p) == [op |-> "copyDir", path |-> p]

\* States of a function between its start and its end.
Running == {"running", "made", "copied", "scanning", "unlinking", "removing"}
\* Submitted, and _task_finished not called yet.
Active == {t \in Tasks : task[t] \in {"queued"} \cup Running}
\* A pool thread runs the function and then the done callback.
OnThread == {t \in Tasks : task[t] \in {"returned"} \cup Running}

Init ==
    /\ phase = "idle" /\ entries = [p \in {} |-> 0]
    /\ toRemove = {} /\ toCopy = {}
    /\ currentShas = [p \in {} |-> 0]
    /\ remaining = 0 /\ errors = {}
    /\ task = [t \in Tasks |-> "none"]
    /\ scan = [p \in Paths |-> {}]
    /\ dest = [p \in Paths |-> Absent]
    /\ failed = {} /\ outcome = "none" /\ given = {}
    /\ syncs = 0 /\ faults = 0 /\ tainted = FALSE

-----------------------------------------------------------------------------
(* The caller of sync() *)

\* Mutant: only paths that are new are copied, whatever their digest.
ChangedPaths(new) == DOMAIN new \ DOMAIN currentShas

Changed(new) ==
    {e \in DOMAIN new : e \notin DOMAIN currentShas \/ currentShas[e] # new[e]}
Removed(new) == DOMAIN currentShas \ DOMAIN new

\* A sync with nothing to do returns at once.
Sync(new) ==
    /\ phase = "idle" /\ syncs < MaxSyncs
    /\ syncs' = syncs + 1
    /\ entries' = new
    /\ toRemove' = Removed(new)
    /\ toCopy' = Changed(new)
    /\ given' = given \cup {<<p, new[p]>> : p \in DOMAIN new}
    /\ remaining' = 0 /\ errors' = {} /\ failed' = {}
    /\ task' = [t \in Tasks |-> "none"]
    /\ IF Removed(new) \cup Changed(new) = {}
       THEN currentShas' = new /\ outcome' = "ok" /\ UNCHANGED phase
       ELSE phase' = "submitting" /\ outcome' = "none" /\ UNCHANGED currentShas
    /\ UNCHANGED <<scan, dest, faults, tainted>>

\* Mutant: a task is given to the pool directly.
SubmitUncounted(t) ==
    /\ task[t] = "none"
    /\ UNCHANGED remaining
    /\ task' = [task EXCEPT ![t] = "queued"]

\* _submit_task: _remaining goes up before the pool can see the task.
Submit(t) ==
    /\ task[t] = "none"
    /\ remaining' = remaining + 1
    /\ task' = [task EXCEPT ![t] = "queued"]

SubmitRemove(e) ==
    /\ phase = "submitting" /\ e \in toRemove
    /\ toRemove' = toRemove \ {e}
    /\ Submit(Remove(e))
    /\ UNCHANGED <<phase, entries, toCopy, currentShas, outcome, given, syncs,
                   errors, scan, dest, failed, faults, tainted>>

\* src_path.is_dir()
IsDir(e) == e \in DOMAIN entries /\ e \notin Source[e][entries[e]]

SubmitCopy(e) ==
    /\ phase = "submitting" /\ toRemove = {} /\ e \in toCopy
    /\ toCopy' = toCopy \ {e}
    /\ Submit(IF IsDir(e) THEN CopyDir(e) ELSE CopyFile(e))
    /\ UNCHANGED <<phase, entries, toRemove, currentShas, outcome, given, syncs,
                   errors, scan, dest, failed, faults, tainted>>

StartWaiting ==
    /\ phase = "submitting" /\ toRemove = {} /\ toCopy = {}
    /\ phase' = "waiting"
    /\ UNCHANGED <<entries, toRemove, toCopy, currentShas, outcome, given, syncs, poolVars>>

\* _wait_for_completion: _finished_cond.wait() while _remaining > 0, then
\* _errors decides.
WaitForCompletion ==
    /\ phase = "waiting"
    /\ phase' = IF remaining > 0 THEN "sleeping" ELSE "closing"
    /\ outcome' = IF remaining > 0 THEN outcome
                  ELSE IF errors # {} THEN "error" ELSE "ok"
    /\ UNCHANGED <<entries, toRemove, toCopy, currentShas, given, syncs, poolVars>>

\* The `with` statement shuts the pool down and joins its threads; sync()
\* records the manifest unless an exception passes by.
CloseExecutor ==
    /\ phase = "closing"
    /\ \A t \in Tasks : task[t] \in {"none", "done"}
    /\ phase' = "idle"
    /\ currentShas' = IF outcome = "ok" THEN entries ELSE currentShas
    /\ UNCHANGED <<entries, toRemove, toCopy, outcome, given, syncs, poolVars>>

-----------------------------------------------------------------------------
(* The pool's threads.  A task takes its steps at the operations of the file  *)
(* system that another task's may come between.                               *)

StartTask(t) ==
    /\ task[t] = "queued" /\ Cardinality(OnThread) < MaxWorkers
    /\ task' = [task EXCEPT ![t] = "running"]
    /\ UNCHANGED <<callerVars, remaining, errors, scan, dest, failed, faults, tainted>>

\* t goes on.
Goto(t, state) ==
    /\ task' = [task EXCEPT ![t] = state]
    /\ UNCHANGED <<callerVars, remaining, errors, failed, faults, tainted>>

\* Mutant: the last task does not notify.
TaskFinishedUnheard(t) ==
    /\ task' = [task EXCEPT ![t] = "returned"]
    /\ remaining' = remaining - 1
    /\ UNCHANGED <<phase, entries, toRemove, toCopy, currentShas, outcome, given, syncs,
                   errors>>

\* _task_finished, run by the function's `finally`: the last one notifies.
TaskFinished(t) ==
    /\ task' = [task EXCEPT ![t] = "returned"]
    /\ remaining' = remaining - 1
    /\ phase' = IF remaining = 1 /\ phase = "sleeping" THEN "waiting" ELSE phase
    /\ UNCHANGED <<entries, toRemove, toCopy, currentShas, outcome, given, syncs, errors>>

Succeed(t) == TaskFinished(t) /\ UNCHANGED <<failed, faults, tainted>>

\* Mutant: _task_finished is not in a `finally`.
RaiseUnfinished(t) ==
    /\ failed' = failed \cup {t}
    /\ tainted' = TRUE
    /\ task' = [task EXCEPT ![t] = "returned"]
    /\ UNCHANGED <<callerVars, remaining, errors>>

\* The function re-raises: the pool stores the exception in the future.
Raise(t) ==
    /\ failed' = failed \cup {t}
    /\ tainted' = TRUE
    /\ TaskFinished(t)

\* An operating-system error that no other task is the reason of.
Fault(t) ==
    /\ faults < MaxFaults /\ faults' = faults + 1
    /\ Raise(t)

IsFile(p) == p # Root /\ dest[p] \notin {Absent, Directory}
Put(p, what) == dest' = [dest EXCEPT ![p] = what]

\* is_dir() decides between rmtree, which lists the directory, and unlink.
RemovePath(p) ==
    LET t == Remove(p) IN
    /\ task[t] = "running"
    /\ IF dest[p] = Directory
       THEN Goto(t, "removing") /\ scan' = [scan EXCEPT ![p] = {c \in In(p) : dest[c] # Absent}]
       ELSE Goto(t, "unlinking") /\ UNCHANGED scan
    /\ UNCHANGED dest

\* unlink(missing_ok=True) raises where p has become a directory or its parent
\* is a file.
UnlinkPath(p) ==
    LET t == Remove(p) IN
    /\ task[t] = "unlinking"
    /\ UNCHANGED scan
    /\ IF dest[p] = Directory \/ IsFile(Parent[p])
       THEN Raise(t) /\ UNCHANGED <<dest, faults>>
       ELSE \/ Succeed(t) /\ Put(p, Absent)
            \/ Fault(t) /\ UNCHANGED dest

\* shutil.rmtree removes what it has listed, then the directory, which must be
\* empty.
RemoveListed(p, c) ==
    LET t == Remove(p) IN
    /\ task[t] = "removing" /\ c \in scan[p]
    /\ scan' = [scan EXCEPT ![p] = @ \ {c}]
    /\ Put(c, Absent)
    /\ UNCHANGED <<callerVars, remaining, errors, task, failed, faults, tainted>>

RemoveDir(p) ==
    LET t == Remove(p) IN
    /\ task[t] = "removing"
    /\ UNCHANGED scan
    /\ \/ Fault(t) /\ UNCHANGED dest
       \/ /\ scan[p] = {}
          /\ IF \A c \in In(p) : dest[c] = Absent
             THEN Succeed(t) /\ Put(p, Absent)
             ELSE Raise(t) /\ UNCHANGED <<dest, faults>>

\* dest.mkdir(parents=True, exist_ok=True)
MakeDir(t, d, state) ==
    \/ /\ ~IsFile(d)
       /\ Goto(t, state)
       /\ IF d = Root THEN UNCHANGED dest ELSE Put(d, Directory)
    \/ /\ IsFile(d)
       /\ Raise(t) /\ UNCHANGED <<dest, faults>>
    \/ Fault(t) /\ UNCHANGED dest

MakeParent(p) ==
    /\ task[CopyFile(p)] = "running"
    /\ MakeDir(CopyFile(p), Parent[p], "made")
    /\ UNCHANGED scan

\* The digest of a file is that of the entry it belongs to.
Version(p) == IF p \in DOMAIN entries THEN entries[p] ELSE entries[Parent[p]]

\* shutil.copy2 raises where the parent has been removed, and copies into p
\* where p is a directory.
CopyContent(p) ==
    LET t == CopyFile(p) IN
    /\ task[t] = "made"
    /\ UNCHANGED scan
    /\ IF Parent[p] # Root /\ dest[Parent[p]] # Directory
       THEN Raise(t) /\ UNCHANGED <<dest, faults>>
       ELSE \/ Goto(t, "copied") /\ Put(p, IF dest[p] = Directory THEN Directory ELSE Version(p))
            \/ /\ Fault(t)
               /\ \/ UNCHANGED dest
                  \/ /\ dest[p] # Directory
                     /\ \E what \in {Torn, Version(p)} : Put(p, what)

\* dest.stat() and dest.chmod() raise where p has been removed.
ChangeMode(p) ==
    LET t == CopyFile(p) IN
    /\ task[t] = "copied"
    /\ UNCHANGED <<scan, dest>>
    /\ IF dest[p] = Absent THEN Raise(t) /\ UNCHANGED faults
       ELSE Succeed(t) \/ Fault(t)

\* _copy_dir begins: os.scandir yields the files in any order.
ScanDir(d) ==
    /\ task[CopyDir(d)] = "running"
    /\ MakeDir(CopyDir(d), d, "scanning")
    /\ scan' = [scan EXCEPT ![d] = Source[d][entries[d]]]

\* Mutant: the children are given to the pool directly.
SubmitChildUncounted(d, f) ==
    /\ task[CopyDir(d)] = "scanning" /\ f \in scan[d]
    /\ scan' = [scan EXCEPT ![d] = @ \ {f}]
    /\ SubmitUncounted(CopyFile(f))
    /\ UNCHANGED <<callerVars, errors, dest, failed, faults, tainted>>

\* Each becomes a task.
SubmitChild(d, f) ==
    /\ task[CopyDir(d)] = "scanning" /\ f \in scan[d]
    /\ scan' = [scan EXCEPT ![d] = @ \ {f}]
    /\ Submit(CopyFile(f))
    /\ UNCHANGED <<callerVars, errors, dest, failed, faults, tainted>>

CopyDirEnds(d) ==
    LET t == CopyDir(d) IN
    /\ task[t] = "scanning"
    /\ \/ scan[d] = {} /\ Succeed(t)
       \/ Fault(t)
    /\ UNCHANGED <<scan, dest>>

\* The future's done callback, after the function returned.
HandleTaskDone(t) ==
    /\ task[t] = "returned"
    /\ task' = [task EXCEPT ![t] = "done"]
    /\ errors' = IF t \in failed THEN errors \cup {t} ELSE errors
    /\ UNCHANGED <<callerVars, remaining, scan, dest, failed, faults, tainted>>

-----------------------------------------------------------------------------
Caller ==
    \/ \E p \in Paths : SubmitRemove(p) \/ SubmitCopy(p)
    \/ StartWaiting
    \/ WaitForCompletion
    \/ CloseExecutor

Removal(p) ==
    \/ RemovePath(p) \/ UnlinkPath(p) \/ RemoveDir(p)
    \/ \E c \in Paths : RemoveListed(p, c)
FileCopy(p) == MakeParent(p) \/ CopyContent(p) \/ ChangeMode(p)
DirCopy(p) ==
    \/ ScanDir(p) \/ CopyDirEnds(p)
    \/ \E c \in Paths : SubmitChild(p, c)

Pool ==
    \/ \E t \in Tasks : StartTask(t) \/ HandleTaskDone(t)
    \/ \E p \in Paths : Removal(p) \/ FileCopy(p) \/ DirCopy(p)

Next == (\E new \in Manifests : Sync(new)) \/ Caller \/ Pool

\* The caller's thread and the pool's threads run; sync() may stay uncalled.
Spec == Init /\ [][Next]_vars /\ WF_vars(Caller) /\ WF_vars(Pool)
-----------------------------------------------------------------------------
TypeOK ==
    /\ phase \in {"idle", "submitting", "waiting", "sleeping", "closing"}
    /\ entries \in Manifests /\ currentShas \in Manifests
    /\ toRemove \subseteq Paths /\ toCopy \subseteq DOMAIN entries
    /\ remaining \in Nat
    /\ errors \subseteq Tasks /\ failed \subseteq Tasks
    /\ task \in [Tasks -> {"none", "queued", "returned", "done"} \cup Running]
    /\ scan \in [Paths -> SUBSET Paths]
    /\ dest \in [Paths -> Versions \cup {Absent, Directory, Torn}]
    /\ outcome \in {"none", "ok", "error"}
    /\ given \subseteq Paths \X Versions
    /\ syncs \in 0..MaxSyncs /\ faults \in 0..MaxFaults /\ tainted \in BOOLEAN

\* _remaining is the number of tasks whose function has not finished, the
\* children that _copy_dir submits from a pool thread included: it never drops
\* to zero, and never notifies, while a directory is still being scanned.
RemainingCountsTasks == remaining = Cardinality(Active)

\* sync() does not decide, nor return, while a task it submitted, directly or
\* through _copy_dir, can still touch the destination directory.
NoTaskOutlivesSync == phase \in {"closing", "idle"} => Active = {}

Expected(p) ==
    CASE p \in DOMAIN entries -> entries[p]
      [] p \notin DOMAIN entries /\ Parent[p] \in DOMAIN entries
            /\ p \in Source[Parent[p]][entries[Parent[p]]] -> entries[Parent[p]]
      [] OTHER -> Absent

Given(p) == \E g \in given : g[1] = p
\* Some manifest has p as a directory, or has a file in it.
WasDirectory(p) ==
    \E g \in given : Parent[g[1]] = p \/ (g[1] = p /\ p \notin Source[p][g[2]])
\* p has been an entry, and what it lies in has been one of another manifest.
GivenTwice(p) == Given(p) /\ Given(Parent[p])
\* A file that an earlier version of a directory had is not removed with it.
StaleChild(p) == Parent[p] \in DOMAIN entries

SyncReturned == phase = "idle" /\ outcome = "ok"

\* As long as no task ever raised, a sync that returns leaves every file of the
\* manifest with its content and removes every other one, whatever the order of
\* removals, copies and scans; except a file that was removed or copied with its
\* directory and also on its own, a file that is in the place of a directory,
\* and files left over inside a directory (see SyncMatchesEntries).
CleanSyncMirrors ==
    SyncReturned /\ ~tainted =>
        \A p \in Paths : \/ WasDirectory(p) \/ GivenTwice(p)
                         \/ Expected(p) = Absent /\ StaleChild(p)
                         \/ dest[p] = Expected(p)

\* A sync that was called returns or raises: the caller is notified, and the
\* pool never waits for a task it cannot start.
SyncTerminates == phase # "idle" ~> phase = "idle"

\* directory_syncer_test.py, test_errors_bubble_up: a sync one of whose tasks
\* raised raises.  Does not hold: _task_finished runs before the done callback.
ErrorsBubbleUp == SyncReturned => failed = {}

\* sphinx_build.py:167, "Synchronizes destdir to match entries": after a sync none
\* of whose tasks raised, the files of the manifest are there.  Does not hold: the
\* removal of a directory takes along the new file in it that was just copied.
SyncMatchesEntries ==
    SyncReturned /\ ~tainted =>
        \A p \in Paths : Expected(p) # Absent => dest[p] = Expected(p) \/ IsDir(p)
=============================================================================

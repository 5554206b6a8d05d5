# A verification project for rules_python

TLA+ models of the stateful parts of rules_python, TLC runs that check them on
small instances, and TLAPS proofs of what matters most for every instance.
Every definition is translated from the source; `PROJECT.json` ("map") names the
lines each one stands for, and lists components, runs, findings, hazards and
theorems.

## 1. Inventory

Most of the repository is Starlark that runs at analysis time: functions without
shared state. State that outlives a call, concurrency, failure and ordering live
in these places.

| Component | State | Operations and interactions | What is hard | What makes it correct |
|---|---|---|---|---|
| Precompiler workers, `tools/precompiler/precompiler.py` | serial: the request being processed; async: two dictionaries task/request id, the event loop's queue, compile threads | Bazel writes request and cancel lines to stdin, reads responses from stdout; `_compile` writes pycs | cancels racing with answers, callbacks and threads in any order, shared dictionary keys | one truthful answer per request; dictionaries follow the tasks; nobody forgotten |
| Sphinx build, `sphinxdocs/.../sphinx_build.py` | `DirectorySyncer`: remaining tasks, errors, remembered manifest; `Worker`: digests per source directory, syncers, output directories; below it doctrees and pages on disk | the worker calls `sync()` for each request, then Sphinx, perhaps twice, then copies the pages to the declared output; `sync()` runs removals and copies on a pool whose tasks submit further tasks | counter and condition across threads, failing copies, four memories of one directory, the retry, a new worker on an old directory | no task outlives `sync()`, errors surface, the directory mirrors the manifest, published pages are those of the request, the second attempt recovers |
| Sphinx domain, `sphinxdocs/.../sphinx_bzl/bzl.py` | four tables of objects in Sphinx's environment, a stack of objects while a document is read | directives add, `clear_doc` removes before a document is read again, `merge_domaindata` joins the tables of parallel readers, references look up | a document's objects must leave and enter all tables; objects move between documents and change their type | a declared object is found by every name it has; nothing else is, except what shares its own name with another object of its document |
| Release pipeline, `tools/private/release` and `.github/workflows` | tracking issues, main, release branches, tags, pull requests; each run has copies of all of them | comments and merged pull requests start runs (`on_comment.py`); runs read a whole body, edit it, write it back, pick, push, open pull requests and tag | no workflow has a `concurrency:` group, so runs overlap; every command may fail between two steps; maintainers edit the same body; pull requests are merged in any order | the checklist is true, tags and branch never move back, a final release was a candidate, a candidate is complete, the changelog loses nothing |
| PyPI cache and download, `python/private/pypi/pypi_cache.bzl`, `simpleapi_download.bzl` | pages in memory, facts collected, facts in the lockfile | each `pip.parse` of an evaluation asks for its packages through one shared cache; Bazel keeps the facts for the next evaluation | three places an answer may come from, partial knowledge, parallel downloads, indexes that change | requested versions are served, the lockfile stays small and sufficient, index order is kept unless a cached page overtakes a parallel download |
| Executables: `zipapp/zip_main_template.py`, `zip_shell_template.sh`, `stage1_bootstrap_template.sh`, `stage2_bootstrap_template.py`, `site_init_template.py` | the extraction directory, shared by all launches below `RULES_PYTHON_EXTRACT_ROOT`; the runfiles variables that processes inherit | a launch extracts, completes the venv, starts stage 2, which finds the runfiles and runs the program; programs launch programs | no lock: launches overlap and are killed; five places read and set the same variables | a program has the whole tree it was built with, and looks everything up in its own |
| Runfiles library, `python/runfiles/runfiles.py` | none after `Create()` | `Rlocation`, `EnvVars`, `Path` for the programs above | repository mapping with wildcards, directories listed as one line | the file the build meant is found, from whichever repository it is asked for |
| Zipapp tools, `tools/private/zipapp` | none | make the archive and the two hashes that name extraction directories | links, dangling links, several lines for one path | the archive determines what a launch extracts |
| Hub builder, `hub_builder.bzl` | whl libraries, exposed packages, groups per hub | one call per `pip.parse`, then `build()` | order of calls, duplicates, an intersection that starts over when it is empty | the hub does not depend on the order of calls |
| Python toolchains, `python.bzl` | toolchains, defaults and overrides of all modules | one pass over the modules, the root first | precedence, duplicates, late defaults | first definition wins, one default, overrides reach every toolchain |

Everything else (wheel libraries, wheel builder, rules and providers, gazelle
plugin, uv) is listed in `PROJECT.json` with the reason it is not modelled: pure
functions over strings, sequential I/O, or a program of its own.

## 2. Plan

Ordered by what goes wrong first and is tested least:

1. **Workers**: `WorkerProtocol` (abstract), `SerialWorker`, `AsyncWorker`. *Done.*
2. **DirectorySyncer**. *Done*, except `copytree()` and nested directories. **SphinxWorker** over
   **BzlDomain**: the worker's memories of one directory, the retry, the tables.
   *Done.*
3. **ReleasePipeline**: backports, candidates, promotion. *Done.*
   **ReleaseTracking** over **Changelog** over **ReleaseChecklist**: the phases
   before and after, through issues and pull requests. *Done.*
4. **PypiCache** and **SimpleapiDownload**, which instantiates it. *Done.*
5. **Bootstrap** over **Zipper** and **Runfiles**: launches that share a
   directory, environments that are passed on. *Done*, except the venv that stage 1
   makes anew.
6. **HubBuilder**: the accumulated hub against the abstract union/intersection of
   the calls, for every order of calls.
7. **PythonToolchains**: the fold over the modules against "first definition wins".
8. The concurrent parser of the gazelle plugin.

Abstract specifications worth stating: the worker protocol (both workers
implement it), later a "mirror" specification for `SphinxWorker` and a
"set of requirements" specification for `HubBuilder`.

The invariants of the runs are proved, or are about a fold over data (section 5); the
theorems worth proving next are those of the modules that the plan has left.

## 3. Modules

### WorkerProtocol (abstract, external)
`Ask`, `AskCancel`, `Respond`: at most one response to a request that was written,
and "wasCancelled" only to one that Bazel asked to cancel. The protocol is
Bazel's; this is what the code relies on.

### SerialWorker
`stdin` is the pipe, `current` the request in `run()`'s loop, `pycs[r]` the
iterations of `_compile`'s loop, `responses[r]` what was written. `GetNextRequest`
is `_get_next_request` together with the start of `_process_request`: a cancel
returns `None` and nothing is written; arguments that argparse rejects raise
`SystemExit`, which `except Exception` does not catch, so the worker ends.
`CompileOne`, `CompileError`, `CompileDone` are the loop and its two ends.

### AsyncWorker
`ready` is the event loop's queue of callbacks and a step is what runs between two
awaits. `RunMain` is `run()` from one `readline()` that suspends to the next: it
makes a task for *every* buffered line before any task starts. `StartCompile`,
`FinishCompile`, `ProcessCancel`, `HandleTaskDone` are the task's steps and its
done callback; `Thread` is `asyncio.to_thread(_compile)`. Of asyncio itself only
`Task.cancel`, the StreamReader and the order of callbacks are represented
(external). A thread's result takes two hops through the loop in CPython; the
model has one, because the hop in between changes no variable and the thread may
end later instead. `requestIdToTask` may lose an entry to a cancel of the same id,
as in the code.

### DirectorySyncer
The caller's thread (`phase`) submits removals, then copies, waits and closes the
pool; the pool runs at most `MaxWorkers` tasks. A task is queued, running,
returned (its `finally` has run `_task_finished`) and done (its future's callback
has run): these are two steps, since the pool runs the callbacks after the
function. While it runs, a task steps from one file-system operation to the next:
a removal looks what is there (`RemovePath`) and unlinks it (`UnlinkPath`), or lists
the directory and removes it file by file (`RemoveListed`, `RemoveDir`); a copy
makes the parent (`MakeParent`), copies (`CopyContent`) and changes the mode
(`ChangeMode`); `_copy_dir` makes the directory (`ScanDir`), submits one child per
step (`SubmitChild`) and ends. Each of these fails where what another task did makes
the call fail, and where an operating-system error (`Fault`) hits it; a copy
that fails may leave what it touches half done (`Torn`).

Nothing keeps removals and copies apart: `Parent` and `Source` let an entry be a file
in one manifest and a directory in another, or lie in an entry of another. Where a
removal and a copy meet on a path, the code promises nothing and loses files (run
`syncer_overlap`). `CleanSyncMirrors` says what it does promise: it leaves out the
paths for which that can happen in the history so far (`GivenTwice`,
`WasDirectory`), and files that an older version of a directory left in it
(`StaleChild`). There is one level of directories: a directory's files are
entries of `Source` and not directories themselves.

### ReleasePipeline
`issue` is the parsed body; `body[w]` the copy of run `w`. Each label of `pc[w]` is
a point between two effects on something shared, so two runs interleave wherever
the processes could; local computation is joined to the step before it. A
`Fault` is a command that fails, or the loss of a runner (`Crash`); a push may
report failure although the remote took it. The remote refuses a push that is not
a fast-forward and a tag that exists at another commit; pushing a tag again at the
commit it has succeeds. `ResolvePrs` joins the writes of one body per pull request
that cannot be picked; each may fail, and what the last one that succeeds has
marked is any subset of them. A backport picked again is an empty commit,
which git refuses, unless its pull request adds a news file: the first pick's news
merge deleted the file from the branch, so there is something to pick. `createRc`
continues a `processBackports` run only when that had no failure. `overlapped`
and `gated` (in `rcTags`) are history.

### ReleaseChecklist, Changelog, ReleaseTracking
`ReleaseChecklist` is the parsed body of a tracking issue and what
`release_issue.py` does to it; `Changelog` is a working tree (sections, how often
each lists a pull request's entry, files in `news/`, VERSION_NEXT markers) and what
`changelog_news.py`, `process_news.py` and the version functions do to it.
`ReleaseTracking` is everything between GitHub and the tools: `main` is a history of
trees, `pushed` the branches of the tools' pull requests with the commit they were
made from, `MergePr` a three-way merge (`Merge3`) that fails on a conflict, `events`
the workflows that merged pull requests will start. A job has the clone of the
moment it started (`tree`); each label of `pc` is a point between two calls to git
or GitHub, `WriteBody` the end that most commands share. `Die` is the loss of a
job or a failed call at any such point. `client` distinguishes `gh.py` from the
`mock_gh.py` of the tests where they answer differently: a search that may find
more than it was asked for, and a pull request's body, which `gh.py` does not
ask for. `ProcessBackports` is one step: `ReleasePipeline` has its own.

`Worlds` are the states a job may find: `WorldsAssumption` says what the tool,
used so far as it is meant to be, leaves behind, and TLC evaluates it for those of the
run. `Kept`, `Later`, `Edited` and `Honest` say what is right about a tree, two
commits of main, a branch of the tool, and a copy of a checklist; the assumption, the
properties and the invariants of the proof use the same four. `BranchIsPrepared` is
an action property, and speaks of the version that was prepared and not of the
issue's: the two may differ (section 6).

### BzlDomain and SphinxWorker
`BzlDomain` translates the directives of `bzl.py` as far as they make entries, and
the domain's tables: `AddObject`, `ClearDoc`, `MergeDomaindata`, `FindEntry`. Names
are records of repository, label and dotted path. `ReadDoc` runs a document's
directives in order with the stack of enclosing objects (docutils' part is
external). `SphinxWorker` holds `_digests`, the syncer's manifest, the directory and,
per output format, doctrees, pages and the declared output. `PrepareSphinx` is
everything before `sync()`, `SyncOk`/`SyncFails` are `DirectorySyncer` seen from
outside, `RunMain` is one call of Sphinx's main: which documents are outdated
(the extension's `changed_paths` and its toctree check included), clearing, reading
serially or in parallel, merging, saving, writing pages. Where Sphinx may
reasonably differ (parallel or serial, overlooking a change by timestamp), both
are allowed. A document's toctrees name documents or match them by patterns
(`GlobToctrees`): those with patterns are read again whenever a document comes or
goes, the others when one that they include is gone. A conflict of objects ends the
attempt with code 2; `Crash` is what the worker does then.

Two histories name what no digest shows. `upset` marks a worker whose sync failed,
whose removal of old directories failed (`CleanSlate`, and the doctrees before the
second attempt: `rmtree` ignores errors in both), or whose second attempt
failed after saving. `unreported` has the documents whose change was consumed
by a request that failed between the sync and Sphinx (`RequestInfoFails`): the digests
and the manifest have advanced, and the next request reports nothing.

### Zipper, Runfiles, Bootstrap
`Zipper` turns the lines of a manifest into the archive, a function from paths to
files and links, and into what the two hashes are made of (`ComputeInputsHash` has
no line of `__main__.py`, which holds that hash); `Runfiles` is the library, on
roots and paths. `Bootstrap` has processes: `Open` decides where to extract and
whether; `Look`, `Unlink`, `Write` and `Replace` are the system calls of
`extract_zip` for one entry, `Unzip` is one file of the preamble's unzip; `left` has
the paths that remain, `EntryPath` is the first of them, for an archive lists its
files in that order (`PathOrder`); `LookForPython`, `LinkPython`, `OpenPyvenvCfg`,
`WriteHome` are `finish_venv_setup`, which follows `Start`; `Start` and `Stage1` set
the environment for stage 2; `RunStage2` is stage 2 and site init up to the
program's code; `Spawn` is that code launching a program with its own environment or
that of `EnvVars()`; `Finish` removes a temporary directory; `Kill` may come at any
point. `disturbed` (another process changed the directory since) and `cut` (left
incomplete by an interruption that nothing repairs, or by a write through a link
that leads out of the archive, which takes a second launch at work there) are
history.
`Provides` is no part of the behaviour: it says what a build puts into a tree for a
program's code, and `RunfilesAssumption` asks it of the constants. A program in
`Modules` is started by importing its main module: stage 2 then takes any runfiles
directory of the environment that exists (`MainFromEnv`) and finds the module over the
import path (`MainFound`). `Ambiguous` are the directories that builds share although
their archives have other paths, because the hash leaves the type of a line out.
Every zipapp here has a venv, and the interpreter its link leads to exists.

### PypiCache and SimpleapiDownload
A page is a set of entries: packages (root page) or files with a version. Root
pages and package pages go through the same operators because `_filter_packages`,
`_get_from_facts` and `_store_facts` treat them alike. `PypiCache` holds the state
and the operations of the cache, `SimpleapiDownload` instantiates it and adds
the evaluation of the extension, `simpleapi_download`'s two phases and the indexes.
What a page's list becomes is a dictionary per kind of file, by digest
(`Dictionaries`, `SamePlace`): without digests one file hides another, and which one
stays is open, since the order of lists is not modelled; a wheel also hides an
sdist of the same digest when facts are stored (`Merged`). `ReadRoot` and `WaitRoot` are
the loop over the indexes: a cached root page is a result at once, and the loop goes on
while another is downloaded only if downloads are parallel; `ReadPage` and `WaitPage`
are the same for the packages. The order of `results` is what these steps make it.
`steady`, `asked`, `served`, `lockAsked`, `lockServed` and the field `cached` of a
result are history.

## 4. Runs

| Run | Question | Instance |
|---|---|---|
| `serial` | does the serial worker keep the protocol, answer truthfully, answer at all? | 3 requests (1 malformed), 2 files |
| `async` | the same for the asynchronous one, and do its dictionaries follow its tasks? | 3 requests (2 cancellable, 1 malformed), 1 file |
| `async_cancel` (violation) | "we assume the request that triggered cancelling sent the response" | 1 request |
| `syncer` | counter, completion, mirror, termination | a directory and 2 files in it; in 3 versions the directory has both, has one, is itself a file, or the files are entries of their own; 2 threads, 2 syncs, 1 error |
| `syncer_errors` (violation) | `test_errors_bubble_up` | the same, 1 sync |
| `syncer_overlap` (violation) | "Synchronizes destdir to match entries" (`sphinx_build.py:167`) | the same paths in 1 version, 2 syncs, no error |
| `sphinx` | does Sphinx see the request's sources, is what is published current, do tables and toctrees follow and hold nothing else, does the retry help? | 3 documents, two of which come and go, one in 3 versions with a toctree that matches by a pattern; 3 requests, 2 workers, 1 fault |
| `release` | is the checklist true, does anything published move, what do candidates and the final release contain, is each PR picked once and recorded? | 2 runs of 4 commands with 1 PR and 1 fault, or 3 runs of create-rc or promote with 2 PRs (1 with news), none closed unmerged, and no fault |
| `release_failed` (violation) | "Aborting." | 1 run, 2 PRs, 1 fault |
| `tracking` | does the changelog keep everything, is the checklist true, is a branch cut at a prepared commit and never moved back, one issue per version? | 3 launches of 11 commands, 2 at a time, 2 changes, 1 fault, starting before 2.1, after its branch was cut, with 2.0 and 2.1 out, or with an issue for 2.1.0 while main is to be 2.0.1 |
| `simpleapi` | are versions served, is the lockfile minimal and sufficient, does the first index provide? | 2 indexes, one without digests, 2 packages, 2 versions, an sdist and a wheel each, 3 evaluations of 2 calls, 2 changes, 1 override |
| `zipapp` | does a program have its whole tree, and look up in its own? | 3 launches, 2 at a time, 2 zipapps, 2 binaries, one of them started with a main module, 1 kill, one archive perhaps extracted before |

Every property of a passing run has a mutant: a changed definition of the model
(a dropped test, a lost update, a wrong order) under which TLC finds the property
violated.

### Why the bounds are enough
*Workers*: conflicts are between a request and its own cancel, and between the loop
and other requests; two cancellable requests and a third one give both, and every
order of the queue. One file is enough in the asynchronous run because `_compile`
runs on a thread that nothing interrupts; the serial run has two, so that an error
may come after a pyc. Malformed requests end the worker while others run.
*Syncer*: with two threads a directory can be scanned while its own children run
and another task ends; two syncs make the remembered manifest matter, and the
second one may remove, change or shrink what the first created, put a file in the
place of a directory or a directory in the place of files: removals then meet
copies on a path, and on the path of a directory. What `CleanSyncMirrors` leaves out
is about paths that have been both; two syncs are enough for that, too.
*Release*: a lost update needs two runs and one body; a third run lets two candidates
(`MaxRc` is 1: rc0 and rc1), or a candidate and its backports, race with promote, and
two PRs let one write of the body undo another's and the gate count one that is pushed
meanwhile. All of it at once is too large: the constraint `OneOrRacing` of
`MCReleasePipeline` keeps a behaviour while it has at most two runs and one PR (with a
fault, closed PRs and every command), or only create-rc, which begins with the
backports, and promote, no fault, no PR closed unmerged and at most one set to ignore.
The checklist starts empty or with both. `release_failed` needs two PRs and one run.
*Tracking*: a second preparation or sync made from an older commit needs two jobs
and a merge between them; two changes let a sync take one and leave the other. Each
initial world is one stage of a release, so three launches reach every command with
another beside it; the shorter worlds try the client of the tests and `gh.py`. In
`Moved` the issue and main disagree about the version, which takes two jobs to show.
*Sphinx*: three requests let a document come, change and go, or change there and
back; the document with a pattern stays while the one it matches comes or goes. The
versions move an object to another document, change its type and drop a
provider whose field another one shares, which is what `clear_doc` leaks. One output format: two formats share the
digests, see below. *Zipapp*: two builds share one directory name where their
hashes agree; two processes give every pair of steps, the kill an interrupted
extraction, the third launch one that finds what is left; a program in a program
needs two launches; a module to start needs one program.
*Download*: three evaluations let facts be written, used, written again from use,
and used again; two indexes decide order; requests overlap in package and version. The
first index gives no digests, so that an sdist and a wheel of it collide; the
second gives each file its own.

### Fairness
*SerialWorker*: weak fairness of the worker: one loop, always able to take its
step. *AsyncWorker*: weak fairness of the loop as a whole (it runs its queue in
order, so no callback can starve) and of each thread (the operating system
schedules it). *DirectorySyncer*: weak fairness of the caller and of the pool as a
whole: what runs in a sync is finite, so no task has to be favoured.
*ReleasePipeline*: weak fairness of each run that was started; the properties that
are checked of it are all safety. Bazel, pull
requests, maintainers, indexes and new runs are never assumed to act. Deadlock
checking is off because all these systems may stop: the worker exits, no sync or
run need be started, bounds are used up.

### What the violations show
1. *async_cancel*: a cancel's task takes the entry of the request it cancels in
   `_request_id_to_task` and cancels itself; the compile answers as well.
2. *syncer_errors*: `_task_finished` runs before the done callback stores the
   exception, so `sync()` can return as if nothing had failed and remember a
   manifest that was not copied.
3. *syncer_overlap*: a file is replaced by the directory it lies in. The directory
   and the file in it are copied, then the removal of the old entry unlinks the
   new file; nothing raises, and the manifest is recorded.
4. *release_failed*: the push of the first of two backports fails and does not
   arrive. There is nothing to abort, so its commit stays on the local branch; the
   checklist has it in error and asks for a manual pick. The second one is picked on
   top, and its push publishes both.

## 5. Proofs

TLAPS proves, for every value of the constants that satisfies the named
assumptions:

**SerialWorkerProofs.** `TypeCorrect`, `ResponsesAreTrue` and `Refinement`
(`Spec => ImplementsProtocol`). That a request is answered once cannot be seen from
a single state of `responses`: the invariant `IInv` adds `LinesInv` (a compile line
is in stdin at most once and only for a request that is untouched so far) and
`BusyInv` (the request being processed was asked and has no response). The
refinement then maps `SendCompile` to `Ask`, `SendCancel` to `AskCancel`,
`CompileError` and `CompileDone` to `Respond`, and all else to stuttering.

**ReleasePipelineProofs.** `TypeCorrect`, `ChecklistIsTrue`, `FinalIsCandidate`,
`RcIsComplete`, `PublishedIsKept`, for any number of runs, pull requests and faults.
The argument: the remote only grows (`NextGrows`: a push is a fast-forward, a tag is
new), so whatever was once true of it stays true. Hence every *copy* of the issue
body, however old, claims only what has happened (`TruthInv`), and writing an old
copy back may lose an edit but never invent one. A run marks something as done only
after it saw it happen (`RecordInv`), it picks from a list that is not empty
(`TodoInv`), and the commit it is about to tag has what it needs (`TagInv`: the
gate's backports for a candidate, equality with a candidate for a final release).
`IInv` is the conjunction of these with `TypeOK`; none of the properties is
inductive without them, because all of them speak about what a run remembers.
`BackportsOnce` is about runs that follow each other and whose commands work
(`Calm`): then at most one run is active, the branch in its clone is the remote's when
it picks, and nothing is on the branch without its mark except the pick that the run
is about to record (`OnceInv`). An error on the checklist is then of a pull request
that was closed, so that nobody has a pick to resolve by hand.

**DirectorySyncerProofs.** `TypeCorrect`, `CounterCounts`, `NoTaskOutlives` and
`CleanSyncIsMirror`, for any manifests with directories of one level, any threads and
syncs; the first three whatever fails. `CountInv` says that the counter is the
cardinality of the tasks that have not finished; the induction needs that they are
finitely many and that `_copy_dir` submits while its own task is still counted.
`OwnersInv` says what a task may be about: a copy about an entry of the manifest or a
file in one, a removal about an entry that the manifest does not have. This does not
keep them apart, since a removed entry may lie in a new one. `TreeInv` is about the
file system: whatever fails, a file is in a directory, and a directory is where some
manifest had one. `MirrorInv` is about the content, for the paths that are `Plain`:
always a file, and always an entry or always in one, its `Owner`. For the others the
statement is false, as the run `syncer_overlap` shows. If the sync does not touch the
owner, the path is as it should be; if it removes the owner, the removal is to come,
under way, or the path is absent (`RemovalInv`); if it copies the owner, the copy is to
come, in a scan that has not reached it, under way, or has put its content there
(`CopyInv`). The work is in what the *other* tasks do to the path meanwhile
(`OtherKept`, `RemovedKept`): removals of other entries, parents that are made,
directories that fail to be removed. When the pool is closed nothing is under way, and
only the last of each list is left (`CloseMirror`).

**AsyncWorkerProofs.** `TypeCorrect`, `ExitsAreTrue`, `TablesAreTrue`,
`IgnoredCancelIsLate`, `CompilesAreNeverCancelled` and `Refinement`, for any
requests, cancels and number of files. `LinesInv` says that a line is written once,
a cancel after its request, and that what is in the pipe or the buffer has no task
yet; `QueueInv` that a callback is queued once and that a compile that waits for its
thread is resumed only when the thread has ended. With these, `TablesInv`
(`_task_to_request_id` has exactly the tasks that have not run their done callback, and
an entry of `_request_id_to_task` leads to such a task with that id; a task need not
have one) and `ExitsInv` (an exit is there when the compile has finished, and is the
thread's) are inductive.
`NeverCancelled` is the surprising part: the cancel's own task replaces the entry of
the request it should cancel, so that `task.cancel()` is called on the cancel
itself, always. `CancelsInv` then gives `IgnoredCancelWasCompleted`. The refinement
is to the exits, without the answers to cancels: `FinishCompile` is `Respond`,
`SendCompile` is `Ask`, `SendCancel` is `AskCancel`, and all else stutters. It says that
no request *exits* twice; with the answers to cancels a request is answered twice,
which is what the run `async_cancel` shows.

**SimpleapiDownloadProofs.** `TypeCorrect`, `VersionsAreServed`, `LockIsOfTheAsked`,
`LockedNeedsNoNetwork` and `FirstIndexProvides`, for any indexes, requirements,
overrides and changes of the indexes. For the files of an index that gives each a
digest of its own (`Hashed`) nothing is hidden in the dictionaries (`ClearFacts`,
`DictionaryFacts`), and root pages have none to hide; about the files of an index
without digests the second and the fourth claim nothing, because there they do not
hold. `SteadyInv`: what has stayed on a page during the evaluation is in every copy that
was downloaded in it; `ServedInv` carries this to the pages a call has been given.
`AskedInv` and `FactsInv` bound the facts from both sides: they are about keys that
were asked for, and include all that was answered. `OrderInv` follows the loop over
`IndexUrls` by positions: what is still to be read comes after what was read or is being
downloaded, and results are in that order but for one exception, a cached page that
has overtaken a download, which takes parallel downloads. So the first result that
lists a package is of the first index that does, or of one that was cached while an
earlier one was downloaded. Places in the results are least elements of sets of
numbers (`NatMinimum`, the one use of `WellFoundedInduction` here).

**SphinxWorkerProofs.** `TypeCorrect`, `SphinxRunsOnInputs`, `PublishedIsRequested`
and `ToctreesAreCurrent`, for any documents, formats, requests, workers and faults.
The worker has four memories of one directory, and `SyncInv` says when they agree:
the digests with the request, the syncer's manifest with both from the end of the
sync on, the directory with the manifest unless a sync or a removal failed.
`TocInv` says of every environment, saved or not yet, that its toctrees include exactly
what they name or match among what was read (`Includes`); that rests on the
extension's treatment of patterns whenever a document comes or goes. `EnvInv` is the
heart: each document of Sphinx's environment is of the version in the digests, or
Sphinx will be told of it before it reads, or it is `unreported`; and no page shows
another version than the environment. It holds for a worker that had one output
format and no failed sync or removal (`Reliable`), which is when `PublishedIsCurrent`
promises anything. `NewEnvFacts` says what one call of Sphinx makes of such an
environment, whatever the directives do. `PublishInv` is what the two attempts leave to
be published.

**ReleaseTrackingProofs.** `TypeCorrect`, `NewsIsKept`, `ChecklistIsTrue`,
`PreparedBranches` and `OneIssue`, for any worlds, jobs, versions and changes. Main
only grows, and a later commit lists and announces no less than an earlier one
(`MainInv`). A branch of the tool is an edit of some commit of main, however old
(`PushedInv`), and merging an edit of an older commit loses nothing and lists
nothing twice: `MergedTree`, about the three-way merge item by item, is the lemma
that `NewsKept` rests on. Every copy of a checklist is honest (`BodiesInv`, and
`JobsInv` for the copies that jobs hold), because what it claims stays true when the
others move on (`HonestStays`, `JobStays`); `JobsInv` also lists, per place, what a
job relies on after its last step. `PullsInv` ties a merged pull request to a commit
that has its section, which is what a branch is cut at. `LookInv` keeps what a job
found missing missing until it creates it, as long as jobs have not overlapped: that
is what `OneIssuePerVersion` depends on and nothing else in the proofs does.

**BootstrapProofs.** `TreesInvHolds` and `WholeTreeHolds`, for any zipapps and
binaries, any number of launches that share a directory, any interleaving of their
system calls and any kills. The conclusion is about a process that nobody disturbed,
but what it relies on was written by others, so the invariant is about directories
first. `PlaceInv`: the temporary directory of a launch is its own, and a zipapp
extracts to `RootOf`. `TreeInv`: a directory that is neither `cut` nor `Ambiguous`
holds, for *every* archive that is extracted to it, no path that the archive or the venv has not, and
what `finish_venv_setup` adds is as it makes it, or somebody is just writing it; what
the preamble unzips is the archive, whole or in progress. It is needed of all
archives because equal hashes share a directory: `SameTree` shows that two builds
with equal archive hashes have the same archive, and two with equal input hashes,
which are over lines without their types, archives with the same paths unless the
directory is `Ambiguous`; of those nothing is claimed. `OwnInv`: what an undisturbed launch has extracted so far
is there with the content of its archive, since it unlinks before it writes and so
never writes through a link of an earlier extraction. `Frame` is what a step of one
process leaves to the others. At `run` nothing is left to extract, the directory has
no other paths, and `WholeTree` follows.

`FoundInvHolds` and `OwnRunfilesHolds`, for any programs, any chains of launches, any
runfiles trees, import paths and repository mappings. `FoundInv` is what a program
may inherit and still rely on: at `run` its environment and its import path name the
root it runs from (a program that is started with a module takes any existing root that
the environment names, `MainFromEnv`), and the root of a binary holds the stage 2 of that binary, because
stage 1 checks it and `Frame` keeps it while nobody disturbs. That the tree then has
the *rest* of what the program asks for is a fact about builds (`RunfilesAssumption`);
for an extracted tree it carries over from the archive by `WholeTree`, of the program
itself or of the zipapp that still runs there. What is left is the library:
`ManifestLocations` shows that looking a path up in a manifest finds the file of the
directory, although the manifest lists a tree artifact as one line; `LookupFacts`
that the mapping's exact lines and its prefixes give the canonical name that the
build meant; `AskedFacts` follows a path through `Join`, the mapping and the strategy
to its file, for the directory and for the manifest.

Each of these invariants was checked by TLC on the instance of its run before it was
proved.

### Assumptions
All are named in the modules that declare the constants, and TLC evaluates them in
the runs above. *Workers*: `RequestsAssumption`, `FilesAssumption`. *Syncer*:
`PathsAssumption` (finitely many paths, one level of directories), `SourceAssumption`
(an entry is itself or a directory of files in it), `ContentsAssumption` (a digest is
not one of the marks for what has none), `BoundsAssumption`. *Sphinx*:
`SourcesAssumption` (a request has a document: Sphinx's configuration names one),
`FormatsAssumption`, `WorkerBounds`. *Download*: `IndexUrlsAssumption` (an index is
listed once), `RequestsAssumption`, `OverridesAssumption`, `PackagesAssumption` (the
root page is not a package), `FilesAssumption` (a URL is one distribution for all
indexes and times), `PublishedAssumption`, `BoundsAssumption`. *Release*:
`PRsAssumption` (pull requests are numbers, in merge order), `BoundsAssumption`,
`CommandsAssumption`; `WorldsAssumption`, `VersionsAssumption`, `TrackingBounds`.
*Zipapp*: `PathOrderAssumption`, `DiskAssumption`, `ProgramsAssumption` (names of
programs are different, and `pyvenv.cfg` is not the venv's interpreter),
`LinesAssumption` (an archive has one `__main__.py`, as `py_zipapp_rule.bzl` writes
its manifest, and `PathOrder` has its paths), `RunfilesAssumption`. The last one says what
a build puts into a tree: a zipapp's archive has the files that the zipapp asks for;
the tree of a binary has its stage 2; a tree that has the stage 2 of a binary was
built with it as a data dependency, which is what stage 1 takes the file for
(`stage1_bootstrap_template.sh:97-99`), and so has its files too; and the
`_repo_mapping` there, if any, has the canonical names that those files are stored
under. It says nothing of which tree a program uses, of manifests or of the
environment. `StringsAssumption` is about strings alone: the provers do not know that
a literal is in STRING.
`WorldsAssumption` asks of a world what the proofs show every step to keep; a repository
in which the tool has not run yet (no issue, no pull request, no branch of the tool)
meets it if each change on main is either in `news/` or listed, and at most once in a
section.

### Only model-checked
All liveness (`EveryRequestAnswered`, `SyncTerminates`): fairness and
ENABLED are out of the prover's reach. `DeclaredIsFound`, `OnlyDeclaredIsFound`
and `RetryHeals`: they say what folds over the directives of all documents compute, which is induction over
data. There are no RECURSIVE operators.

## 6. Seen while modelling, and left out of a property

Where the code and a text of the repository disagree, or a property would be false,
and no run of its own shows it. All of it is modelled as the code is.

* `promote.py:87` reads the checklist and not its backports; RELEASING.md:105-107
  says that an open backport blocks promoting. `create_rc.py:86-99` does gate.
* `process_backports.py:324`: a line set to `status=ignore` that is not checked is still
  picked once its pull request is merged, although create-rc no longer waits for it.
* `simpleapi_download.bzl:164-170`: a root page from the cache is a result at once, one
  that is downloaded in parallel, the default (30), only after the loop. So an index
  that comes later provides a package that both list if its page was cached and that
  of the earlier one was not, although the docstring says "in the order they are
  defined and the first match wins" (47-48). `FirstIndexWinsUnlessCached` states this
  case as the only exception.
* `zip_main_maker.py:36-37` hashes of a manifest line what follows its type, and the
  type says where the file goes: builds that differ in the types of lines only share a
  directory below `RULES_PYTHON_EXTRACT_ROOT`, which docs/environment-variables.md:62
  calls "a unique, reusable, location", and one finds the files of the other there.
  `WholeTree` and `OwnRunfiles` claim nothing of such a directory (`Ambiguous`); the run
  `zipapp` has none, the theorems cover any archives.
* `pypi_cache.bzl:344`: sdists and wheels are dictionaries by digest, which is "" for
  every file of an index that gives none (`parse_simpleapi_html.bzl:147-150`), so one
  file hides another: a requested version may not be served, and what is locked may be
  downloaded again. `VersionsServed` and `LockedIsOffline` speak of indexes with
  digests.
* `gh.py:736`: `get_pr_info` does not ask GitHub for the body, and
  `complete_prepare.py:52` and `complete_sync_changelog.py:41` look for the tracking
  issue in it. A run that is started by the merge of a pull request, as RELEASING.md:29-34
  has it, ends there; with the client of the tests it goes on.
* `sphinx_build.py:371`: digests are remembered before the sync; after one that
  failed, Sphinx is told that nothing changed. The same when the request info cannot
  be written (402-403) after a sync that succeeded: the next request reports
  nothing, and may publish a stale page (`unreported`). The same digests serve every
  output format, so a second format of the same sources is not told of changes that
  the first one consumed.
* `sphinx_build.py:215,229`: `copy2` into what is still a directory, and `mkdir` where
  there is still a file: an entry that changes its kind between two syncs fails or
  mirrors something else; and files that an earlier version of a directory had stay
  in it. `CleanSyncMirrors` leaves both out.
* `bzl.py:1799`: `doc_names` has one object per last name of a document. Where several
  share it, the name alone leads to one of them, and `clear_doc`, which goes by this
  table, leaves the others in the domain's tables for good. `DeclaredIsFound` and
  `OnlyDeclaredIsFound` say so.
* `zip_shell_template.sh:40`: `__main__.py` is the test for a finished extraction and
  the first file of the archive, so an extraction that is cut short stays
  incomplete for every later launch; `zip_main_template.py:316-324`: the same for an
  empty `pyvenv.cfg`. docs/environment-variables.md:64-66 promises a reusable location.
* `zip_main_template.py:180-209` extracts over a directory that another program may
  be running from.
* `RUNFILES_MANIFEST_FILE` of another tree is cleared neither by the zip entries
  (`zip_main_template.py:352,383`, `zip_shell_template.sh:56`) nor by stage 1 (:124),
  which all set `RUNFILES_DIR`; `stage2_bootstrap_template.py:245-247` prefers it.
* `zip_main_template.py:282-289` removes a temporary directory although a program
  that was started from it in the background may still run.
* `prepare.py:52-54` takes the version from main's markers and the tags, whatever issue
  it is given, and `create_release_branch.py:43-56` the branch from the issue's title
  and the commit from its checklist. An issue opened for 2.1.0, whose change then went
  into 2.0.1, gets `release/2.1` at a commit prepared as 2.0.1. `BranchIsPrepared`
  therefore speaks of the version that was prepared; the world `Moved` has the case.

## 7. Not modelled, and why

*In modelled components.* `DirectorySyncer.copytree()`; nested directories of a tree;
`--dry-run`, comments, reactions, reviewers and labels of the release tools; the
text of changelog entries; `ReleasePipeline` has no sync-changelog lines and no
auto-discovered issue (`ReleaseTracking` has); a malformed issue body (the tools stop with an error);
credentials, URL normalisation, `envsubst`, the HTML parser and a Bazel without
facts in the download. A worker line that is not JSON: the serial worker answers it
with id 0, the asynchronous one ends. Rendering, indices and search files of the
Sphinx domain; the arguments of Sphinx. In the bootstrap: coverage collection in
stage 2, `_add_site_packages`, Windows paths and its copies for links, the
`system_python` bootstrap and zipapps without a venv (`zip_main_template.py:369-374`),
the replacement of a dangling interpreter link (306-307), the venv that stage 1 makes
anew, and the methods of
`runfiles.Path` that delegate to pathlib.

*Known and left open.* What a sync after a failed one repairs; files left over
inside a directory; the order of candidates' commits; the duplicate changelog entry of a
repeated pick on a branch; a page that changes within an evaluation; what follows a
failed sync or an extraction that was cut short. Each is a hazard in
`PROJECT.json` with its line and its reason.

*Components.* See section 1, the plan, and `PROJECT.json`.

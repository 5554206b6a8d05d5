---------------------------- MODULE SphinxWorker ----------------------------
(* sphinxdocs/private/sphinx_build.py, Worker and BazelWorkerExtension: a     *)
(* persistent worker that keeps, for one source directory, the digests of the *)
(* last request, a synchronised copy of the sources, and, for each output     *)
(* format, Sphinx's doctrees and pages.  sync() is DirectorySyncer seen from  *)
(* outside; what sphinx.cmd.build.main does is external; the domain tables in *)
(* its environment are those of BzlDomain.                                    *)
EXTENDS BzlDomain, FiniteSets

CONSTANTS
    DocOrder,       \* the documents, in the order in which Sphinx reads them
    Versions,       \* digests a document may have
    Content(_, _),  \* directives of a version of a document
    Lists(_),       \* documents that the toctrees of a document name or match
    GlobToctrees,   \* documents whose toctrees match names by patterns
    Sources,        \* manifests Bazel may send
    Formats,        \* output formats, each built by its own action
    MaxRequests, MaxWorkers, MaxFaults   \* bounds

Docs == Range(DocOrder)
Absent == "absent"
Torn == "torn"        \* a copy that failed half way
Contents == Versions \cup {Absent, Torn}

\* The digests of a request are never empty: the code has those of conf.py, the
\* model a document.
ASSUME SourcesAssumption ==
    /\ Sources \subseteq [Docs -> Versions \cup {Absent}]
    /\ \A inputs \in Sources : \E d \in Docs : inputs[d] # Absent
ASSUME FormatsAssumption == Formats # {}
ASSUME WorkerBounds ==
    MaxRequests \in Nat /\ MaxWorkers \in Nat /\ MaxFaults \in Nat

Nothing == [d \in Docs |-> Absent]
Kept(of, stays) == [d \in Docs |-> IF d \in stays THEN of[d] ELSE Absent]
\* An environment that was pickled: the version of each document that was
\* read, the documents its toctrees include, and the domain's tables.
NoEnv == [read |-> Nothing, toc |-> [d \in Docs |-> {}], data |-> NoObjects]

VARIABLES
    phase,         \* where the worker's loop is
    request,       \* the request being processed, or the last one
    digests,       \* _digests[srcdir]
    shas,          \* the syncer's _current_shas
    changedPaths,  \* the extension's changed_paths
    outdirs,       \* _worker_outdirs, by format
    dest,          \* the copy of the sources, {srcdir}.worker-in.d
    doctrees,      \* [Formats -> environment below --doctree-dir]
    pages,         \* [Formats -> version shown by each page of .worker-out.d]
    published,     \* [Formats -> the same for the declared output]
    response,      \* to the last request
    upset,         \* history: a failure left something behind that no digest shows
    unreported,    \* history: documents whose change no run of Sphinx was told of
    requests, workers, faults

memory == <<digests, shas, changedPaths, outdirs>>
disk == <<dest, doctrees, pages, published>>
counters == <<requests, workers, faults>>
vars == <<phase, request, memory, disk, response, upset, unreported, counters>>

NoResponse == [exit |-> "none", faulted |-> FALSE]
Fmt == request.fmt
Inputs == request.inputs

Init ==
    /\ phase = "down"
    /\ request = [fmt |-> CHOOSE f \in Formats : TRUE, inputs |-> Nothing]
    /\ digests = Nothing /\ shas = Nothing /\ changedPaths = {} /\ outdirs = {}
    /\ dest = Nothing
    /\ doctrees = [f \in Formats |-> NoEnv]
    /\ pages = [f \in Formats |-> Nothing]
    /\ published = [f \in Formats |-> Nothing]
    /\ response = NoResponse /\ upset = FALSE /\ unreported = {}
    /\ requests = 0 /\ workers = 0 /\ faults = 0

-----------------------------------------------------------------------------
(* The process: memory begins empty, directories are those of the last one *)

Start ==
    /\ phase = "down" /\ workers < MaxWorkers
    /\ phase' = "idle" /\ workers' = workers + 1
    /\ digests' = Nothing /\ shas' = Nothing /\ changedPaths' = {} /\ outdirs' = {}
    /\ response' = NoResponse
    /\ UNCHANGED <<request, disk, upset, unreported, requests, faults>>

Kill ==
    /\ phase # "down"
    /\ phase' = "down" /\ response' = NoResponse
    /\ UNCHANGED <<request, memory, disk, upset, unreported, counters>>

\* End of stdin: __exit__ removes the output directories, not the doctrees.
Exit ==
    /\ phase = "idle"
    /\ phase' = "down" /\ response' = NoResponse
    /\ pages' = [f \in Formats |-> IF f \in outdirs THEN Nothing ELSE pages[f]]
    /\ UNCHANGED <<request, memory, dest, doctrees, published, upset, unreported,
                   counters>>

-----------------------------------------------------------------------------
(* _process_request *)

\* Mutant: only new documents are reported.
OnlyNew(inputs) == {d \in Docs : inputs[d] # Absent /\ digests[d] = Absent}

NewOrChanged(inputs) ==
    {d \in Docs : inputs[d] # Absent /\ inputs[d] # digests[d]}

Fault == faults < MaxFaults /\ faults' = faults + 1

\* Mutant: the copy that an earlier worker left is kept.
CleanOutput(fmt) ==
    /\ doctrees' = [doctrees EXCEPT ![fmt] = NoEnv]
    /\ pages' = [pages EXCEPT ![fmt] = Nothing]
    /\ upset' = FALSE
    /\ UNCHANGED <<dest, faults>>

\* The directories are removed; errors are ignored, so that a failing removal
\* leaves some of what an earlier worker had there.
CleanSlate(fmt) ==
    \/ /\ dest' = Nothing
       /\ doctrees' = [doctrees EXCEPT ![fmt] = NoEnv]
       /\ pages' = [pages EXCEPT ![fmt] = Nothing]
       /\ upset' = FALSE /\ UNCHANGED faults
    \/ /\ Fault /\ upset' = TRUE
       /\ \E stays \in SUBSET Docs : dest' = Kept(dest, stays)
       /\ \/ UNCHANGED doctrees
          \/ doctrees' = [doctrees EXCEPT ![fmt] = NoEnv]
       /\ \E stays \in SUBSET Docs : pages' = [pages EXCEPT ![fmt] = Kept(@, stays)]

\* _prepare_sphinx up to sync(): the first request of a worker that knows no
\* digest starts from a clean slate.  Bazel has emptied the declared output.
PrepareSphinx(fmt, inputs) ==
    LET first == digests = Nothing IN
    /\ phase = "idle" /\ requests < MaxRequests
    /\ requests' = requests + 1
    /\ request' = [fmt |-> fmt, inputs |-> inputs]
    /\ response' = NoResponse
    /\ digests' = inputs
    /\ changedPaths' = NewOrChanged(inputs)
    /\ outdirs' = outdirs \cup {fmt}
    /\ IF first THEN CleanSlate(fmt) ELSE UNCHANGED <<dest, doctrees, pages, upset, faults>>
    /\ published' = [published EXCEPT ![fmt] = Nothing]
    /\ unreported' = IF first THEN {} ELSE unreported \ NewOrChanged(inputs)
    /\ phase' = "syncing"
    /\ UNCHANGED <<shas, workers>>

Respond(exit, faulted) ==
    /\ phase' = "idle"
    /\ response' = [exit |-> exit, faulted |-> faulted]

\* What sync() removes or copies.
Stale == {d \in Docs : shas[d] # Inputs[d]}

\* Mutant: the syncer remembers what it finds on disk.
SyncOkFromDisk ==
    /\ phase = "syncing"
    /\ dest' = [d \in Docs |-> IF d \in Stale THEN Inputs[d] ELSE dest[d]]
    /\ shas' = dest'
    /\ phase' = "main"
    /\ UNCHANGED <<request, digests, changedPaths, outdirs, doctrees, pages,
                   published, response, upset, unreported, counters>>

SyncOk ==
    /\ phase = "syncing"
    /\ dest' = [d \in Docs |-> IF d \in Stale THEN Inputs[d] ELSE dest[d]]
    /\ shas' = Inputs
    /\ phase' = "main"
    /\ UNCHANGED <<request, digests, changedPaths, outdirs, doctrees, pages,
                   published, response, upset, unreported, counters>>

\* A task of sync() fails: any of its paths may be done, torn or untouched.  It
\* raises, or returns as if nothing had failed (see DirectorySyncer).
SyncFails ==
    /\ phase = "syncing" /\ Stale # {}
    /\ Fault
    /\ \E left \in [Stale -> {"before", "after", "torn"}] :
          dest' = [d \in Docs |-> IF d \notin Stale \/ left[d] = "before" THEN dest[d]
                                  ELSE IF left[d] = "torn" THEN Torn ELSE Inputs[d]]
    /\ upset' = TRUE
    /\ \/ Respond("unhandled", TRUE) /\ UNCHANGED shas
       \/ shas' = Inputs /\ phase' = "main" /\ UNCHANGED response
    /\ UNCHANGED <<request, digests, changedPaths, outdirs, doctrees, pages,
                   published, unreported, requests, workers>>

\* The file with what changed cannot be written to the copy: Sphinx does not run,
\* but the digests and the syncer's manifest are those of the request.
RequestInfoFails ==
    /\ phase = "main" /\ Fault
    /\ unreported' = unreported \cup changedPaths
    /\ Respond("unhandled", TRUE)
    /\ UNCHANGED <<request, memory, disk, upset, requests, workers>>

-----------------------------------------------------------------------------
(* sphinx.cmd.build.main *)

Env == doctrees[Fmt]
Found == {d \in Docs : dest[d] # Absent}
Known == {d \in Docs : Env.read[d] # Absent}

\* Mutant: documents with patterns are not read again when documents come.
WithoutGlobs(added, removed) ==
    changedPaths \cup {d \in Known : Env.toc[d] \cap removed # {}}

\* The extension: documents reported as changed, and, when documents came or
\* went, those with patterns in their toctrees and those whose toctrees include
\* one that is gone.
HandleEnvGetOutdated(added, removed) ==
    changedPaths \cup
    (IF added \cup removed = {} THEN {}
     ELSE {d \in Known : d \in GlobToctrees \/ Env.toc[d] \cap removed # {}})

\* Sphinx's own judgement: documents that are new, those whose change it sees
\* by their time stamps, and those that once named a document it did not find;
\* what Sphinx itself does about patterns is not relied on.
Outdated(noticed) ==
    LET added == Found \ Known
        unresolved == {d \in Known \ GlobToctrees : Env.toc[d] # Lists(d)}
    IN added \cup noticed \cup (unresolved \cap Found)
       \cup (HandleEnvGetOutdated(added, Known \ Found) \cap Found)

MayNotice == SUBSET {d \in Found \cap Known : Env.read[d] # dest[d]}

Directives(d) == IF dest[d] \in Versions THEN Content(d, dest[d]) ELSE <<>>
InOrder(set) == SelectSeq(DocOrder, LAMBDA d : d \in set)
Cleared(data, set) == FoldLeft(ClearDoc, data, InOrder(set))

\* One process clears and reads the documents one after the other.
ReadSerial(data, outdated) ==
    FoldLeft(LAMBDA read, d :
                ReadDoc([read EXCEPT !.data = ClearDoc(@, d)], d, Directives(d)),
             [data |-> data, failed |-> FALSE], InOrder(outdated))

\* All are cleared, then each process reads its own from what it has seen at
\* the fork; the results are merged in the order in which they come.
ReadParallel(data, outdated, order) ==
    LET base == Cleared(data, outdated)
        child(d) == ReadDoc([data |-> base, failed |-> FALSE], d, Directives(d))
        mine == SelectSeq(order, LAMBDA d : d \in outdated)
    IN [data |-> FoldLeft(LAMBDA x, d : MergeDomaindata(x, child(d).data), base, mine),
        failed |-> \E d \in outdated : child(d).failed]

\* The environment after reading.
NewEnv(outdated, data) ==
    [read |-> [d \in Docs |-> IF d \in outdated THEN dest[d]
                              ELSE IF d \in Found THEN Env.read[d] ELSE Absent],
     toc |-> [d \in Docs |-> IF d \in outdated THEN Lists(d) \cap Found
                             ELSE IF d \in Found THEN Env.toc[d] ELSE {}],
     data |-> data]

ReadResults(outdated) ==
    LET kept == Cleared(Env.data, Known \ Found) IN
    {ReadSerial(kept, outdated)} \cup
    {ReadParallel(kept, outdated, order) : order \in {DocOrder, Reverse(DocOrder)}}

\* Pages of documents that were read, those that are missing and those that
\* look old are written; nothing removes the page of a document that is gone.
WritePages(env, outdated) ==
    LET missing == {d \in Found : pages[Fmt][d] = Absent}
        differing == {d \in Found : pages[Fmt][d] # env.read[d]}
    IN \E looksOld \in SUBSET (differing \ (outdated \cup missing)) :
          pages' = [pages EXCEPT ![Fmt] = [d \in Docs |->
              IF d \in outdated \cup missing \cup looksOld THEN env.read[d] ELSE @[d]]]

\* An exception after the environment was saved: some pages are written.
WriteSomePages(env) ==
    \E written \in SUBSET Found :
        pages' = [pages EXCEPT ![Fmt] = [d \in Docs |->
                      IF d \in written THEN env.read[d] ELSE @[d]]]

InMain == phase \in {"main", "retry"}
Save(env) == doctrees' = [doctrees EXCEPT ![Fmt] = env]

Faults(n) == faults + n =< MaxFaults /\ faults' = faults + n

\* Mutant: the second attempt starts from the same doctrees.
CrashKeepingDoctrees(env, n) ==
    /\ Save(env) /\ Faults(n)
    /\ IF phase = "main" THEN phase' = "retry" /\ UNCHANGED <<response, upset>>
       ELSE Respond("crashed", n > 0) /\ upset' = (upset \/ env # Env)

\* Exit code 2, because of n faults: the first time the doctrees are removed,
\* unless that fails, for a second attempt with the same changed paths; the
\* second time the request fails.
Crash(env, n) ==
    IF phase = "main"
    THEN /\ phase' = "retry" /\ UNCHANGED response
         /\ \/ Save(NoEnv) /\ Faults(n) /\ UNCHANGED upset
            \/ Save(env) /\ Faults(n + 1) /\ upset' = TRUE
    ELSE /\ Save(env) /\ Faults(n)
         /\ Respond("crashed", n > 0)
         /\ upset' = (upset \/ env # Env)

\* main() from reading to its exit code; 0 goes on to copy the output.
RunMain ==
    /\ InMain
    /\ \E noticed \in MayNotice :
       LET outdated == Outdated(noticed) IN
       \E read \in ReadResults(outdated) :
       LET env == NewEnv(outdated, read.data) IN
       IF read.failed
       THEN Crash(Env, 0) /\ UNCHANGED <<pages, unreported>>
       ELSE \/ /\ Save(env) /\ WritePages(env, outdated)
               /\ unreported' = unreported \ outdated
               /\ \/ phase' = "publishing" /\ UNCHANGED <<response, faults>>
                  \/ Fault /\ Respond("warned", TRUE)      \* exit code 1
               /\ UNCHANGED upset
            \/ WriteSomePages(env) /\ Crash(env, 1) /\ UNCHANGED unreported
    /\ UNCHANGED <<request, memory, dest, published, requests, workers>>

\* An exception before the environment was saved.
MainCrashes ==
    /\ InMain
    /\ Crash(Env, 1)
    /\ UNCHANGED <<request, memory, dest, pages, published, unreported, requests,
                   workers>>

\* copytree of the worker's output into the declared one, and the response.
Publish ==
    /\ phase = "publishing"
    /\ \/ /\ published' = [published EXCEPT ![Fmt] = pages[Fmt]]
          /\ Respond("ok", FALSE) /\ UNCHANGED faults
       \/ /\ Fault
          /\ \E some \in SUBSET Docs :
                published' = [published EXCEPT ![Fmt] = [d \in Docs |->
                                  IF d \in some THEN pages[Fmt][d] ELSE @[d]]]
          /\ Respond("unhandled", TRUE)
    /\ UNCHANGED <<request, memory, dest, doctrees, pages, upset, unreported, requests,
                   workers>>

Next ==
    \/ Start \/ Kill \/ Exit
    \/ \E f \in Formats, inputs \in Sources : PrepareSphinx(f, inputs)
    \/ SyncOk \/ SyncFails \/ RequestInfoFails \/ RunMain \/ MainCrashes \/ Publish

Spec == Init /\ [][Next]_vars
-----------------------------------------------------------------------------
TypeOK ==
    /\ phase \in {"down", "idle", "syncing", "main", "retry", "publishing"}
    /\ request \in [fmt : Formats, inputs : Sources \cup {Nothing}]
    /\ digests \in Sources \cup {Nothing} /\ shas \in Sources \cup {Nothing}
    /\ changedPaths \subseteq Docs /\ outdirs \subseteq Formats
    /\ dest \in [Docs -> Contents]
    /\ \A f \in Formats :
          /\ doctrees[f].read \in [Docs -> Contents]
          /\ doctrees[f].toc \in [Docs -> SUBSET Docs]
          /\ pages[f] \in [Docs -> Contents] /\ published[f] \in [Docs -> Contents]
    /\ response.exit \in {"none", "ok", "warned", "crashed", "unhandled"}
    /\ upset \in BOOLEAN /\ response.faulted \in BOOLEAN /\ unreported \subseteq Docs
    /\ requests \in 0..MaxRequests /\ workers \in 0..MaxWorkers
    /\ faults \in 0..MaxFaults

\* Sphinx runs, the second time too, on exactly the inputs of the request,
\* unless a sync of this worker or a removal before it failed: the first
\* request's removal, the syncer's memory and the directory agree.
SphinxSeesInputs == InMain /\ ~upset => dest = Inputs

Answered == phase = "idle" /\ response.exit = "ok"

\* A request that succeeds has, for every document, the page of the version in
\* the request, although Sphinx may overlook changes, attempts may crash and
\* be repeated, and pages are kept.  Not promised: once a sync or a removal of
\* this worker failed or a second attempt crashed after saving; to a second
\* format of the same sources; and for documents whose last change came with a
\* request that failed between the sync and Sphinx, until Sphinx reads them: the
\* worker holds that change for known, and a stale page may be published.
PublishedIsCurrent ==
    Answered /\ ~upset /\ outdirs = {Fmt} =>
        \A d \in Docs \ unreported : Inputs[d] # Absent => published[Fmt][d] = Inputs[d]

\* After a request that succeeds, toctrees include what they name or match as
\* far as it exists: documents that came, or came back, and none that is gone.
TocIsCurrent ==
    Answered => \A d \in Known : Env.toc[d] = Lists(d) \cap Found

\* An object of a document that was read is found by its full name and role,
\* by its name without the repository, and a flag with dashes, after any sequence
\* of serial and parallel incremental builds; references lead to the document that
\* declares it.  From within that document its own name leads to an object of the
\* document with that name: where several share it, to one of them.
DeclaredIsFound ==
    ~upset /\ outdirs = {Fmt} =>
        \A d \in Docs : Env.read[d] \in Versions =>
        LET declared == Declared(d, Content(d, Env.read[d])) IN
        \A e \in declared :
            /\ e \in Index(Env.data) /\ e \in Env.data.byType
            /\ FindEntry(Env.data, d, Xref("obj", e.id)) = {e}
            /\ ResolveXref(Env.data, "", Xref("obj", Name(<<>>, e.id.label, e.id.path))) = {d}
            /\ e.type = "flag" => FindEntry(Env.data, "", DashedXref(e.id)) = {e}
            /\ \E x \in declared :
                  /\ BaseName(x.id) = BaseName(e.id)
                  /\ FindEntry(Env.data, d, Xref("obj", Short(<<BaseName(e.id)>>))) = {x}

\* The domain's tables, the index page and the names references go by have only
\* objects of documents as they were last read.  Excepted are objects that share
\* their own name with another object of their document: clear_doc knows one of
\* them only, and the others stay.
OnlyDeclaredIsFound ==
    \A f \in Formats :
    LET env == doctrees[f]
        entries == Index(env.data) \cup env.data.byType \cup env.data.docNames
                   \cup {p.entry : p \in env.data.altNames}
        namesakes(x, v) == {e \in Declared(x.doc, Content(x.doc, v)) :
                                BaseName(e.id) = BaseName(x.id)}
    IN \A x \in entries :
          \/ /\ env.read[x.doc] \in Versions
             /\ x \in Declared(x.doc, Content(x.doc, env.read[x.doc]))
          \/ \E v \in Versions : x \in namesakes(x, v) /\ namesakes(x, v) # {x}

\* A request fails with Sphinx's exit code 2 only if something outside the
\* tables failed: whatever an incremental build trips over (an object that
\* changed its type or moved to another document), the second attempt does not.
\* A failed sync or removal may leave an object in two documents.
RetryHeals == response.exit = "crashed" /\ ~upset => response.faulted
=============================================================================

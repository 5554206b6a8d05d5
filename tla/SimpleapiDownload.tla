-------------------------- MODULE SimpleapiDownload --------------------------
(* python/private/pypi/simpleapi_download.bzl, as the pip extension uses it: *)
(* in one evaluation each pip.parse asks for the files of its requirements,  *)
(* with one cache for all of them; evaluations follow one another, with the  *)
(* lockfile between them and the indexes changing behind their back.         *)
EXTENDS Naturals, Sequences, SequencesExt

CONSTANTS
    IndexUrls,     \* the indexes, in the order they are looked at
    Packages, Versions,
    Files,         \* distributions: [key (version), url, kind, digest]
    MayList,       \* [IndexUrls -> files it may list for a package]
    Requests,      \* the requirements of a pip.parse: [subset of Packages ->
                   \* versions]
    Overrides,     \* what a pip.parse may give as index_url_overrides: [subset
                   \* of Packages -> index]
    Published,     \* [IndexUrls -> [Packages -> files]] at the start
    MaxEvaluations, MaxCalls, MaxChanges  \* bounds

\* A URL that is listed twice is one key of the dictionaries.
ASSUME IndexUrlsAssumption ==
    IndexUrls \in Seq(STRING) /\ IndexUrls # <<>> /\ IsInjective(IndexUrls)
ASSUME RequestsAssumption ==
    \A s \in Requests : DOMAIN s \subseteq Packages /\ DOMAIN s # {}
        /\ \A p \in DOMAIN s : s[p] \subseteq Versions /\ s[p] # {}
ASSUME OverridesAssumption ==
    \A o \in Overrides : DOMAIN o \subseteq Packages /\ Range(o) \subseteq Range(IndexUrls)

Indexes == Range(IndexUrls)
DefaultIndex == Last(IndexUrls)
Link(p) == [key |-> p, url |-> "link", kind |-> "link", digest |-> p]
Simple == "simple"                        \* the root page of an index

ASSUME PackagesAssumption == Simple \notin Packages
\* A URL is one distribution, for all indexes and times.
ASSUME FilesAssumption ==
    /\ \A f \in Files : f.key \in Versions /\ f.kind \in {"sdist", "whl"}
    /\ \A e, f \in Files : e.url = f.url => e = f
ASSUME PublishedAssumption ==
    /\ MayList \in [Indexes -> SUBSET Files]
    /\ Published \in [Indexes -> [Packages -> SUBSET Files]]
    /\ \A i \in Indexes, p \in Packages : Published[i][p] \subseteq MayList[i]
ASSUME BoundsAssumption ==
    MaxEvaluations \in Nat /\ MaxCalls \in Nat /\ MaxChanges \in Nat

Page(i, p) == [index |-> i, page |-> p]
AllPages == [index : Indexes, page : Packages \cup {Simple}]

VARIABLES
    memory, facts, known, sameFormat,  \* the cache
    index,       \* [Indexes -> [Packages -> files on the index]]
    phase,       \* where the evaluation is
    sources,     \* what the current call asks for
    parallel,    \* its root pages are downloaded in parallel
    toRead,      \* indexes whose root page was not asked for yet
    downloads,   \* indexes whose root page is being downloaded
    results,     \* root pages read: sequence of [index, content, cached], the
                 \* last field as history
    found,       \* [packages found -> index]
    pages,       \* packages whose page is not served yet
    waiting,     \* of these, the ones being downloaded
    contents,    \* [Packages -> files returned by the call]
    evaluations, calls, changes,   \* counters
    steady,      \* history: entries on each page since the evaluation started
    asked, served,  \* history: keys asked of each page in this evaluation,
                    \* and those that were answered
    lockAsked, lockServed  \* history: the same of the evaluation that wrote
                           \* the lockfile

INSTANCE PypiCache WITH
    Pages <- AllPages, Keys <- Packages \cup Versions,
    Entries <- Files \cup {Link(p) : p \in Packages}

cacheVars == <<memory, facts, known, sameFormat>>
historyVars == <<steady, asked, served, lockAsked, lockServed>>
callVars == <<sources, parallel, toRead, downloads, results, found, pages, waiting, contents>>
counters == <<evaluations, calls, changes>>
vars == <<cacheVars, index, phase, callVars, counters, historyVars>>

NoKeys == [u \in AllPages |-> {}]
NoFiles == [p \in Packages |-> {}]

\* What an index answers: the root page lists the packages that have files.
PageOn(ix, u) ==
    IF u.page = Simple
    THEN {Link(p) : p \in {q \in Packages : ix[u.index][q] # {}}}
    ELSE ix[u.index][u.page]
Online(u) == PageOn(index, u)

NoSources == [p \in {} |-> {}]
NoneFound == [p \in {} |-> ""]

Init ==
    /\ CacheInit
    /\ index = Published
    /\ phase = "off" /\ sources = NoSources /\ parallel = FALSE
    /\ toRead = <<>> /\ downloads = <<>> /\ results = <<>>
    /\ found = NoneFound /\ pages = {} /\ waiting = {} /\ contents = NoFiles
    /\ evaluations = 0 /\ calls = 0 /\ changes = 0
    /\ steady = NoKeys /\ asked = NoKeys /\ served = NoKeys
    /\ lockAsked = NoKeys /\ lockServed = NoKeys

-----------------------------------------------------------------------------
(* The indexes and the lockfile change *)

Change == changes < MaxChanges /\ changes' = changes + 1

SetFiles(i, p, files) ==
    /\ Change
    /\ index' = [index EXCEPT ![i][p] = files]
    /\ steady' = [u \in AllPages |-> steady[u] \cap PageOn(index', u)]
    /\ UNCHANGED <<cacheVars, phase, callVars, evaluations, calls, asked,
                   served, lockAsked, lockServed>>

Upload(i, p, f) ==
    f \in MayList[i] \ index[i][p] /\ SetFiles(i, p, index[i][p] \cup {f})
Delete(i, p, f) == f \in index[i][p] /\ SetFiles(i, p, index[i][p] \ {f})

\* Another rules_python: its facts have a different fact_version.
ChangeFormat ==
    /\ phase = "off" /\ sameFormat /\ Change
    /\ sameFormat' = FALSE
    /\ UNCHANGED <<memory, facts, known, index, phase, callVars, evaluations,
                   calls, historyVars>>

-----------------------------------------------------------------------------
(* An evaluation of the extension *)

StartEvaluation ==
    /\ phase = "off" /\ evaluations < MaxEvaluations
    /\ NewCache
    /\ phase' = "idle"
    /\ evaluations' = evaluations + 1
    /\ steady' = [u \in AllPages |-> Online(u)]
    /\ asked' = NoKeys /\ served' = NoKeys
    /\ UNCHANGED <<index, callVars, calls, changes, lockAsked, lockServed>>

\* The local state of the calls is gone with the evaluation.
Leave ==
    /\ phase' = "off" /\ calls' = 0
    /\ sources' = NoSources /\ parallel' = FALSE
    /\ toRead' = <<>> /\ downloads' = <<>> /\ results' = <<>>
    /\ found' = NoneFound /\ pages' = {} /\ waiting' = {} /\ contents' = NoFiles
    /\ steady' = NoKeys /\ asked' = NoKeys /\ served' = NoKeys

\* Facts of the evaluation become the facts of the lockfile.
EndEvaluation ==
    /\ phase = "idle"
    /\ WriteLock
    /\ Leave
    /\ lockAsked' = asked
    /\ lockServed' = served
    /\ UNCHANGED <<index, evaluations, changes>>

\* fail() or a failed download: the lockfile stays as it is.
Abort(reason) ==
    /\ reason
    /\ Leave
    /\ NewCache
    /\ UNCHANGED <<index, evaluations, changes, lockAsked, lockServed>>

\* simpleapi_download(): with a single index, or an override for any package,
\* no root page is read.
Call(s, overrides, inParallel) ==
    /\ phase = "idle" /\ calls < MaxCalls
    /\ calls' = calls + 1
    /\ sources' = s
    /\ contents' = NoFiles
    /\ downloads' = <<>> /\ results' = <<>> /\ waiting' = {}
    /\ IF Len(IndexUrls) = 1 \/ DOMAIN overrides # {}
       THEN /\ found' = [p \in DOMAIN s |->
                    IF p \in DOMAIN overrides THEN overrides[p] ELSE DefaultIndex]
            /\ pages' = DOMAIN s /\ toRead' = <<>> /\ phase' = "pages"
       ELSE /\ found' = NoneFound
            /\ pages' = {} /\ toRead' = IndexUrls /\ phase' = "roots"
    /\ parallel' = inParallel
    /\ UNCHANGED <<cacheVars, index, evaluations, changes, historyVars>>

\* Keys asked of a page, and what the answer has of them.
Asks(u, keys) == asked' = [asked EXCEPT ![u] = @ \cup keys]
Answers(u, keys, content) ==
    served' = [served EXCEPT ![u] = @ \cup (keys \cap KeysOf(content))]

Result(i, content, cached) == [index |-> i, content |-> content, cached |-> cached]

\* Mutant: the loop goes on although the download blocks.
ReadRootAhead ==
    /\ phase = "roots" /\ toRead # <<>>
    /\ LET i == Head(toRead)
           u == Page(i, Simple)
       IN  \E hit \in Cached(u, DOMAIN sources) :
            /\ Get(u, hit)
            /\ Asks(u, DOMAIN sources) /\ Answers(u, DOMAIN sources, hit)
            /\ IF hit # {}
               THEN results' = Append(results, Result(i, hit, TRUE)) /\ UNCHANGED downloads
               ELSE downloads' = Append(downloads, i) /\ UNCHANGED results
    /\ toRead' = Tail(toRead)
    /\ UNCHANGED <<index, phase, sources, parallel, found, pages, waiting, contents,
                   counters, steady, lockAsked, lockServed>>

\* The loop of _get_dist_urls: a cached root page is a result at once, another
\* one is downloaded; only in parallel does the loop go on meanwhile.
ReadRoot ==
    /\ phase = "roots" /\ toRead # <<>>
    /\ parallel \/ downloads = <<>>
    /\ LET i == Head(toRead)
           u == Page(i, Simple)
       IN  \E hit \in Cached(u, DOMAIN sources) :
            /\ Get(u, hit)
            /\ Asks(u, DOMAIN sources) /\ Answers(u, DOMAIN sources, hit)
            /\ IF hit # {}
               THEN results' = Append(results, Result(i, hit, TRUE)) /\ UNCHANGED downloads
               ELSE downloads' = Append(downloads, i) /\ UNCHANGED results
    /\ toRead' = Tail(toRead)
    /\ UNCHANGED <<index, phase, sources, parallel, found, pages, waiting, contents,
                   counters, steady, lockAsked, lockServed>>

\* The download is waited for: by read_simpleapi itself, or behind the loop.
RootDue == phase = "roots" /\ downloads # <<>> /\ (parallel => toRead = <<>>)

WaitRoot ==
    LET i == Head(downloads)
        u == Page(i, Simple)
    IN  /\ RootDue /\ Online(u) # {}
        /\ \E content \in Dictionaries(Online(u)) :
            /\ SetDefault(u, DOMAIN sources, content) /\ Answers(u, DOMAIN sources, content)
            /\ results' = Append(results, Result(i, content, FALSE))
        /\ downloads' = Tail(downloads)
        /\ UNCHANGED <<index, phase, sources, parallel, toRead, found, pages, waiting,
                       contents, counters, steady, asked, lockAsked, lockServed>>

Position(i) == CHOOSE n \in DOMAIN IndexUrls : IndexUrls[n] = i

\* The first result that lists a package provides it.
Lists(n, p) == p \in KeysOf(results[n].content)
FoundOnIndex ==
    [p \in {q \in DOMAIN sources : \E n \in DOMAIN results : Lists(n, q)} |->
        results[CHOOSE n \in DOMAIN results :
                    Lists(n, p) /\ \A m \in 1..(n - 1) : ~Lists(m, p)].index]

RootsRead == phase = "roots" /\ toRead = <<>> /\ downloads = <<>>

\* _get_dist_urls returns.
ChooseIndexes ==
    /\ RootsRead
    /\ found' = FoundOnIndex
    /\ pages' = DOMAIN found'
    /\ phase' = IF pages' = {} THEN "idle" ELSE "pages"
    /\ results' = <<>>
    /\ UNCHANGED <<cacheVars, index, sources, parallel, toRead, downloads, waiting,
                   contents, counters, historyVars>>

\* A cached page is served filtered, a downloaded one as it is.
Serve(p, content) ==
    /\ contents' = [contents EXCEPT ![p] = content]
    /\ pages' = pages \ {p}
    /\ phase' = IF pages' = {} THEN "idle" ELSE "pages"

ReadPage(p) ==
    /\ phase = "pages" /\ p \in pages \ waiting
    /\ parallel \/ waiting = {}
    /\ LET u == Page(found[p], p)
       IN  \E hit \in Cached(u, sources[p]) :
            /\ Get(u, hit)
            /\ Asks(u, sources[p]) /\ Answers(u, sources[p], hit)
            /\ IF hit # {}
               THEN Serve(p, hit) /\ UNCHANGED waiting
               ELSE waiting' = waiting \cup {p} /\ UNCHANGED <<contents, pages, phase>>
    /\ UNCHANGED <<index, sources, parallel, toRead, downloads, results, found,
                   counters, steady, lockAsked, lockServed>>

PagesDue == phase = "pages" /\ (parallel => waiting = pages)

\* Mutant: the download stays in the queue after its page was served.
WaitPageKept(p) ==
    LET u == Page(found[p], p) IN
    /\ PagesDue /\ p \in waiting /\ Online(u) # {}
    /\ \E content \in Dictionaries(Online(u)) :
        /\ SetDefault(u, sources[p], content) /\ Answers(u, sources[p], content)
        /\ Serve(p, content)
    /\ UNCHANGED <<index, sources, parallel, toRead, downloads, results, found, counters,
                   waiting, steady, asked, lockAsked, lockServed>>

WaitPage(p) ==
    LET u == Page(found[p], p) IN
    /\ PagesDue /\ p \in waiting /\ Online(u) # {}
    /\ \E content \in Dictionaries(Online(u)) :
        /\ SetDefault(u, sources[p], content) /\ Answers(u, sources[p], content)
        /\ Serve(p, content)
    /\ waiting' = waiting \ {p}
    /\ UNCHANGED <<index, sources, parallel, toRead, downloads, results, found, counters,
                   steady, asked, lockAsked, lockServed>>

\* A page that is not there: the download fails.
RootMissing == RootDue /\ Online(Page(Head(downloads), Simple)) = {}
PageMissing == PagesDue /\ \E p \in waiting : Online(Page(found[p], p)) = {}

-----------------------------------------------------------------------------
Environment ==
    \/ \E i \in Indexes, p \in Packages, f \in Files : Upload(i, p, f) \/ Delete(i, p, f)
    \/ ChangeFormat

Evaluation ==
    \/ StartEvaluation
    \/ EndEvaluation
    \/ Abort(RootMissing)
    \/ Abort(PageMissing)
    \/ \E s \in Requests, o \in Overrides, inParallel \in BOOLEAN : Call(s, o, inParallel)
    \/ ReadRoot
    \/ WaitRoot
    \/ ChooseIndexes
    \/ \E p \in Packages : ReadPage(p) \/ WaitPage(p)

Next == Environment \/ Evaluation
Spec == Init /\ [][Next]_vars

-----------------------------------------------------------------------------
TypeOK ==
    /\ CacheTypeOK
    /\ index \in [Indexes -> [Packages -> SUBSET Files]]
    /\ parallel \in BOOLEAN
    /\ phase \in {"off", "idle", "roots", "pages"}
    /\ Range(toRead) \subseteq Indexes /\ Range(downloads) \subseteq Indexes
    /\ \A n \in DOMAIN results : results[n].index \in Indexes
    /\ DOMAIN found \subseteq Packages /\ Range(found) \subseteq Indexes
    /\ waiting \subseteq pages /\ pages \subseteq Packages
    /\ contents \in [Packages -> SUBSET Files]
    /\ evaluations \in 0..MaxEvaluations /\ calls \in 0..MaxCalls
    /\ changes \in 0..MaxChanges

\* An index that gives each file a digest of its own.
Hashed(i) == Distinct(MayList[i])

\* A call that returned has served, for every package it found on an index that
\* gives digests, each requested version that was there all through the
\* evaluation, wherever the answer came from: facts that know only some of the
\* versions, a page that another hub had put into memory for other versions, or
\* a download.  Without digests one file hides another in the dictionaries.
VersionsServed ==
    phase = "idle" /\ calls > 0 =>
        \A p \in DOMAIN found :
            Hashed(found[p]) =>
                sources[p] \cap KeysOf(steady[Page(found[p], p)]) \subseteq KeysOf(contents[p])

\* A page is downloaded only for a key that the evaluation behind the lockfile
\* was not given: asking again for what is locked needs no network, whichever
\* hub asked for it first and whether memory or the facts answered.  For the
\* files of an index that gives digests: facts that lack a file are incomplete.
LockedIsOffline ==
    sameFormat =>
        /\ \A n \in DOMAIN downloads :
            ~(DOMAIN sources \subseteq lockServed[Page(downloads[n], Simple)])
        /\ \A p \in waiting :
            Hashed(found[p]) => ~(sources[p] \subseteq lockServed[Page(found[p], p)])

\* What nobody asks for any more leaves the lockfile: it has only keys that the
\* evaluation which wrote it was asked for.
LockHasOnlyAsked == \A u \in AllPages : KeysOf(known[u]) \subseteq lockAsked[u]

\* simpleapi_download's docstring: the indexes "will be looked at in the order
\* they are defined and the first match wins".  With one exception, which the
\* docstring does not tell: where an index that comes later provides a package,
\* its root page was cached, that of the earlier one was not, and the downloads
\* are parallel; whatever changed on one while another was read.
FirstIndexWinsUnlessCached ==
    RootsRead =>
        \A p \in DOMAIN FoundOnIndex, n \in DOMAIN results :
            /\ Lists(n, p)
            /\ Position(results[n].index) < Position(FoundOnIndex[p])
            => /\ parallel /\ ~results[n].cached
               /\ \E m \in DOMAIN results :
                    results[m].index = FoundOnIndex[p] /\ results[m].cached
=============================================================================

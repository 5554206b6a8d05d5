------------------------------ MODULE PypiCache ------------------------------
(* python/private/pypi/pypi_cache.bzl: the cache of PyPI pages that all hubs *)
(* of one evaluation of the pip extension share.  Its memory lives as long   *)
(* as the evaluation; the facts it collects replace those in MODULE.bazel.   *)
(* lock when the evaluation succeeds, and are known to the next one.         *)
(* A page is a set of entries: packages of an index, files of a package.     *)
EXTENDS FiniteSets

CONSTANTS
    Pages,    \* URLs that can be read
    Keys,     \* what a reader asks for: packages, or versions of a package
    Entries   \* what pages list: records [key, url, kind, digest], key in Keys

VARIABLES
    memory,     \* [Pages -> the page read in this evaluation, {} if none]
    facts,      \* [Pages -> facts collected by this evaluation]
    known,      \* [Pages -> facts in the lockfile]
    sameFormat  \* fact_version in the lockfile is _FACT_VERSION

Contents == [Pages -> SUBSET Entries]
Nothing == [u \in Pages |-> {}]
KeysOf(content) == {e.key : e \in content}

\* _filter_packages; None is the empty set.
FilterPackages(content, requested) == {e \in content : e.key \in requested}

\* A package's sdists and its wheels are dictionaries by digest, which is "" for
\* every file that the index gives none; links are a dictionary by package.
SamePlace(e, f) == e.kind = f.kind /\ e.digest = f.digest
Distinct(content) == \A e, f \in content : e.digest = f.digest => e = f

\* What the dictionaries hold when all of a list is put into them: the last one
\* of each place (a page), or the first (facts).  The order of lists is not
\* modelled, so it is any one of each place.
Dictionaries(list) ==
    {content \in SUBSET list :
        /\ \A e, f \in content : SamePlace(e, f) => e = f
        /\ \A e \in list : \E f \in content : SamePlace(e, f)}

\* Mutant: facts that have one of the requested keys are enough.
SomeFromFacts(u, requested) ==
    IF sameFormat THEN Dictionaries(FilterPackages(known[u], requested)) ELSE {{}}

\* Facts that lack one of the requested keys are not used at all.
GetFromFacts(u, requested) ==
    LET found == FilterPackages(known[u], requested)
    IN  IF sameFormat /\ KeysOf(found) = requested THEN Dictionaries(found) ELSE {{}}

\* The results get may have: memory first, and what it has of the request is
\* enough.
Cached(u, requested) ==
    LET found == FilterPackages(memory[u], requested)
    IN  IF found # {} THEN {found} ELSE GetFromFacts(u, requested)

\* value.sdists | value.whls: a wheel hides an sdist of the same digest.
Merged(content) ==
    {e \in content : e.kind = "sdist" =>
        \A f \in content : f.digest = e.digest => f.kind # "whl"}

\* Facts are by URL, and the first entry of a URL stays; here a URL has only one.
StoreFacts(u, content) == facts' = [facts EXCEPT ![u] = @ \cup Merged(content)]

-----------------------------------------------------------------------------
CacheInit ==
    /\ memory = Nothing /\ facts = Nothing
    /\ known = Nothing /\ sameFormat = TRUE

\* pypi_cache(mctx) of a new evaluation.
NewCache ==
    /\ memory' = Nothing /\ facts' = Nothing
    /\ UNCHANGED <<known, sameFormat>>

\* Mutant: what get returns is not collected.
GetOnly(u, hit) == UNCHANGED <<memory, facts, known, sameFormat>>

\* Whatever get returns, one of Cached, is a fact of this evaluation too, from
\* memory or from the lockfile.
Get(u, hit) ==
    /\ StoreFacts(u, hit)
    /\ UNCHANGED <<memory, known, sameFormat>>

\* Mutant: the whole page becomes facts.
SetDefaultUnfiltered(u, requested, page) ==
    /\ memory' = [memory EXCEPT ![u] = IF @ = {} THEN page ELSE @]
    /\ StoreFacts(u, page)
    /\ UNCHANGED <<known, sameFormat>>

\* A page read again does not replace the one in memory.
SetDefault(u, requested, page) ==
    /\ memory' = [memory EXCEPT ![u] = IF @ = {} THEN page ELSE @]
    /\ StoreFacts(u, FilterPackages(page, requested))
    /\ UNCHANGED <<known, sameFormat>>

\* extension_metadata(facts = get_facts()): Bazel writes the lockfile, and the
\* cache goes with the evaluation.
WriteLock ==
    /\ known' = facts /\ sameFormat' = TRUE
    /\ memory' = Nothing /\ facts' = Nothing

CacheTypeOK ==
    /\ memory \in Contents /\ facts \in Contents /\ known \in Contents
    /\ sameFormat \in BOOLEAN
=============================================================================

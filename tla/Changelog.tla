----------------------------- MODULE Changelog -----------------------------
(* tools/private/release: changelog_news.py, process_news.py and the version  *)
(* functions of utils.py, on a working tree: which sections CHANGELOG.md has, *)
(* how often each lists the entry of a pull request, which pull requests have *)
(* their file in news/, and whose files still have a VERSION_NEXT marker.     *)
EXTENDS ReleaseChecklist, FiniteSets, FiniteSetsExt

CONSTANTS
    Versions,  \* bound: versions that may be released, <<minor, patch>>
    Features   \* pull requests marked VERSION_NEXT_FEATURE, the others are PATCH

ASSUME FeaturesAssumption == Features \subseteq PRs
ASSUME VersionsAssumption == Versions \subseteq Nat \X Nat

Older(v, w) == v[1] < w[1] \/ (v[1] = w[1] /\ v[2] < w[2])
Latest(versions) == CHOOSE v \in versions : \A w \in versions \ {v} : Older(w, v)

-----------------------------------------------------------------------------
(* changelog_news.py *)

\* A new section goes before the first older one; without one it is an error.
HasPlace(tree, version) == \E v \in tree.sections : Older(v, version)

\* Entries are added to those of the section without a look at what is there.
MergeNews(tree, version, files) ==
    [tree EXCEPT !.listed[version] =
        [p \in PRs |-> IF p \in files THEN @[p] + 1 ELSE @[p]]]

\* A section made from the files, in the place HasPlace has found.
NewSection(tree, version, files) ==
    MergeNews([tree EXCEPT !.sections = @ \cup {version}], version, files)

\* Mutant: the whole directory is removed.
RemoveAllNews(tree, version, files) ==
    [(IF version \in tree.sections THEN MergeNews(tree, version, files)
      ELSE NewSection(tree, version, files)) EXCEPT !.news = {}]

\* The files that were merged are removed.
UpdateChangelog(tree, version, files) ==
    [(IF version \in tree.sections THEN MergeNews(tree, version, files)
      ELSE NewSection(tree, version, files)) EXCEPT !.news = @ \ files]

-----------------------------------------------------------------------------
(* utils.py *)

ReplaceVersionNext(tree, prs) == [tree EXCEPT !.markers = @ \ prs]
ShouldIncrementMinor(tree) == tree.markers \cap Features # {}

\* On main, by the latest final release: release candidates do not count.
DetermineNextVersion(tree, tags, isPatch) ==
    LET latest == Latest(tags) IN
    IF ~isPatch /\ ShouldIncrementMinor(tree) THEN <<latest[1] + 1, 0>>
    ELSE <<latest[1], latest[2] + 1>>

\* On a release branch, by the final releases of its minor version.
NextVersionOn(minor, tags) ==
    LET patches == {v[2] : v \in {t \in tags : t[1] = minor}} IN
    IF patches = {} THEN <<minor, 0>> ELSE <<minor, Max(patches) + 1>>

-----------------------------------------------------------------------------
(* process_news.py, for pull requests: only into a section that exists *)

CanProcessNews(tree, version) == version \in tree.sections

\* A pull request whose file is not there, or not any more, adds nothing.
ProcessNews(tree, version, prs) ==
    ReplaceVersionNext(UpdateChangelog(tree, version, prs \cap tree.news), prs)
=============================================================================

-------------------------- MODULE ReleaseTracking --------------------------
(* tools/private/release: the workflow runs around a release that go through  *)
(* GitHub issues and pull requests: issues are created, the release prepared  *)
(* on main and its branch cut, backports are listed, and their changelog      *)
(* entries synced back to main.  Every run is a job in a fresh clone of main; *)
(* jobs started by comments and by merged pull requests overlap.  What        *)
(* happens on a release branch afterwards is ReleasePipeline.                 *)
EXTENDS Changelog, Sequences

CONSTANTS
    Jobs,       \* runs that may be active at a time
    Commands,   \* the commands that are used
    Worlds,     \* what the releases so far have left, with the client in use
    MaxLaunches, MaxIssues, MaxPrs, MaxFaults   \* bounds

ASSUME TrackingBounds ==
    MaxLaunches \in Nat /\ MaxIssues \in Nat /\ MaxPrs \in Nat /\ MaxFaults \in Nat

Minors == {v[1] : v \in Versions}
NoVersion == <<0, 0>>

VARIABLES
    client,    \* the implementation of GitHubInterface in use: "gh" or "mock"
    main,      \* the commits of main, as trees
    branches,  \* [Minors -> [base, picked]]: where a release branch left main
               \* (0: there is none), and whether commits were picked onto it
    tags,      \* final releases
    issues,    \* release tracking issues: [version, body, open]
    prs,       \* pull requests the tool made: [name, issue, state, commit]
    pushed,    \* their branches on the remote: [name, base, head]
    backport,  \* the backport tracking issue: [pr, from, to, body], pr = 0: none
    events,    \* merged pull requests whose workflow has not started
    jobs, launches, faults,
    overlapped   \* history: two jobs were active at a time

hub == <<main, branches, tags, issues, prs, pushed, backport>>
history == <<client, launches, faults, overlapped>>
vars == <<hub, events, jobs, history>>

\* A backport issue: what has been verified, and for which versions a release
\* is tracked, in which issue.
NoTrack == [verify |-> [m \in Minors |-> "none"], track |-> [v \in Versions |-> "none"],
            issueOf |-> [v \in Versions |-> 0]]

\* A run: its arguments, the commit of its clone, and the bodies it works on.
NoJob == [cmd |-> "none", pc |-> "off", issue |-> 0, pr |-> 0, version |-> NoVersion,
          about |-> {}, tree |-> 0, body |-> Template(NoVersion),
          tracked |-> NoTrack, todo |-> {}]

Init ==
    /\ \E w \in Worlds :
          /\ client = w.client /\ launches = w.launches /\ faults = w.faults
          /\ main = w.main /\ branches = w.branches /\ tags = w.tags
          /\ issues = w.issues /\ prs = w.prs /\ pushed = w.pushed
          /\ backport = w.backport
    /\ events = {}
    /\ jobs = [j \in Jobs |-> NoJob]
    /\ overlapped = FALSE

MainTree == main[Len(main)]
Tree(job) == main[job.tree]

-----------------------------------------------------------------------------
(* gh.py and mock_gh.py *)

OpenIssues == {i \in DOMAIN issues : issues[i].open}
IssuesOf(version) == {i \in OpenIssues : issues[i].version = version}

\* list_issues with a version is a search by words: others may match as well.
Search(version) ==
    IF client = "mock" THEN {IssuesOf(version)}
    ELSE {found \in SUBSET OpenIssues : IssuesOf(version) \subseteq found}

NextIssue == Len(issues) + 1
CreateIssue(version) ==
    /\ Len(issues) < MaxIssues /\ version \in Versions
    /\ issues' = Append(issues, [version |-> version, body |-> Template(version),
                                 open |-> TRUE])
UpdateIssueBody(i, body) == issues' = [issues EXCEPT ![i].body = body]

\* Branches of the tool are named for a version, or for a version and the
\* numbers of pull requests.
PrepareBranch(version) == [kind |-> "prepare", version |-> version, about |-> {}]
SyncBranch(version, about) == [kind |-> "sync", version |-> version, about |-> about]
Pushed(name) == CHOOSE b \in pushed : b.name = name
OpenPrs(name) == {k \in DOMAIN prs : prs[k].name = name /\ prs[k].state = "open"}
Merged(k) == prs[k].state = "merged"

\* The issue that the body names: gh is not asked for the body.
PrBodyIssue(k) == IF client = "mock" THEN prs[k].issue ELSE 0

\* Refused when the branch has an open one or no commits of its own.
CanCreatePr(name) == OpenPrs(name) = {} /\ Pushed(name).base # Pushed(name).head
CreatePrNoIssue(name, issue) ==  \* mutant: without Release-Tracking-Issue
    prs' = Append(prs, [name |-> name, issue |-> 0, state |-> "open", commit |-> 0])
CreatePr(name, issue) ==
    prs' = Append(prs, [name |-> name, issue |-> issue, state |-> "open", commit |-> 0])

\* git push --force
ForcePush(name, base, head) ==
    pushed' = {b \in pushed : b.name # name} \cup
              {[name |-> name, base |-> base, head |-> head]}

-----------------------------------------------------------------------------
(* git merges a branch three-way, item by item *)

Three(b, h, m) == IF h = b THEN m ELSE h
Clash(b, h, m) == h # b /\ m # b /\ h # m

\* Two new sections are added in the same place.
Conflicted(b, h, m) ==
    \/ Clash(b.sections, h.sections, m.sections)
    \/ \E v \in Versions, p \in PRs : Clash(b.listed[v][p], h.listed[v][p], m.listed[v][p])

Merge3(b, h, m) ==
    [sections |-> m.sections \cup h.sections,
     listed |-> [v \in Versions |-> [p \in PRs |->
                    Three(b.listed[v][p], h.listed[v][p], m.listed[v][p])]],
     news |-> m.news \ (b.news \ h.news),
     markers |-> m.markers \ (b.markers \ h.markers)]

-----------------------------------------------------------------------------
(* Maintainers and GitHub *)

\* A pull request of the tool is merged, or auto-merge merges it.
MergePr(k) ==
    LET branch == Pushed(prs[k].name) IN
    /\ prs[k].state = "open"
    /\ ~Conflicted(branch.base, branch.head, MainTree)
    /\ main' = Append(main, Merge3(branch.base, branch.head, MainTree))
    /\ prs' = [prs EXCEPT ![k].state = "merged", ![k].commit = Len(main) + 1]
    /\ events' = events \cup {k}
    /\ UNCHANGED <<branches, tags, issues, pushed, backport, jobs, history>>

\* Someone's change, with its news file and marker, is merged.
Present(tree, p) ==
    p \in tree.news \cup tree.markers \/ \E v \in Versions : tree.listed[v][p] > 0
ChangesOnMain == {p \in PRs : Present(MainTree, p)}
MergeChange(p) ==
    /\ p \notin ChangesOnMain
    /\ main' = Append(main, [MainTree EXCEPT !.news = @ \cup {p}, !.markers = @ \cup {p}])
    /\ UNCHANGED <<branches, tags, issues, prs, pushed, backport, events, jobs, history>>

\* ReleasePipeline's promote, after which the issue is closed by hand.
FinishRelease(i) ==
    LET version == issues[i].version IN
    /\ issues[i].open /\ branches[version[1]].base # 0
    /\ tags' = tags \cup {version}
    /\ issues' = [issues EXCEPT ![i].open = FALSE]
    /\ UNCHANGED <<main, branches, prs, pushed, backport, events, jobs, history>>

-----------------------------------------------------------------------------
(* Starting a job: comments, merged pull requests, workflow_dispatch *)

Active(j) == jobs[j].pc # "off"
Become(j, job) == jobs' = [jobs EXCEPT ![j] = job]
Go(j, pc) == Become(j, [jobs[j] EXCEPT !.pc = pc])
End(j) == Become(j, NoJob)
At(j, pc) == jobs[j].pc = pc

FirstStep(cmd) ==
    CASE cmd = "createIssue" -> "listIssues"
      [] cmd = "prepare" -> "findIssue"
      [] cmd = "completePrepare" -> "prInfo"
      [] cmd = "createBranch" -> "readForBranch"
      [] cmd = "addBackports" -> "discover"
      [] cmd = "onPrMerged" -> "findBackport"
      [] cmd = "processBackports" -> "process"
      [] cmd = "sync" -> "discover"
      [] cmd = "completeSync" -> "syncPrInfo"
      [] cmd = "backportPrepare" -> "verify"
      [] cmd = "createReleases" -> "readTracked"

OfNextVersion == {"createIssue", "prepare", "addBackports"}
NextVersion(cmd) == DetermineNextVersion(MainTree, tags, cmd = "addBackports")

\* The clone is made when the job starts, with the tags of that moment.
Launch(j, cmd, issue, pr, about) ==
    /\ ~Active(j) /\ launches < MaxLaunches
    /\ launches' = launches + 1
    /\ overlapped' = (overlapped \/ \E i \in Jobs : Active(i))
    /\ Become(j, [NoJob EXCEPT !.cmd = cmd, !.pc = FirstStep(cmd), !.issue = issue,
                      !.pr = pr, !.about = about,
                      !.tree = IF cmd = "prepare" THEN Len(main) ELSE 0,
                      !.version = IF cmd \in OfNextVersion THEN NextVersion(cmd) ELSE @])
    /\ UNCHANGED <<hub, client, faults>>

\* on_comment.py and workflow_dispatch: the arguments that a command is given.
OnIssue == {"createBranch", "processBackports"}
OnIssueOrNone == {"prepare", "sync"}
Made(kind) == {k \in DOMAIN prs : prs[k].name.kind = kind}
OnBackportIssue == {"backportPrepare", "createReleases"}

OnComment(j, cmd) ==
    /\ cmd \in Commands
    /\ UNCHANGED events
    /\ \/ cmd = "createIssue" /\ Launch(j, cmd, 0, 0, {})
       \/ cmd = "addBackports" /\ \E i \in OpenIssues \cup {0}, p \in PRs :
              Launch(j, cmd, i, 0, {p})
       \/ cmd \in OnIssue /\ \E i \in OpenIssues : Launch(j, cmd, i, 0, {})
       \/ cmd \in OnIssueOrNone /\ \E i \in OpenIssues \cup {0} : Launch(j, cmd, i, 0, {})
       \/ cmd = "completePrepare" /\ \E i \in OpenIssues \cup {0}, k \in Made("prepare") \cup {0} :
              i + k > 0 /\ Launch(j, cmd, i, k, {})
       \/ cmd = "completeSync" /\ \E k \in Made("sync") : Launch(j, cmd, 0, k, {})
       \/ cmd \in OnBackportIssue /\ backport.pr # 0 /\ Launch(j, cmd, 0, 0, {})

\* The workflow of a merged pull request, by its label.
OnPrClosed(j, k) ==
    /\ k \in events
    /\ events' = events \ {k}
    /\ Launch(j, IF prs[k].name.kind = "prepare" THEN "completePrepare" ELSE "completeSync",
              0, k, {})

\* A merged change that has a /backport comment.
OnChangeClosed(j, p) ==
    /\ "onPrMerged" \in Commands /\ p \in ChangesOnMain
    /\ Launch(j, "onPrMerged", 0, 0, {p})
    /\ UNCHANGED events

\* The job is cancelled, or a call to git or GitHub fails.
Die(j) ==
    /\ Active(j) /\ faults < MaxFaults
    /\ faults' = faults + 1
    /\ End(j)
    /\ UNCHANGED <<hub, events, client, launches, overlapped>>

-----------------------------------------------------------------------------
(* create-release-issue *)

ListIssues(j) ==
    /\ At(j, "listIssues")
    /\ IF OpenIssues # {} THEN End(j) ELSE Go(j, "createIssue")
    /\ UNCHANGED <<hub, events, history>>

CreateReleaseIssue(j) ==
    /\ At(j, "createIssue") /\ CreateIssue(jobs[j].version)
    /\ End(j)
    /\ UNCHANGED <<main, branches, tags, prs, pushed, backport, events, history>>

-----------------------------------------------------------------------------
(* prepare: the version is that of main, whatever issue was given *)

\* Mutant: without looking for one.
FindNoIssue(j) ==
    /\ At(j, "findIssue")
    /\ IF jobs[j].issue # 0 THEN Go(j, "pushPrepared") ELSE Go(j, "createMissing")
    /\ UNCHANGED <<hub, events, history>>

FindIssue(j) ==
    LET found == IssuesOf(jobs[j].version) IN
    /\ At(j, "findIssue")
    /\ IF jobs[j].issue # 0 THEN Go(j, "pushPrepared")
       ELSE IF Cardinality(found) > 1 THEN End(j)
       ELSE IF found = {} THEN Go(j, "createMissing")
       ELSE \E i \in found : Become(j, [jobs[j] EXCEPT !.issue = i, !.pc = "pushPrepared"])
    /\ UNCHANGED <<hub, events, history>>

CreateMissingIssue(j) ==
    /\ At(j, "createMissing") /\ CreateIssue(jobs[j].version)
    /\ Become(j, [jobs[j] EXCEPT !.issue = NextIssue, !.pc = "pushPrepared"])
    /\ UNCHANGED <<main, branches, tags, prs, pushed, backport, events, history>>

\* All news files, and the markers of all files.
Prepared(tree, version) ==
    ReplaceVersionNext(UpdateChangelog(tree, version, tree.news), PRs)

PushPrepared(j) ==
    LET version == jobs[j].version IN
    /\ At(j, "pushPrepared") /\ version \in Versions /\ HasPlace(Tree(jobs[j]), version)
    /\ ForcePush(PrepareBranch(version), Tree(jobs[j]), Prepared(Tree(jobs[j]), version))
    /\ Go(j, "preparePr")
    /\ UNCHANGED <<main, branches, tags, issues, prs, backport, events, history>>

\* The open pull request of the branch, or else the one in the issue, or else
\* a new one: between the two calls another job may have created it.
PreparePr(j) ==
    LET open == OpenPrs(PrepareBranch(jobs[j].version))
        named == issues[jobs[j].issue].body.prepare.pr
    IN
    /\ At(j, "preparePr")
    /\ \/ \E k \in open : Become(j, [jobs[j] EXCEPT !.pr = k, !.pc = "readPrepare"])
       \/ /\ open = {} /\ named # 0
          /\ Become(j, [jobs[j] EXCEPT !.pr = named, !.pc = "readPrepare"])
       \/ open = {} /\ named = 0 /\ Go(j, "createPreparePr")
    /\ UNCHANGED <<hub, events, history>>

CreatePreparePr(j) ==
    LET name == PrepareBranch(jobs[j].version) IN
    /\ At(j, "createPreparePr")
    /\ IF CanCreatePr(name)
       THEN /\ Len(prs) < MaxPrs
            /\ CreatePr(name, jobs[j].issue)
            /\ Become(j, [jobs[j] EXCEPT !.pr = Len(prs) + 1, !.pc = "readPrepare"])
       ELSE End(j) /\ UNCHANGED prs
    /\ UNCHANGED <<main, branches, tags, issues, pushed, backport, events, history>>

ReadForPrepare(j) ==
    LET body == issues[jobs[j].issue].body IN
    /\ At(j, "readPrepare")
    /\ IF ~body.prepare.listed THEN End(j)
       ELSE Become(j, [jobs[j] EXCEPT !.pc = "write",
                           !.body = UpdatePrepare(body, Line(FALSE, "pending", jobs[j].pr, 0))])
    /\ UNCHANGED <<hub, events, history>>

\* update_issue_body with what the job has made of the body it read.
WriteBody(j) ==
    /\ At(j, "write") /\ UpdateIssueBody(jobs[j].issue, jobs[j].body)
    /\ CASE jobs[j].cmd = "completePrepare" -> Go(j, "readForBranch")
         [] OTHER -> End(j)
    /\ UNCHANGED <<main, branches, tags, prs, pushed, backport, events, history>>

-----------------------------------------------------------------------------
(* complete-prepare, and create-release-branch, which its workflow goes on to *)

\* Mutant: whether the pull request is merged is not asked.
PrInfoUnmerged(j) ==
    LET job == jobs[j]
        k == IF job.pr # 0 THEN job.pr ELSE issues[job.issue].body.prepare.pr
        i == IF job.issue # 0 THEN job.issue ELSE PrBodyIssue(k)
    IN
    /\ At(j, "prInfo")
    /\ IF k = 0 \/ i = 0 THEN End(j)
       ELSE Become(j, [job EXCEPT !.pr = k, !.issue = i, !.pc = "readComplete"])
    /\ UNCHANGED <<hub, events, history>>

\* From the pull request to the issue, or from the issue to the pull request.
PrInfo(j) ==
    LET job == jobs[j]
        k == IF job.pr # 0 THEN job.pr ELSE issues[job.issue].body.prepare.pr
        i == IF job.issue # 0 THEN job.issue ELSE PrBodyIssue(k)
    IN
    /\ At(j, "prInfo")
    /\ IF k = 0 THEN End(j)
       ELSE IF ~Merged(k) \/ i = 0 THEN End(j)
       ELSE Become(j, [job EXCEPT !.pr = k, !.issue = i, !.pc = "readComplete"])
    /\ UNCHANGED <<hub, events, history>>

ReadForComplete(j) ==
    LET body == issues[jobs[j].issue].body
        k == jobs[j].pr
    IN
    /\ At(j, "readComplete")
    /\ IF ~body.prepare.listed THEN End(j)
       ELSE Become(j, [jobs[j] EXCEPT !.pc = "write",
                           !.body = UpdatePrepare(body, Line(TRUE, "done", k, prs[k].commit))])
    /\ UNCHANGED <<hub, events, history>>

\* Mutant: from the head of main when the task has no commit yet.
ReadForBranchOrHead(j) ==
    LET body == issues[jobs[j].issue].body IN
    /\ At(j, "readForBranch")
    /\ IF body.branch.checked THEN End(j)
       ELSE Become(j, [jobs[j] EXCEPT !.body = [body EXCEPT !.prepare.commit =
                                          IF @ = 0 THEN Len(main) ELSE @],
                                      !.pc = "pushBranch"])
    /\ UNCHANGED <<hub, events, history>>

\* The body that is read here is the one that is written after the push.
ReadForBranch(j) ==
    LET body == issues[jobs[j].issue].body IN
    /\ At(j, "readForBranch")
    /\ IF body.prepare.status # "done" \/ body.prepare.commit = 0 \/ body.branch.checked
       THEN End(j)
       ELSE Become(j, [jobs[j] EXCEPT !.body = body, !.pc = "pushBranch"])
    /\ UNCHANGED <<hub, events, history>>

\* is_ancestor: nothing was picked onto the branch, and it left main before.
FastForwards(minor, commit) ==
    ~branches[minor].picked /\ branches[minor].base =< commit

\* A new branch, or a fast-forward of the one there is.
PushBranch(j) ==
    LET minor == issues[jobs[j].issue].version[1]
        commit == jobs[j].body.prepare.commit
        done == Line(TRUE, "done", 0, commit)
    IN
    /\ At(j, "pushBranch")
    /\ IF branches[minor].base = 0 \/ FastForwards(minor, commit)
       THEN /\ branches' = [branches EXCEPT ![minor].base = commit]
            /\ IF jobs[j].body.branch.listed
               THEN Become(j, [jobs[j] EXCEPT !.body = UpdateBranch(@, done),
                                   !.cmd = "createBranch", !.pc = "write"])
               ELSE End(j)
       ELSE End(j) /\ UNCHANGED branches
    /\ UNCHANGED <<main, tags, issues, prs, pushed, backport, events, history>>

-----------------------------------------------------------------------------
(* add-backports and on-pr-merged: which issue is meant *)

\* The issue given, or the only one; add-backports creates one for a patch.
Discover(j) ==
    LET next == IF jobs[j].cmd = "sync" THEN "readSync" ELSE "readAdd" IN
    /\ At(j, "discover")
    /\ \/ jobs[j].issue # 0 /\ Go(j, next)
       \/ /\ jobs[j].issue = 0 /\ Cardinality(OpenIssues) = 1
          /\ \E i \in OpenIssues : Become(j, [jobs[j] EXCEPT !.issue = i, !.pc = next])
       \/ /\ jobs[j].issue = 0 /\ OpenIssues = {} /\ jobs[j].cmd = "addBackports"
          /\ Go(j, "createPatch")
       \/ /\ jobs[j].issue = 0 /\ End(j)
          /\ Cardinality(OpenIssues) > 1 \/ (OpenIssues = {} /\ jobs[j].cmd = "sync")
    /\ UNCHANGED <<hub, events, history>>

CreatePatchIssue(j) ==
    /\ At(j, "createPatch") /\ CreateIssue(jobs[j].version)
    /\ Become(j, [jobs[j] EXCEPT !.issue = NextIssue, !.pc = "readAdd"])
    /\ UNCHANGED <<main, branches, tags, prs, pushed, backport, events, history>>

WithPrs(body, added) == AddSyncTasks(AddBackportLines(body, added), added)

ReadForAdd(j) ==
    /\ At(j, "readAdd")
    /\ Become(j, [jobs[j] EXCEPT !.body = WithPrs(issues[jobs[j].issue].body, jobs[j].about),
                      !.pc = "write"])
    /\ UNCHANGED <<hub, events, history>>

\* The one open issue that lists the pull request.
FindBackport(j) ==
    LET found == {i \in OpenIssues : jobs[j].about \subseteq Backports(issues[i].body)} IN
    /\ At(j, "findBackport")
    /\ IF Cardinality(found) # 1 THEN End(j)
       ELSE \E i \in found : Become(j, [jobs[j] EXCEPT !.issue = i, !.pc = "process"])
    /\ UNCHANGED <<hub, events, history>>

\* process-backports as a whole (ReleasePipeline has its steps); the workflow
\* of that name goes on to sync the changelog.
ProcessBackports(j) ==
    LET i == jobs[j].issue
        minor == issues[i].version[1]
        picks == PendingBackports(issues[i].body) \cap ChangesOnMain
    IN
    /\ At(j, "process")
    /\ IF branches[minor].base = 0 THEN End(j) /\ UNCHANGED <<branches, issues>>
       ELSE /\ UpdateIssueBody(i, SetBackports(issues[i].body, picks, Line(TRUE, "done", 0, 0)))
            /\ branches' = [branches EXCEPT ![minor].picked = @ \/ picks # {}]
            /\ IF jobs[j].cmd = "onPrMerged" THEN End(j)
               ELSE Become(j, [jobs[j] EXCEPT !.cmd = "sync", !.pc = "readSync"])
    /\ UNCHANGED <<main, tags, prs, pushed, backport, events, history>>

-----------------------------------------------------------------------------
(* sync-changelog *)

ReadForSync(j) ==
    LET pending == PendingSyncs(issues[jobs[j].issue].body) IN
    /\ At(j, "readSync")
    /\ IF pending = {} THEN End(j)
       ELSE Become(j, [jobs[j] EXCEPT !.about = pending,
                           !.version = issues[jobs[j].issue].version, !.pc = "pushSync"])
    /\ UNCHANGED <<hub, events, history>>

\* Main as it is now, with the entries of the pending pull requests moved into
\* the release's section; without the section, or a change, nothing happens.
PushSync(j) ==
    LET version == jobs[j].version
        synced == ProcessNews(MainTree, version, jobs[j].about)
    IN
    /\ At(j, "pushSync")
    /\ IF ~CanProcessNews(MainTree, version) \/ synced = MainTree
       THEN End(j) /\ UNCHANGED pushed
       ELSE /\ ForcePush(SyncBranch(version, jobs[j].about), MainTree, synced)
            /\ Go(j, "syncPr")
    /\ UNCHANGED <<main, branches, tags, issues, prs, backport, events, history>>

\* From here on, with auto-merge enabled, it may be merged.
CreateSyncPr(j) ==
    LET name == SyncBranch(jobs[j].version, jobs[j].about) IN
    /\ At(j, "syncPr")
    /\ IF CanCreatePr(name)
       THEN /\ Len(prs) < MaxPrs
            /\ CreatePr(name, jobs[j].issue)
            /\ Become(j, [jobs[j] EXCEPT !.pr = Len(prs) + 1, !.pc = "readSyncTasks"])
       ELSE End(j) /\ UNCHANGED prs
    /\ UNCHANGED <<main, branches, tags, issues, pushed, backport, events, history>>

ReadForSyncTasks(j) ==
    LET body == issues[jobs[j].issue].body IN
    /\ At(j, "readSyncTasks")
    /\ IF \E p \in jobs[j].about : ~body.sync[p].listed THEN End(j)
       ELSE Become(j, [jobs[j] EXCEPT !.pc = "write",
                !.body = UpdateSync(body, jobs[j].about, Line(FALSE, "pending", jobs[j].pr, 0))])
    /\ UNCHANGED <<hub, events, history>>

-----------------------------------------------------------------------------
(* complete-sync-changelog *)

SyncPrInfo(j) ==
    LET k == jobs[j].pr IN
    /\ At(j, "syncPrInfo")
    /\ IF ~Merged(k) \/ PrBodyIssue(k) = 0 THEN End(j)
       ELSE Become(j, [jobs[j] EXCEPT !.issue = PrBodyIssue(k), !.pc = "readSynced"])
    /\ UNCHANGED <<hub, events, history>>

\* Only the tasks that point to this pull request are done.
ReadForSynced(j) ==
    LET body == issues[jobs[j].issue].body
        k == jobs[j].pr
        synced == SyncPointsTo(body, k)
    IN
    /\ At(j, "readSynced")
    /\ IF synced = {} THEN End(j)
       ELSE Become(j, [jobs[j] EXCEPT !.pc = "write",
                !.body = UpdateSync(body, synced, Line(TRUE, "done", k, prs[k].commit))])
    /\ UNCHANGED <<hub, events, history>>

-----------------------------------------------------------------------------
(* backport-prepare and backport-create-releases, on the backport issue *)

TargetBranches == {m \in backport.from..backport.to : branches[m].base # 0}
NextVersions(targets) == {NextVersionOn(m, tags) : m \in targets}

\* A new body: what was tracked before is forgotten.
Verified(targets, applied) ==
    [NoTrack EXCEPT
        !.verify = [m \in Minors |-> IF m \notin targets THEN "none"
                                     ELSE IF m \in applied THEN "success" ELSE "failed"],
        !.track = [v \in Versions |-> IF v \in NextVersions(targets) THEN "pending" ELSE "none"]]

\* Whether a cherry-pick applies is up to git.
VerifyApply(j) ==
    /\ At(j, "verify") /\ NextVersions(TargetBranches) \subseteq Versions
    /\ IF backport.pr \notin ChangesOnMain \/ TargetBranches = {} THEN End(j)
       ELSE \E applied \in SUBSET TargetBranches :
                Become(j, [jobs[j] EXCEPT !.tracked = Verified(TargetBranches, applied),
                                          !.pc = "writeTracked"])
    /\ UNCHANGED <<hub, events, history>>

WriteTracked(j) ==
    /\ At(j, "writeTracked")
    /\ backport' = [backport EXCEPT !.body = jobs[j].tracked]
    /\ End(j)
    /\ UNCHANGED <<main, branches, tags, issues, prs, pushed, events, history>>

\* No later release may lack the change.
IsReleaseEligible(version, verify) ==
    \A m \in Minors : m >= version[1] /\ verify[m] # "none" => verify[m] = "success"

\* Releases that were blocked are tried again; without a change nothing is
\* written.
ReadTracked(j) ==
    LET body == backport.body
        todo == {v \in Versions : body.track[v] \in {"pending", "error"}}
    IN
    /\ At(j, "readTracked")
    /\ IF \E v \in todo : body.track[v] = "pending" \/ IsReleaseEligible(v, body.verify)
       THEN Become(j, [jobs[j] EXCEPT !.tracked = body, !.todo = todo, !.pc = "nextRelease"])
       ELSE End(j)
    /\ UNCHANGED <<hub, events, history>>

Track(job, version, status, issue) ==
    [job EXCEPT !.tracked.track[version] = status, !.tracked.issueOf[version] = issue,
                !.todo = @ \ {version}, !.pc = "nextRelease"]

\* One version after the other; an open issue that is found is taken as it is.
NextRelease(j) ==
    LET job == jobs[j]
        version == CHOOSE v \in job.todo : \A w \in job.todo \ {v} : Older(v, w)
    IN
    /\ At(j, "nextRelease")
    /\ IF job.todo = {} THEN Go(j, "writeTracked")
       ELSE IF ~IsReleaseEligible(version, job.tracked.verify)
       THEN Become(j, Track(job, version, "error", 0))
       ELSE \E found \in Search(version) :
            \/ \E i \in found : Become(j, Track(job, version, "success", i))
            \/ found = {} /\ Become(j, [job EXCEPT !.version = version, !.pc = "createRelease"])
    /\ UNCHANGED <<hub, events, history>>

CreateRelease(j) ==
    /\ At(j, "createRelease") /\ CreateIssue(jobs[j].version)
    /\ Become(j, [jobs[j] EXCEPT !.issue = NextIssue, !.pc = "readRelease"])
    /\ UNCHANGED <<main, branches, tags, prs, pushed, backport, events, history>>

ReadRelease(j) ==
    /\ At(j, "readRelease")
    /\ Become(j, [jobs[j] EXCEPT !.body = WithPrs(issues[jobs[j].issue].body, {backport.pr}),
                                 !.pc = "writeRelease"])
    /\ UNCHANGED <<hub, events, history>>

WriteRelease(j) ==
    /\ At(j, "writeRelease") /\ UpdateIssueBody(jobs[j].issue, jobs[j].body)
    /\ Become(j, Track(jobs[j], jobs[j].version, "success", jobs[j].issue))
    /\ UNCHANGED <<main, branches, tags, prs, pushed, backport, events, history>>

-----------------------------------------------------------------------------
Release(j) ==
    \/ ListIssues(j) \/ CreateReleaseIssue(j)
    \/ FindIssue(j) \/ CreateMissingIssue(j) \/ PushPrepared(j) \/ PreparePr(j)
    \/ CreatePreparePr(j) \/ ReadForPrepare(j)
    \/ PrInfo(j) \/ ReadForComplete(j) \/ ReadForBranch(j) \/ PushBranch(j)
Sync(j) ==
    \/ Discover(j) \/ CreatePatchIssue(j) \/ ReadForAdd(j)
    \/ FindBackport(j) \/ ProcessBackports(j)
    \/ ReadForSync(j) \/ PushSync(j) \/ CreateSyncPr(j) \/ ReadForSyncTasks(j)
    \/ SyncPrInfo(j) \/ ReadForSynced(j)
Backport(j) ==
    \/ VerifyApply(j) \/ WriteTracked(j) \/ ReadTracked(j)
    \/ NextRelease(j) \/ CreateRelease(j) \/ ReadRelease(j) \/ WriteRelease(j)
Start(j) ==
    \/ \E cmd \in Commands : OnComment(j, cmd)
    \/ \E k \in events : OnPrClosed(j, k)
    \/ \E p \in PRs : OnChangeClosed(j, p)

Next ==
    \/ \E j \in Jobs : Start(j) \/ Release(j) \/ Sync(j) \/ Backport(j) \/ WriteBody(j) \/ Die(j)
    \/ \E k \in DOMAIN prs : MergePr(k)
    \/ \E p \in PRs : MergeChange(p)
    \/ \E i \in DOMAIN issues : FinishRelease(i)

Spec == Init /\ [][Next]_vars
-----------------------------------------------------------------------------
Trees == [sections : SUBSET Versions, listed : [Versions -> [PRs -> Nat]],
          news : SUBSET PRs, markers : SUBSET PRs]
Lines == [listed : BOOLEAN, checked : BOOLEAN, pr : Nat, commit : Nat,
          status : {"none", "awaiting", "pending", "done"}]
Bodies == [prepare : Lines, branch : Lines, sync : [PRs -> Lines], backports : [PRs -> Lines]]
Issues == [version : Versions, body : Bodies, open : BOOLEAN]
Names == [kind : {"prepare", "sync"}, version : Versions, about : SUBSET PRs]
Pulls == [name : Names, issue : Nat, state : {"open", "merged"}, commit : Nat]
Remotes == [name : Names, base : Trees, head : Trees]

\* A change is announced in news/ until a section lists it.
Kept(tree) ==
    \A p \in PRs : Present(tree, p) =>
        /\ p \in tree.news <=> \A v \in Versions : tree.listed[v][p] = 0
        /\ \A v \in Versions : tree.listed[v][p] =< 1

\* A later commit of main lists and announces no less.
Later(old, new) ==
    \A p \in PRs : /\ Present(old, p) => Present(new, p)
                   /\ \A v \in Versions : old.listed[v][p] =< new.listed[v][p]

\* A branch of the tool moves entries from news/ to the section of its version.
Edited(base, head, version) ==
    /\ base.sections \subseteq head.sections
    /\ head.news \subseteq base.news /\ head.markers \subseteq base.markers
    /\ \A p \in PRs, v \in Versions :
          head.listed[v][p] = IF v = version /\ p \in base.news \ head.news
                              THEN base.listed[v][p] + 1 ELSE base.listed[v][p]

\* What a checklist claims of pull requests and branches, done or not.
Honest(body, minor, pulls, cuts) ==
    /\ body.prepare.pr # 0 =>
          body.prepare.pr \in DOMAIN pulls /\ pulls[body.prepare.pr].name.kind = "prepare"
    /\ body.prepare.checked \/ body.prepare.commit # 0 =>
          /\ body.prepare.pr # 0 /\ pulls[body.prepare.pr].state = "merged"
          /\ body.prepare.commit = pulls[body.prepare.pr].commit
    /\ body.branch.checked => cuts[minor].base >= body.branch.commit
    /\ \A p \in PRs : LET k == body.sync[p].pr IN
          /\ k # 0 => k \in DOMAIN pulls /\ p \in pulls[k].name.about
          /\ body.sync[p].checked => k # 0 /\ pulls[k].state = "merged"

\* What the tool, used so far as it is meant to be, can have left.
ASSUME WorldsAssumption ==
    \A w \in Worlds :
        /\ w.client \in {"gh", "mock"}
        /\ w.launches \in 0..MaxLaunches /\ w.faults \in 0..MaxFaults
        /\ w.main \in Seq(Trees) /\ w.main # <<>>
        /\ \A n \in DOMAIN w.main : Kept(w.main[n])
        /\ \A m, n \in DOMAIN w.main : m =< n => Later(w.main[m], w.main[n])
        /\ w.branches \in [Minors -> [base : 0..Len(w.main), picked : BOOLEAN]]
        /\ w.tags \subseteq Versions
        /\ w.issues \in Seq(Issues)
        /\ \A i, k \in DOMAIN w.issues :
              /\ w.issues[i].open /\ w.issues[k].open /\ i # k
              => w.issues[i].version # w.issues[k].version
        /\ \A i \in DOMAIN w.issues :
              Honest(w.issues[i].body, w.issues[i].version[1], w.prs, w.branches)
        /\ w.pushed \subseteq Remotes
        /\ \A b \in w.pushed :
              /\ \E n \in DOMAIN w.main : b.base = w.main[n]
              /\ Edited(b.base, b.head, b.name.version)
              /\ b.name.version \in b.head.sections
        /\ w.prs \in Seq(Pulls)
        /\ \A k \in DOMAIN w.prs :
              /\ w.prs[k].issue \in DOMAIN w.issues
              /\ w.prs[k].name \in {b.name : b \in w.pushed}
              /\ w.prs[k].commit \in 0..Len(w.main)
              /\ w.prs[k].state = "merged" =>
                    /\ w.prs[k].commit # 0
                    /\ w.prs[k].name.version \in w.main[w.prs[k].commit].sections

TypeOK ==
    /\ client \in {"gh", "mock"}
    /\ \A n \in DOMAIN main : main[n] \in Trees
    /\ branches \in [Minors -> [base : 0..Len(main), picked : BOOLEAN]]
    /\ tags \subseteq Versions
    /\ \A i \in DOMAIN issues :
          /\ issues[i].version \in Versions /\ issues[i].open \in BOOLEAN
          /\ issues[i].body.prepare.pr \in 0..Len(prs)
          /\ \A p \in PRs : issues[i].body.sync[p].pr \in 0..Len(prs)
    /\ \A k \in DOMAIN prs :
          /\ prs[k].issue \in DOMAIN issues /\ prs[k].commit \in 0..Len(main)
          /\ prs[k].name \in {b.name : b \in pushed}
    /\ events \subseteq DOMAIN prs
    /\ \A j \in Jobs : /\ jobs[j].issue \in 0..Len(issues)
                       /\ jobs[j].pr \in 0..Len(prs)
                       /\ jobs[j].tree \in 0..Len(main)
    /\ launches \in 0..MaxLaunches /\ faults \in 0..MaxFaults

\* The changelog on main loses nothing: a change is either still announced in
\* news/ or listed in a section, and no section lists it twice, however
\* preparations and syncs, made from older commits, pushed over one another and
\* merged in any order, move the entries.
NewsKept == Kept(MainTree)

\* What the checklist says is done has happened: "Prepare Release" names a merged
\* pull request and its commit; the branch exists and is at that commit or
\* later; a synced change was among those of a merged sync pull request.
DoneIsDone ==
    \A i \in DOMAIN issues : LET body == issues[i].body IN
        /\ body.prepare.checked => /\ Merged(body.prepare.pr)
                                   /\ body.prepare.commit = prs[body.prepare.pr].commit
        /\ body.branch.checked => branches[issues[i].version[1]].base >= body.branch.commit
        /\ \A p \in PRs : body.sync[p].checked =>
              LET k == body.sync[p].pr IN Merged(k) /\ p \in prs[k].name.about

\* A release branch is cut at, or moved forward to, the commit of a merged
\* preparation whose section is in the changelog of that commit.  It is the
\* version that main had when it was prepared, not always that of the issue.
BranchIsPrepared ==
    [][\A m \in Minors : branches'[m].base # branches[m].base =>
          /\ branches[m].base < branches'[m].base
          /\ \E k \in Made("prepare") :
                /\ Merged(k) /\ prs[k].commit = branches'[m].base
                /\ prs[k].name.version \in main[prs[k].commit].sections]_vars

\* Two open issues for one version need two jobs at a time, or a search that
\* does not find: create-release-issue, prepare, add-backports and
\* create-releases all look before they create one.
OneIssuePerVersion ==
    ~overlapped => \A v \in Versions : Cardinality(IssuesOf(v)) =< 1
=============================================================================

--------------------------- MODULE ReleasePipeline ---------------------------
(* tools/private/release: the workflow runs that build a release from its    *)
(* tracking issue.  A run is a process of its own started by a comment, so   *)
(* several may be active at once; what they share is the issue's body (read  *)
(* whole, edited in memory, written back whole), the release branch and the  *)
(* tags on the remote, and the state of the pull requests.                   *)
EXTENDS Integers, Sequences, SequencesExt

CONSTANTS
    Runs,          \* workflow runs that may be started
    Commands,      \* the commands they may be started with
    PRs,           \* pull requests, in the order of their merge commits
    WithNews,      \* those that add a file under news/
    Listed,        \* sets of those that may be on the checklist at the start
    FirstRelease,  \* the version ends in ".0"
    MaxRc,         \* bound: highest "Tag RC" task
    MaxFaults      \* bound: commands that fail

ASSUME PRsAssumption ==
    PRs \subseteq Nat /\ WithNews \subseteq PRs /\ Listed \subseteq SUBSET PRs
ASSUME BoundsAssumption ==
    MaxRc \in Nat /\ MaxFaults \in Nat /\ FirstRelease \in BOOLEAN
ASSUME CommandsAssumption ==
    Commands \subseteq {"addBackports", "processBackports", "createRc", "promote"}

Statuses == {"absent", "pending", "done", "ignore", "error"}
RcNums == 0..MaxRc

\* What the release tool reads in an issue body.
Bodies == [backports : [PRs -> Statuses],
           rc : [RcNums -> {"absent", "todo", "done"}],
           final : {"todo", "done", "error"}]

\* A commit on the release branch: the pull request, and who picked it.
Maintainer == "maintainer"
Commits == [pr : PRs, by : Runs \cup {Maintainer}]
Branches == Seq(Commits)
PicksOf(branch) == {branch[i].pr : i \in DOMAIN branch}

VARIABLES
    issue,       \* the body of the tracking issue
    prState,     \* [PRs -> "open", "merged" or "closed"]
    remote,      \* the release branch on the remote
    rcTags,      \* RC tags on the remote: rcTags[n + 1] is rc<n>, with the
                 \* backports its run had seen done
    finalTags,   \* commits the final tag points to: at most one
    pc, kind, add,  \* [Runs -> ...]: where a run is, its command, its --add
    body,        \* [Runs -> the copy of the issue body the run works on]
    todo,        \* [Runs -> PRs left to pick]
    local,       \* [Runs -> the run's local release branch]
    failed,      \* [Runs -> failed_prs is not empty]
    rcNum,       \* [Runs -> the RC number create-rc computed]
    target,      \* [Runs -> the commit to tag, as the branch up to it]
    faults,      \* commands that have failed so far
    overlapped   \* history: two runs were active at the same time

sharedVars == <<issue, prState, remote, rcTags, finalTags>>
runVars == <<kind, add, body, todo, local, failed, rcNum, target>>
vars == <<sharedVars, runVars, pc, faults, overlapped>>

\* The release has been prepared and its branch cut.
NewBody(prs) ==
    [backports |-> [p \in PRs |-> IF p \in prs THEN "pending" ELSE "absent"],
     rc |-> [n \in RcNums |-> IF n = 0 /\ FirstRelease THEN "todo" ELSE "absent"],
     final |-> "todo"]

Init ==
    /\ \E prs \in Listed : issue = NewBody(prs) /\ body = [w \in Runs |-> issue]
    /\ prState = [p \in PRs |-> "open"]
    /\ remote = <<>> /\ rcTags = <<>> /\ finalTags = {}
    /\ pc = [w \in Runs |-> "off"]
    /\ kind = [w \in Runs |-> "none"]
    /\ add = [w \in Runs |-> {}]
    /\ todo = [w \in Runs |-> {}]
    /\ local = [w \in Runs |-> <<>>]
    /\ failed = [w \in Runs |-> FALSE]
    /\ rcNum = [w \in Runs |-> 0]
    /\ target = [w \in Runs |-> <<>>]
    /\ faults = 0 /\ overlapped = FALSE

At(w, label) == pc[w] = label
Goto(w, label) == pc' = [pc EXCEPT ![w] = label]
Active(w) == pc[w] \notin {"off", "end"}
Fault == faults < MaxFaults /\ faults' = faults + 1
NoFault == UNCHANGED faults

SetBackport(b, p, status) == [b EXCEPT !.backports[p] = status]
SetRc(b, n, state) == [b EXCEPT !.rc[n] = state]
Backports(b, statuses) == {p \in PRs : b.backports[p] \in statuses}

-----------------------------------------------------------------------------
(* Pull requests and maintainers *)

ChangePr(p, state) ==
    /\ prState[p] = "open"
    /\ prState' = [prState EXCEPT ![p] = state]
    /\ UNCHANGED <<issue, remote, rcTags, finalTags, runVars, pc, faults, overlapped>>

\* RELEASING.md: a maintainer edits a line of the checklist.
IgnoreBackport(p) ==
    /\ issue.backports[p] \in {"pending", "error"}
    /\ issue' = SetBackport(issue, p, "ignore")
    /\ UNCHANGED <<prState, remote, rcTags, finalTags, runVars, pc, faults, overlapped>>

\* RELEASING.md, "Failure Behavior": pick by hand, push, check the box.
ResolveByHand(p) ==
    /\ issue.backports[p] = "error" /\ prState[p] = "merged"
    /\ issue' = SetBackport(issue, p, "done")
    /\ remote' = IF p \in PicksOf(remote) THEN remote
                 ELSE Append(remote, [pr |-> p, by |-> Maintainer])
    /\ UNCHANGED <<prState, rcTags, finalTags, runVars, pc, faults, overlapped>>

-----------------------------------------------------------------------------
(* Starting a run; add-backports, and the --add of process-backports *)

Launch(w, k, prs) ==
    /\ At(w, "off")
    /\ k \in {"createRc", "promote"} => prs = {}
    /\ k = "addBackports" => prs # {}
    /\ kind' = [kind EXCEPT ![w] = k]
    /\ add' = [add EXCEPT ![w] = prs]
    /\ Goto(w, IF k = "promote" THEN "fetchTags" ELSE "read")
    /\ overlapped' = (overlapped \/ \E v \in Runs : Active(v))
    /\ UNCHANGED <<sharedVars, body, todo, local, failed, rcNum, target, faults>>

RcTasks(b) == {n \in RcNums : b.rc[n] # "absent"}
NextRcTask(b) == IF RcTasks(b) = {} THEN 0 ELSE Max(RcTasks(b)) + 1

\* Lines already on the checklist are kept; "Tag RC<n>" is added when none is
\* pending, though add-backports leaves a patch release without.
NeedsRcTask(b, k) ==
    /\ \A n \in RcNums : b.rc[n] # "todo"
    /\ k = "addBackports" => RcTasks(b) # {} \/ FirstRelease
WithBackports(b, prs, k) ==
    LET listed == [b EXCEPT !.backports = [p \in PRs |->
            IF p \in prs /\ b.backports[p] = "absent" THEN "pending" ELSE b.backports[p]]]
    IN  IF NeedsRcTask(b, k) THEN SetRc(listed, NextRcTask(b), "todo") ELSE listed

ReadBody(w) ==
    /\ At(w, "read")
    /\ IF add[w] = {}
       THEN /\ body' = [body EXCEPT ![w] = issue]
            /\ Goto(w, "resolve")
       ELSE /\ NeedsRcTask(issue, kind[w]) => NextRcTask(issue) \in RcNums
            /\ body' = [body EXCEPT ![w] = WithBackports(issue, add[w], kind[w])]
            /\ Goto(w, "writeAdded")
    /\ UNCHANGED <<sharedVars, kind, add, todo, local, failed, rcNum, target,
                   faults, overlapped>>

WriteAdded(w) ==
    /\ At(w, "writeAdded")
    /\ issue' = body[w]
    /\ Goto(w, IF kind[w] = "addBackports" THEN "end" ELSE "resolve")
    /\ UNCHANGED <<prState, remote, rcTags, finalTags, runVars, faults, overlapped>>

-----------------------------------------------------------------------------
(* process-backports, alone or as the first part of create-rc *)

\* ProcessBackports.run() returned: create-rc goes on if nothing failed.
AfterBackports(w, anyFailed) ==
    IF kind[w] = "createRc" /\ ~anyFailed THEN "gate" ELSE "end"

\* The pending filter keeps status=ignore.  Open pull requests wait, closed
\* and unresolvable ones become an error on the checklist.  The body is written
\* once for each of them; a failed write is passed over, its mark stays in the
\* run's copy and goes out with the next write.  `written` is what the last
\* write that succeeds has marked: the ones up to some line of the checklist,
\* whose order is not modelled.
ResolvePrs(w) ==
    /\ At(w, "resolve")
    /\ \E unresolved \in {{}} \cup {{p} : p \in PRs} :
        LET pending == Backports(body[w], {"pending", "ignore"})
            bad == {p \in pending : prState[p] = "closed"} \cup (pending \cap unresolved)
            picks == {p \in pending \ bad : prState[p] = "merged"}
            Marked(prs) == [body[w] EXCEPT !.backports = [p \in PRs |->
                        IF p \in prs THEN "error" ELSE body[w].backports[p]]]
        IN  /\ unresolved \subseteq pending
            /\ \E written \in SUBSET bad :
                /\ issue' = IF written = {} THEN issue ELSE Marked(written)
                /\ IF unresolved = {} /\ written = bad THEN NoFault ELSE Fault
            /\ body' = [body EXCEPT ![w] = Marked(bad)]
            /\ failed' = [failed EXCEPT ![w] = bad # {}]
            /\ todo' = [todo EXCEPT ![w] = picks]
            /\ Goto(w, IF picks = {} THEN AfterBackports(w, bad # {}) ELSE "checkout")
    /\ UNCHANGED <<prState, remote, rcTags, finalTags, kind, add, local, rcNum,
                   target, overlapped>>

Checkout(w) ==
    /\ At(w, "checkout")
    /\ local' = [local EXCEPT ![w] = remote]
    /\ Goto(w, "pick")
    /\ UNCHANGED <<sharedVars, kind, add, body, todo, failed, rcNum, target,
                   faults, overlapped>>

\* sort_commits_chronologically
NextPick(w) == CHOOSE p \in todo[w] : \A q \in todo[w] : p <= q

\* A pull request already on the branch picks as an empty commit, which fails,
\* unless it adds a news file: the branch deleted that file, so it comes back.
CherryPick(w) ==
    LET p == NextPick(w) IN
    /\ At(w, "pick")
    /\ \/ /\ p \in PicksOf(local[w]) => p \in WithNews
          /\ local' = [local EXCEPT ![w] = Append(@, [pr |-> p, by |-> w])]
          /\ Goto(w, "push")
          /\ NoFault
       \/ /\ IF p \in PicksOf(local[w]) \ WithNews THEN NoFault ELSE Fault
          /\ Goto(w, "recordFailure")
          /\ UNCHANGED local
    /\ UNCHANGED <<sharedVars, kind, add, body, todo, failed, rcNum, target, overlapped>>

\* Mutant: the exit code of the push is not looked at.
PushUnchecked(w) ==
    /\ At(w, "push")
    /\ \/ IsPrefix(remote, local[w]) /\ remote' = local[w] /\ NoFault
       \/ /\ IF IsPrefix(remote, local[w]) THEN Fault ELSE NoFault
          /\ UNCHANGED remote
    /\ Goto(w, "recordSuccess")
    /\ UNCHANGED <<issue, prState, rcTags, finalTags, runVars, overlapped>>

\* Mutant: the push is forced.
PushForced(w) ==
    /\ At(w, "push")
    /\ remote' = local[w]
    /\ Goto(w, "recordSuccess") /\ NoFault
    /\ UNCHANGED <<issue, prState, rcTags, finalTags, runVars, overlapped>>

\* News merge, amend and push.  A failure here, or a push that is not a
\* fast-forward, leaves the commit on the local branch: `cherry-pick --abort`
\* has nothing to abort.  A push may fail although the remote took it.
Push(w) ==
    /\ At(w, "push")
    /\ \/ /\ IsPrefix(remote, local[w])
          /\ remote' = local[w]
          /\ \/ Goto(w, "recordSuccess") /\ NoFault
             \/ Goto(w, "recordFailure") /\ Fault
       \/ /\ IF IsPrefix(remote, local[w]) THEN Fault ELSE NoFault
          /\ Goto(w, "recordFailure")
          /\ UNCHANGED remote
    /\ UNCHANGED <<issue, prState, rcTags, finalTags, runVars, overlapped>>

\* Mutant: every line is marked in the body that was read, not in the last one.
RecordInOldBody(w, status, anyFailed) ==
    LET p == NextPick(w)
        left == todo[w] \ {p}
    IN  /\ \/ issue' = SetBackport(body[w], p, status) /\ NoFault
           \/ UNCHANGED issue /\ Fault
        /\ todo' = [todo EXCEPT ![w] = left]
        /\ failed' = [failed EXCEPT ![w] = anyFailed]
        /\ Goto(w, IF left = {} THEN AfterBackports(w, anyFailed) ELSE "pick")
        /\ UNCHANGED <<body, prState, remote, rcTags, finalTags, kind, add, local,
                       rcNum, target, overlapped>>

\* update_task_in_body changes the run's copy; writing it back may fail, which
\* is logged and passed over.
Record(w, status, anyFailed) ==
    LET p == NextPick(w)
        marked == SetBackport(body[w], p, status)
        left == todo[w] \ {p}
    IN  /\ body' = [body EXCEPT ![w] = marked]
        /\ \/ issue' = marked /\ NoFault
           \/ UNCHANGED issue /\ Fault
        /\ todo' = [todo EXCEPT ![w] = left]
        /\ failed' = [failed EXCEPT ![w] = anyFailed]
        /\ Goto(w, IF left = {} THEN AfterBackports(w, anyFailed) ELSE "pick")
        /\ UNCHANGED <<prState, remote, rcTags, finalTags, kind, add, local,
                       rcNum, target, overlapped>>

RecordSuccess(w) == At(w, "recordSuccess") /\ Record(w, "done", failed[w])

\* Mutant: a status the parser does not know.
RecordFailureAsFailed(w) == At(w, "recordFailure") /\ Record(w, "failed", TRUE)

RecordFailure(w) == At(w, "recordFailure") /\ Record(w, "error", TRUE)

-----------------------------------------------------------------------------
(* create-rc *)

\* The issue is read again.  A patch release's issue has no Prepare Release
\* task, so its preconditions are never met.
Gate(w) ==
    /\ At(w, "gate")
    /\ body' = [body EXCEPT ![w] = issue]
    /\ Goto(w, IF FirstRelease /\ Backports(issue, {"pending", "error"}) = {}
               THEN "fetch" ELSE "end")
    /\ UNCHANGED <<sharedVars, kind, add, todo, local, failed, rcNum, target,
                   faults, overlapped>>

\* Mutant: the branch is not fetched again.
FetchBranchStale(w) ==
    /\ At(w, "fetch")
    /\ target' = [target EXCEPT ![w] = local[w]]
    /\ Goto(w, "nextRc")
    /\ UNCHANGED <<sharedVars, kind, add, body, todo, local, failed, rcNum,
                   faults, overlapped>>

FetchBranch(w) ==
    /\ At(w, "fetch")
    /\ target' = [target EXCEPT ![w] = remote]
    /\ Goto(w, "nextRc")
    /\ UNCHANGED <<sharedVars, kind, add, body, todo, local, failed, rcNum,
                   faults, overlapped>>

NextRc(w) ==
    LET n == Len(rcTags) IN
    /\ At(w, "nextRc") /\ n \in RcNums
    /\ rcNum' = [rcNum EXCEPT ![w] = n]
    /\ IF body[w].rc[n] = "absent"
       THEN /\ body' = [body EXCEPT ![w] = SetRc(@, n, "todo")]
            /\ issue' = SetRc(body[w], n, "todo")
       ELSE UNCHANGED <<body, issue>>
    /\ Goto(w, IF body[w].rc[n] = "done" THEN "end" ELSE "tagRc")
    /\ UNCHANGED <<prState, remote, rcTags, finalTags, kind, add, todo, local,
                   failed, target, faults, overlapped>>

TaggedRc(n, commit) == n < Len(rcTags) /\ rcTags[n + 1].commit = commit

\* The remote refuses a tag that exists, unless it is the same tag at the same
\* commit: that push is "Everything up-to-date".
TagRc(w) ==
    /\ At(w, "tagRc")
    /\ IF Len(rcTags) = rcNum[w]
       THEN /\ rcTags' = Append(rcTags, [commit |-> target[w],
                                        gated |-> Backports(body[w], {"done"})])
            /\ Goto(w, "recordRc")
       ELSE /\ Goto(w, IF TaggedRc(rcNum[w], target[w]) THEN "recordRc" ELSE "end")
            /\ UNCHANGED rcTags
    /\ UNCHANGED <<issue, prState, remote, finalTags, runVars, faults, overlapped>>

RecordRc(w) ==
    /\ At(w, "recordRc")
    /\ issue' = SetRc(body[w], rcNum[w], "done")
    /\ Goto(w, "end")
    /\ UNCHANGED <<prState, remote, rcTags, finalTags, runVars, faults, overlapped>>

-----------------------------------------------------------------------------
(* promote *)

\* X.Y.0 is promoted from its latest RC, a patch from the branch head.
FetchTags(w) ==
    /\ At(w, "fetchTags")
    /\ IF finalTags # {} \/ (FirstRelease /\ rcTags = <<>>)
       THEN Goto(w, "end") /\ UNCHANGED target
       ELSE /\ Goto(w, "readFinal")
            /\ target' = IF FirstRelease
                         THEN [target EXCEPT ![w] = Last(rcTags).commit] ELSE target
    /\ UNCHANGED <<sharedVars, kind, add, body, todo, local, failed, rcNum,
                   faults, overlapped>>

ReadFinal(w) ==
    /\ At(w, "readFinal")
    /\ body' = [body EXCEPT ![w] = issue]
    /\ Goto(w, "compare")
    /\ UNCHANGED <<sharedVars, kind, add, todo, local, failed, rcNum, target,
                   faults, overlapped>>

SetFinal(b, state) == [b EXCEPT !.final = state]

\* Mutant: the head of the branch is promoted.
CompareBranchHead(w) ==
    /\ At(w, "compare")
    /\ Goto(w, "tagFinal") /\ UNCHANGED issue
    /\ target' = [target EXCEPT ![w] = remote]
    /\ UNCHANGED <<prState, remote, rcTags, finalTags, kind, add, body, todo,
                   local, failed, rcNum, faults, overlapped>>

CompareBranch(w) ==
    /\ At(w, "compare")
    /\ IF FirstRelease /\ target[w] # remote
       THEN /\ issue' = SetFinal(body[w], "error")
            /\ Goto(w, "end")
       ELSE Goto(w, "tagFinal") /\ UNCHANGED issue
    /\ target' = [target EXCEPT ![w] = IF FirstRelease THEN @ ELSE remote]
    /\ UNCHANGED <<prState, remote, rcTags, finalTags, kind, add, body, todo,
                   local, failed, rcNum, faults, overlapped>>

\* As in TagRc, pushing the tag again at the same commit succeeds.
TagFinal(w) ==
    /\ At(w, "tagFinal")
    /\ IF finalTags \subseteq {target[w]}
       THEN finalTags' = {target[w]} /\ Goto(w, "recordFinal")
       ELSE Goto(w, "end") /\ UNCHANGED finalTags
    /\ UNCHANGED <<issue, prState, remote, rcTags, runVars, faults, overlapped>>

RecordFinal(w) ==
    /\ At(w, "recordFinal")
    /\ issue' = SetFinal(body[w], "done")
    /\ Goto(w, "end")
    /\ UNCHANGED <<prState, remote, rcTags, finalTags, runVars, faults, overlapped>>

-----------------------------------------------------------------------------
\* A command raises where nothing catches it, or the runner is lost.
Crash(w) ==
    /\ Active(w) /\ Fault
    /\ Goto(w, "end")
    /\ UNCHANGED <<sharedVars, runVars, overlapped>>

Environment ==
    \/ \E p \in PRs :
        \/ ChangePr(p, "merged")
        \/ ChangePr(p, "closed")
        \/ IgnoreBackport(p)
        \/ ResolveByHand(p)
    \/ \E w \in Runs, k \in Commands, prs \in SUBSET PRs : Launch(w, k, prs)

Step(w) ==
    \/ ReadBody(w) \/ WriteAdded(w)
    \/ ResolvePrs(w) \/ Checkout(w) \/ CherryPick(w) \/ Push(w)
    \/ RecordSuccess(w) \/ RecordFailure(w)
    \/ Gate(w) \/ FetchBranch(w) \/ NextRc(w) \/ TagRc(w) \/ RecordRc(w)
    \/ FetchTags(w) \/ ReadFinal(w) \/ CompareBranch(w) \/ TagFinal(w) \/ RecordFinal(w)

Next == Environment \/ \E w \in Runs : Step(w) \/ Crash(w)

\* A run that was started keeps running; nobody has to start one.
Spec == Init /\ [][Next]_vars /\ \A w \in Runs : WF_vars(Step(w))

-----------------------------------------------------------------------------
Labels == {"off", "read", "writeAdded", "resolve", "checkout", "pick", "push",
           "recordSuccess", "recordFailure", "gate", "fetch", "nextRc", "tagRc",
           "recordRc", "fetchTags", "readFinal", "compare", "tagFinal",
           "recordFinal", "end"}

TypeOK ==
    /\ issue \in Bodies
    /\ prState \in [PRs -> {"open", "merged", "closed"}]
    /\ remote \in Branches
    /\ rcTags \in Seq([commit : Branches, gated : SUBSET PRs])
    /\ finalTags \subseteq Branches
    /\ pc \in [Runs -> Labels]
    /\ kind \in [Runs -> Commands \cup {"none"}]
    /\ add \in [Runs -> SUBSET PRs]
    /\ body \in [Runs -> Bodies]
    /\ todo \in [Runs -> SUBSET PRs]
    /\ local \in [Runs -> Branches]
    /\ failed \in [Runs -> BOOLEAN]
    /\ rcNum \in [Runs -> RcNums]
    /\ target \in [Runs -> Branches]
    /\ faults \in 0..MaxFaults /\ overlapped \in BOOLEAN

\* Whatever runs overlap, lose each other's edits or fail half way, what the
\* checklist marks as done has happened: the backport is on the release branch,
\* the RC and the final release are tagged.
ChecklistTellsTheTruth ==
    /\ Backports(issue, {"done"}) \subseteq PicksOf(remote)
    /\ \A n \in RcNums : issue.rc[n] = "done" => n < Len(rcTags)
    /\ issue.final = "done" => finalTags # {}

\* The final X.Y.0 release is a commit that was published as a release
\* candidate, although RCs are tagged and backports pushed while promote runs.
FinalWasCandidate ==
    FirstRelease => \A c \in finalTags : \E i \in DOMAIN rcTags : rcTags[i].commit = c

\* A release candidate contains every backport that its run had read as done
\* when it decided to tag: the branch is fetched after the checklist is read.
RcContainsBackports ==
    \A i \in DOMAIN rcTags : rcTags[i].gated \subseteq PicksOf(rcTags[i].commit)

\* As long as runs do not overlap and no command fails, no pull request is
\* picked twice, and between runs every one on the branch is marked as done,
\* even if a maintainer edited the checklist during a run.
EachBackportOnce ==
    ~overlapped /\ faults = 0 =>
        /\ \A i, j \in DOMAIN remote : remote[i].pr = remote[j].pr => i = j
        /\ (\A w \in Runs : ~Active(w)) =>
                \A p \in PicksOf(remote) : issue.backports[p] = "done"

\* Nothing published is taken back: the release branch only grows, and no tag
\* is moved or removed.
PublishedStays ==
    [][ /\ IsPrefix(remote, remote')
        /\ IsPrefix(rcTags, rcTags')
        /\ finalTags # {} => finalTags' = finalTags ]_vars

\* process-backports logs "Aborting." for a backport it could not apply, marks
\* it with an error, and RELEASING.md leaves it to a maintainer to pick: no
\* step puts on the release branch a pull request that the checklist has in
\* error.  Does not hold: a failure after the cherry-pick leaves the commit on
\* the local branch, and the push of the next backport publishes both.
FailedBackportNotPublished ==
    [][(PicksOf(remote') \ PicksOf(remote)) \cap Backports(issue', {"error"}) = {}]_vars
=============================================================================

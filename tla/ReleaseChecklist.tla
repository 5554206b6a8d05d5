-------------------------- MODULE ReleaseChecklist --------------------------
(* tools/private/release/release_issue.py: the checklist in the body of a     *)
(* release tracking issue, as far as preparation, branch and changelog are    *)
(* concerned; its RC and final tags are in ReleasePipeline.  A version is     *)
(* <<minor, patch>>; commits are positions in main's history, 0 is none.      *)
EXTENDS Naturals

CONSTANT PRs  \* pull requests with a change: what is backported

IsPatch(version) == version[2] # 0

\* A line of the checklist; parsing finds a line that is missing unchecked and
\* without metadata.
Line(checked, status, pr, commit) ==
    [listed |-> TRUE, checked |-> checked, status |-> status,
     pr |-> pr, commit |-> commit]
Missing == [Line(FALSE, "none", 0, 0) EXCEPT !.listed = FALSE]
Todo == Line(FALSE, "none", 0, 0)

\* load_release_tracking_template: a patch release has no tasks before "Tag Final".
Template(version) ==
    [prepare |-> IF IsPatch(version) THEN Missing ELSE Line(FALSE, "awaiting", 0, 0),
     branch |-> IF IsPatch(version) THEN Missing ELSE Todo,
     sync |-> [p \in PRs |-> Missing],
     backports |-> [p \in PRs |-> Missing]]

\* update_task_in_body replaces the whole line, and raises when there is none.
UpdatePrepare(body, line) == [body EXCEPT !.prepare = line]
UpdateBranch(body, line) == [body EXCEPT !.branch = line]
UpdateSync(body, prs, line) ==
    [body EXCEPT !.sync = [p \in PRs |-> IF p \in prs THEN line ELSE @[p]]]
SetBackports(body, prs, line) ==
    [body EXCEPT !.backports = [p \in PRs |-> IF p \in prs THEN line ELSE @[p]]]

\* Lines that are there already are left alone.
AddBackportLines(body, prs) ==
    SetBackports(body, {p \in prs : ~body.backports[p].listed}, Todo)
AddSyncTasks(body, prs) == UpdateSync(body, {p \in prs : ~body.sync[p].listed}, Todo)

\* parse_checklist_state and parse_backports, for the tasks they are read for.
\* Both leave out a status that begins with "error-" as well: nothing gives one to
\* a changelog task, and those of backports are in ReleasePipeline.
SyncPointsTo(body, pr) == {p \in PRs : body.sync[p].listed /\ body.sync[p].pr = pr}
PendingSyncs(body) ==
    {p \in PRs : /\ body.sync[p].listed /\ ~body.sync[p].checked
                 /\ body.sync[p].status # "done"}
Backports(body) == {p \in PRs : body.backports[p].listed}
PendingBackports(body) == {p \in Backports(body) : ~body.backports[p].checked}
=============================================================================

---------------------- MODULE ReleaseTrackingProofs ----------------------
(* What the runs of ReleaseTracking check, for any worlds, jobs, versions and *)
(* pull requests.  Three facts carry the proofs: main only grows, so that     *)
(* what was once true of it stays true; every copy of a checklist, in GitHub  *)
(* or in a job that has read it, claims only what has happened (Honest); and  *)
(* a branch of the tool is an edit of some commit of main (Edited), so that   *)
(* merging it loses no entry, however old it is.                              *)
EXTENDS ReleaseTracking, FiniteSetTheorems, SequenceTheorems, TLAPS

\* A job is a record; what its fields hold depends on where it is.
Fields == {"cmd", "pc", "issue", "pr", "version", "about", "tree", "body", "tracked", "todo"}
IsJob(job) == job = [x \in Fields |-> job[x]]

OnAnIssue == {"pushPrepared", "preparePr", "createPreparePr", "readPrepare", "write",
              "readComplete", "readForBranch", "pushBranch", "readAdd", "process",
              "readSync", "pushSync", "syncPr", "readSyncTasks", "readSynced",
              "readRelease", "writeRelease"}
OnATree == {"findIssue", "createMissing", "pushPrepared"}
HasBody == {"write", "pushBranch", "writeRelease"}

\* What a job may rely on after its last step, when others have moved on.
JobOK(job, commits, list, pulls, cuts, sent) ==
    /\ IsJob(job)
    /\ job.issue \in 0..Len(list) /\ job.pr \in 0..Len(pulls)
    /\ job.tree \in 0..Len(commits) /\ job.about \subseteq PRs
    /\ job.pc \in OnAnIssue => job.issue # 0
    /\ job.pc \in OnATree => job.tree # 0
    /\ job.pc \in {"preparePr", "createPreparePr"} =>
          PrepareBranch(job.version) \in {b.name : b \in sent}
    /\ job.pc = "pushSync" => job.version \in Versions
    /\ job.pc = "syncPr" => SyncBranch(job.version, job.about) \in {b.name : b \in sent}
    /\ job.pc = "prInfo" => job.pr + job.issue # 0
    /\ job.pc = "syncPrInfo" => job.pr # 0
    /\ job.pc \in {"prInfo", "readPrepare"} /\ job.pr # 0 =>
          pulls[job.pr].name.kind = "prepare"
    /\ job.pc = "readPrepare" => job.pr # 0
    /\ job.pc = "readComplete" => /\ job.pr # 0 /\ pulls[job.pr].state = "merged"
                                  /\ pulls[job.pr].name.kind = "prepare"
    /\ job.pc = "readSyncTasks" => /\ job.pr # 0
                                   /\ pulls[job.pr].name.about = job.about
    /\ job.pc = "readSynced" => job.pr # 0 /\ pulls[job.pr].state = "merged"
    /\ job.pc \in HasBody => /\ job.body \in Bodies
                             /\ Honest(job.body, list[job.issue].version[1], pulls, cuts)
    /\ job.pc = "pushBranch" => job.body.prepare.commit # 0

TypeInv ==
    /\ client \in {"gh", "mock"}
    /\ main \in Seq(Trees) /\ main # <<>>
    /\ branches \in [Minors -> [base : Nat, picked : BOOLEAN]]
    /\ tags \subseteq Versions
    /\ issues \in Seq(Issues) /\ prs \in Seq(Pulls) /\ pushed \subseteq Remotes
    /\ events \subseteq DOMAIN prs
    /\ jobs = [j \in Jobs |-> jobs[j]]
    /\ launches \in 0..MaxLaunches /\ faults \in 0..MaxFaults

\* No commit of main takes back what an earlier one lists or announces.
MainInv ==
    /\ \A n \in DOMAIN main : Kept(main[n])
    /\ \A m, n \in DOMAIN main : m =< n => Later(main[m], main[n])

PushedInv ==
    \A b \in pushed : /\ \E n \in DOMAIN main : b.base = main[n]
                      /\ Edited(b.base, b.head, b.name.version)
                      /\ b.name.version \in b.head.sections

PullsInv ==
    \A k \in DOMAIN prs :
        /\ prs[k].issue \in DOMAIN issues
        /\ prs[k].name \in {b.name : b \in pushed}
        /\ prs[k].commit \in 0..Len(main)
        /\ prs[k].state = "merged" =>
              prs[k].commit # 0 /\ prs[k].name.version \in main[prs[k].commit].sections

BranchesInv == \A m \in Minors : branches[m].base \in 0..Len(main)

BodiesInv ==
    \A i \in DOMAIN issues : Honest(issues[i].body, issues[i].version[1], prs, branches)

JobsInv == \A j \in Jobs : JobOK(jobs[j], main, issues, prs, branches, pushed)

\* Until two jobs overlap, what a job found missing is missing when it creates it.
Looked(job, list) ==
    LET open == {i \in DOMAIN list : list[i].open} IN
    /\ job.pc \in {"createIssue", "createPatch"} => open = {}
    /\ job.pc \in {"createMissing", "createRelease"} =>
          {i \in open : list[i].version = job.version} = {}
Apart(list) ==
    \A i, k \in DOMAIN list : list[i].open /\ list[k].open /\ i # k
                              => list[i].version # list[k].version
LookInv ==
    ~overlapped =>
        /\ \A j, k \in Jobs : Active(j) /\ Active(k) => j = k
        /\ \A j \in Jobs : Looked(jobs[j], issues)
        /\ Apart(issues)

IInv == TypeInv /\ MainInv /\ PushedInv /\ PullsInv /\ BranchesInv /\ BodiesInv
        /\ JobsInv /\ LookInv
-----------------------------------------------------------------------------
(* Changelogs *)

\* How EXCEPT changes a tree.
LEMMA TreeExcept ==
    ASSUME NEW t \in Trees, NEW x
    PROVE  [t EXCEPT !.sections = x] = [sections |-> x, listed |-> t.listed,
                                        news |-> t.news, markers |-> t.markers]
<1>1. t = [sections |-> t.sections, listed |-> t.listed, news |-> t.news,
           markers |-> t.markers]
  BY DEF Trees
<1>2. QED BY <1>1

LEMMA PreparedTree ==
    ASSUME NEW t \in Trees, NEW v \in Versions, NEW files \in SUBSET PRs,
           files \subseteq t.news, NEW gone \in SUBSET PRs
    PROVE  LET h == ReplaceVersionNext(UpdateChangelog(t, v, files), gone) IN
           h \in Trees /\ Edited(t, h, v) /\ v \in h.sections
<1> DEFINE more == [t.listed EXCEPT ![v] =
                       [p \in PRs |-> IF p \in files THEN t.listed[v][p] + 1 ELSE t.listed[v][p]]]
           h == [sections |-> t.sections \cup {v}, listed |-> more,
                 news |-> t.news \ files, markers |-> t.markers \ gone]
<1>1. t = [sections |-> t.sections, listed |-> t.listed, news |-> t.news,
           markers |-> t.markers]
  BY DEF Trees
<1>2. MergeNews(t, v, files) = [sections |-> t.sections, listed |-> more,
                                news |-> t.news, markers |-> t.markers]
  BY <1>1 DEF MergeNews
<1>3. NewSection(t, v, files) = [sections |-> t.sections \cup {v}, listed |-> more,
                                 news |-> t.news, markers |-> t.markers]
  <2> DEFINE u == [t EXCEPT !.sections = @ \cup {v}]
  <2>1. u = [sections |-> t.sections \cup {v}, listed |-> t.listed, news |-> t.news,
             markers |-> t.markers]
    BY TreeExcept
  <2>2. NewSection(t, v, files) =
            [u EXCEPT !.listed[v] = [p \in PRs |-> IF p \in files THEN u.listed[v][p] + 1
                                                  ELSE u.listed[v][p]]]
    BY DEF MergeNews, NewSection
  <2> HIDE DEF u
  <2>3. QED BY <2>1, <2>2
<1>4. /\ t.sections \in SUBSET Versions /\ t.listed \in [Versions -> [PRs -> Nat]]
      /\ t.news \in SUBSET PRs /\ t.markers \in SUBSET PRs
  BY DEF Trees
<1>5. /\ more \in [Versions -> [PRs -> Nat]]
      /\ \A p \in PRs, w \in Versions :
            more[w][p] = IF w = v /\ p \in files THEN t.listed[w][p] + 1 ELSE t.listed[w][p]
  BY <1>4
<1> HIDE DEF more
<1>10. ReplaceVersionNext(UpdateChangelog(t, v, files), gone) = h
  <2> DEFINE u == IF v \in t.sections THEN MergeNews(t, v, files)
                  ELSE NewSection(t, v, files)
  <2>1. u = [sections |-> t.sections \cup {v}, listed |-> more, news |-> t.news,
             markers |-> t.markers]
    <3>1. CASE v \in t.sections
      <4>1. t.sections = t.sections \cup {v}
        BY <3>1
      <4>2. QED BY <1>2, <3>1, <4>1
    <3>2. CASE v \notin t.sections
      BY <1>3, <3>2
    <3>3. QED BY <3>1, <3>2
  <2>2. UpdateChangelog(t, v, files) = [u EXCEPT !.news = @ \ files]
    BY DEF UpdateChangelog
  <2> HIDE DEF u
  <2>3. UpdateChangelog(t, v, files) = [sections |-> t.sections \cup {v}, listed |-> more,
                                        news |-> t.news \ files, markers |-> t.markers]
    BY <2>1, <2>2
  <2>4. QED BY <2>3 DEF ReplaceVersionNext
<1>6. h \in Trees
  BY <1>4, <1>5 DEF Trees
<1>7. t.news \ h.news = files
  BY <1>4
<1>8. Edited(t, h, v)
  BY <1>4, <1>5, <1>7 DEF Edited
<1>9. QED BY <1>6, <1>8, <1>10

LEMMA LaterItself == ASSUME NEW t \in Trees PROVE Later(t, t)
BY DEF Later, Trees

LEMMA LaterTransitive ==
    ASSUME NEW t \in Trees, NEW u \in Trees, NEW v \in Trees, Later(t, u), Later(u, v)
    PROVE  Later(t, v)
<1>1. ASSUME NEW p \in PRs PROVE Present(t, p) => Present(v, p)
  BY <1>1 DEF Later
<1>2. ASSUME NEW p \in PRs, NEW w \in Versions PROVE t.listed[w][p] =< v.listed[w][p]
  <2>1. t.listed[w][p] \in Nat /\ u.listed[w][p] \in Nat /\ v.listed[w][p] \in Nat
    BY DEF Trees
  <2>2. t.listed[w][p] =< u.listed[w][p] /\ u.listed[w][p] =< v.listed[w][p]
    BY DEF Later
  <2>3. QED BY <2>1, <2>2
<1>3. QED BY <1>1, <1>2 DEF Later

\* Someone's change is added to main.
LEMMA ChangedTree ==
    ASSUME NEW m \in Trees, NEW p \in PRs, ~Present(m, p), Kept(m)
    PROVE  LET r == [m EXCEPT !.news = @ \cup {p}, !.markers = @ \cup {p}] IN
           r \in Trees /\ Kept(r) /\ Later(m, r)
<1> DEFINE r == [sections |-> m.sections, listed |-> m.listed,
                 news |-> m.news \cup {p}, markers |-> m.markers \cup {p}]
<1>1. /\ m.sections \in SUBSET Versions /\ m.listed \in [Versions -> [PRs -> Nat]]
      /\ m.news \in SUBSET PRs /\ m.markers \in SUBSET PRs
  BY DEF Trees
<1>8. [m EXCEPT !.news = @ \cup {p}, !.markers = @ \cup {p}] = r
  <2> DEFINE N == m.news \cup {p}
             K == m.markers \cup {p}
             u == [m EXCEPT !.news = N]
  <2> HIDE DEF N, K
  <2>1. m = [sections |-> m.sections, listed |-> m.listed, news |-> m.news,
             markers |-> m.markers]
    BY DEF Trees
  <2>2. u = [sections |-> m.sections, listed |-> m.listed, news |-> N,
             markers |-> m.markers]
    BY <2>1
  <2>3. [m EXCEPT !.news = N, !.markers = K] = [u EXCEPT !.markers = K]
    OBVIOUS
  <2> HIDE DEF u
  <2>4. [m EXCEPT !.news = N, !.markers = K] = [sections |-> m.sections,
                                    listed |-> m.listed, news |-> N, markers |-> K]
    BY <2>2, <2>3
  <2>5. QED BY <2>4 DEF N, K
<1>2. r \in Trees
  BY <1>1 DEF Trees
<1>3. \A v \in Versions : m.listed[v][p] = 0
  BY <1>1 DEF Present
<1>4. \A q \in PRs : q # p => (Present(r, q) <=> Present(m, q))
  BY DEF Present
<1>5. Kept(r)
  <2>1. SUFFICES ASSUME NEW q \in PRs, Present(r, q)
                 PROVE  /\ q \in r.news <=> \A v \in Versions : r.listed[v][q] = 0
                        /\ \A v \in Versions : r.listed[v][q] =< 1
    BY DEF Kept
  <2>2. CASE q = p
    BY <1>3, <2>2
  <2>3. CASE q # p
    BY <1>4, <2>1, <2>3 DEF Kept
  <2>4. QED BY <2>2, <2>3
<1>6. Later(m, r)
  BY <1>1 DEF Later, Present
<1>7. QED BY <1>2, <1>5, <1>6, <1>8

\* A branch of the tool is merged: what it lists it takes from news/, and main
\* lists nothing that the commit it was made from still announced, or else
\* lists it once.
LEMMA MergedTree ==
    ASSUME NEW t \in Trees, NEW h \in Trees, NEW m \in Trees, NEW v \in Versions,
           Kept(t), Kept(m), Later(t, m), Edited(t, h, v)
    PROVE  LET r == Merge3(t, h, m) IN
           r \in Trees /\ Kept(r) /\ Later(m, r) /\ h.sections \subseteq r.sections
<1> DEFINE r == Merge3(t, h, m)
           moved == t.news \ h.news
<1>1. /\ r.sections = m.sections \cup h.sections
      /\ r.news = m.news \ moved
      /\ r.markers = m.markers \ (t.markers \ h.markers)
      /\ \A w \in Versions, p \in PRs :
            r.listed[w][p] = Three(t.listed[w][p], h.listed[w][p], m.listed[w][p])
  BY DEF Merge3
<1>2. /\ \A w \in Versions, p \in PRs : /\ t.listed[w][p] \in Nat /\ h.listed[w][p] \in Nat
                                         /\ m.listed[w][p] \in Nat
      /\ m.news \subseteq PRs /\ m.markers \subseteq PRs /\ t.news \subseteq PRs
      /\ m.sections \subseteq Versions /\ h.sections \subseteq Versions
  BY DEF Trees
<1>3. r \in Trees
  <2>1. [w \in Versions |-> [p \in PRs |->
              Three(t.listed[w][p], h.listed[w][p], m.listed[w][p])]]
            \in [Versions -> [PRs -> Nat]]
    BY <1>2 DEF Three
  <2>2. QED BY <1>2, <2>1 DEF Merge3, Trees
<1>4. ASSUME NEW p \in PRs, p \in moved
      PROVE  /\ \A w \in Versions : t.listed[w][p] = 0
             /\ r.listed[v][p] = 1
             /\ \A w \in Versions : w # v => r.listed[w][p] = m.listed[w][p]
  <2>1. Present(t, p) /\ p \in t.news
    BY <1>4 DEF Present
  <2>2. \A w \in Versions : t.listed[w][p] = 0
    BY <2>1 DEF Kept
  <2>3. /\ h.listed[v][p] = 1
        /\ \A w \in Versions : w # v => h.listed[w][p] = t.listed[w][p]
    BY <1>4, <2>2 DEF Edited
  <2>4. QED BY <1>1, <1>2, <2>2, <2>3 DEF Three
<1>5. ASSUME NEW p \in PRs, p \notin moved
      PROVE  \A w \in Versions : r.listed[w][p] = m.listed[w][p]
  <2>1. \A w \in Versions : h.listed[w][p] = t.listed[w][p]
    BY <1>5 DEF Edited
  <2>2. QED BY <1>1, <2>1 DEF Three
<1>6. ASSUME NEW p \in PRs, p \in moved PROVE Present(m, p)
  BY <1>2, <1>6 DEF Later, Present
<1>7. ASSUME NEW p \in PRs, Present(r, p) PROVE Present(m, p)
  <2>1. CASE p \in moved
    BY <1>6, <2>1
  <2>2. CASE p \notin moved
    BY <1>1, <1>5, <1>7, <2>2 DEF Present
  <2>3. QED BY <2>1, <2>2
<1> HIDE DEF r
<1>8. ASSUME NEW p \in PRs, Present(m, p)
      PROVE  /\ p \in r.news <=> \A w \in Versions : r.listed[w][p] = 0
             /\ \A w \in Versions : r.listed[w][p] =< 1 /\ m.listed[w][p] =< r.listed[w][p]
             /\ Present(r, p)
  <2>1. /\ p \in m.news <=> \A w \in Versions : m.listed[w][p] = 0
        /\ \A w \in Versions : m.listed[w][p] =< 1
    BY <1>8 DEF Kept
  <2>2. CASE p \in moved
    <3>1. \A w \in Versions : r.listed[w][p] =< 1 /\ m.listed[w][p] =< r.listed[w][p]
      BY <1>2, <1>4, <2>1, <2>2
    <3>2. p \notin r.news /\ r.listed[v][p] = 1
      BY <1>1, <1>4, <2>2
    <3>3. QED BY <3>1, <3>2 DEF Present
  <2>3. CASE p \notin moved
    <3>1. \A w \in Versions : r.listed[w][p] = m.listed[w][p]
      BY <1>5, <2>3
    <3>2. p \in r.news <=> p \in m.news
      BY <1>1, <2>3
    <3>3. Present(r, p)
      <4>1. CASE p \in m.news
        BY <3>2, <4>1 DEF Present
      <4>2. CASE p \notin m.news
        <5>1. PICK w \in Versions : m.listed[w][p] # 0
          BY <2>1, <4>2
        <5>2. r.listed[w][p] > 0
          BY <1>2, <3>1, <5>1
        <5>3. QED BY <5>2 DEF Present
      <4>3. QED BY <4>1, <4>2
    <3>4. QED BY <1>2, <2>1, <3>1, <3>2, <3>3
  <2>4. QED BY <2>2, <2>3
<1>9. ASSUME NEW p \in PRs, NEW w \in Versions PROVE m.listed[w][p] =< r.listed[w][p]
  <2>1. CASE Present(m, p)
    BY <1>8, <2>1
  <2>2. CASE ~Present(m, p)
    BY <1>2, <2>2 DEF Present, r, Merge3, Three, Trees, Later, Edited
  <2>3. QED BY <2>1, <2>2
<1>10. Kept(r)
  BY <1>7, <1>8 DEF Kept
<1>11. Later(m, r)
  BY <1>8, <1>9 DEF Later
<1>12. QED BY <1>1, <1>3, <1>10, <1>11 DEF r
-----------------------------------------------------------------------------
(* Checklists *)

LEMMA LineType ==
    ASSUME NEW checked \in BOOLEAN, NEW status \in {"none", "awaiting", "pending", "done"},
           NEW pr \in Nat, NEW commit \in Nat
    PROVE  /\ Line(checked, status, pr, commit) \in Lines
           /\ Line(checked, status, pr, commit).checked = checked
           /\ Line(checked, status, pr, commit).pr = pr
           /\ Line(checked, status, pr, commit).commit = commit
BY DEF Line, Lines

\* Lines that claim nothing.
LEMMA EmptyLines ==
    \A line \in {Missing, Todo, Line(FALSE, "awaiting", 0, 0)} :
        line \in Lines /\ line.pr = 0 /\ line.commit = 0 /\ ~line.checked
<1>1. ASSUME NEW line \in Lines, NEW no \in BOOLEAN
      PROVE  /\ [line EXCEPT !.listed = no] \in Lines
             /\ [line EXCEPT !.listed = no].checked = line.checked
             /\ [line EXCEPT !.listed = no].pr = line.pr
             /\ [line EXCEPT !.listed = no].commit = line.commit
  BY DEF Lines
<1>2. /\ Todo \in Lines /\ Todo.pr = 0 /\ Todo.commit = 0 /\ ~Todo.checked
      /\ Todo = Line(FALSE, "none", 0, 0)
  BY DEF Todo, Line, Lines
<1>3. LET line == Line(FALSE, "awaiting", 0, 0) IN
      line \in Lines /\ line.pr = 0 /\ line.commit = 0 /\ ~line.checked
  BY DEF Line, Lines
<1>4. Missing \in Lines /\ Missing.pr = 0 /\ Missing.commit = 0 /\ ~Missing.checked
  BY <1>1, <1>2 DEF Missing
<1>5. QED BY <1>2, <1>3, <1>4

\* How a line is replaced.
LEMMA BodyExcept ==
    ASSUME NEW body \in Bodies, NEW line \in Lines, NEW P
    PROVE  /\ UpdatePrepare(body, line) \in Bodies
           /\ UpdatePrepare(body, line).prepare = line
           /\ UpdatePrepare(body, line).branch = body.branch
           /\ UpdatePrepare(body, line).sync = body.sync
           /\ UpdateBranch(body, line) \in Bodies
           /\ UpdateBranch(body, line).prepare = body.prepare
           /\ UpdateBranch(body, line).branch = line
           /\ UpdateBranch(body, line).sync = body.sync
           /\ UpdateSync(body, P, line) \in Bodies
           /\ UpdateSync(body, P, line).prepare = body.prepare
           /\ UpdateSync(body, P, line).branch = body.branch
           /\ \A p \in PRs : UpdateSync(body, P, line).sync[p] =
                                IF p \in P THEN line ELSE body.sync[p]
           /\ SetBackports(body, P, line) \in Bodies
           /\ SetBackports(body, P, line).prepare = body.prepare
           /\ SetBackports(body, P, line).branch = body.branch
           /\ SetBackports(body, P, line).sync = body.sync
<1> DEFINE synced == [p \in PRs |-> IF p \in P THEN line ELSE body.sync[p]]
           ported == [p \in PRs |-> IF p \in P THEN line ELSE body.backports[p]]
<1>1. /\ body = [prepare |-> body.prepare, branch |-> body.branch,
                 sync |-> body.sync, backports |-> body.backports]
      /\ body.prepare \in Lines /\ body.branch \in Lines
      /\ body.sync \in [PRs -> Lines] /\ body.backports \in [PRs -> Lines]
  BY DEF Bodies
<1>2. synced \in [PRs -> Lines] /\ ported \in [PRs -> Lines]
  BY <1>1
<1>3. UpdatePrepare(body, line) = [prepare |-> line, branch |-> body.branch,
                                   sync |-> body.sync, backports |-> body.backports]
  BY <1>1 DEF UpdatePrepare
<1>4. UpdateBranch(body, line) = [prepare |-> body.prepare, branch |-> line,
                                  sync |-> body.sync, backports |-> body.backports]
  BY <1>1 DEF UpdateBranch
<1>5. UpdateSync(body, P, line) = [prepare |-> body.prepare, branch |-> body.branch,
                                   sync |-> synced, backports |-> body.backports]
  BY <1>1 DEF UpdateSync
<1>6. SetBackports(body, P, line) = [prepare |-> body.prepare, branch |-> body.branch,
                                     sync |-> body.sync, backports |-> ported]
  BY <1>1 DEF SetBackports
<1>7. \A p \in PRs : synced[p] = IF p \in P THEN line ELSE body.sync[p]
  OBVIOUS
<1> HIDE DEF synced, ported
<1>8. /\ UpdatePrepare(body, line) \in Bodies
      /\ UpdatePrepare(body, line).prepare = line
      /\ UpdatePrepare(body, line).branch = body.branch
      /\ UpdatePrepare(body, line).sync = body.sync
  BY <1>1, <1>3 DEF Bodies
<1>9. /\ UpdateBranch(body, line) \in Bodies
      /\ UpdateBranch(body, line).prepare = body.prepare
      /\ UpdateBranch(body, line).branch = line
      /\ UpdateBranch(body, line).sync = body.sync
  BY <1>1, <1>4 DEF Bodies
<1>10. /\ UpdateSync(body, P, line) \in Bodies
       /\ UpdateSync(body, P, line).prepare = body.prepare
       /\ UpdateSync(body, P, line).branch = body.branch
       /\ UpdateSync(body, P, line).sync = synced
  BY <1>1, <1>2, <1>5 DEF Bodies
<1>11. /\ SetBackports(body, P, line) \in Bodies
       /\ SetBackports(body, P, line).prepare = body.prepare
       /\ SetBackports(body, P, line).branch = body.branch
       /\ SetBackports(body, P, line).sync = body.sync
  BY <1>1, <1>2, <1>6 DEF Bodies
<1>12. QED BY <1>7, <1>8, <1>9, <1>10, <1>11

\* A new checklist claims nothing.
LEMMA TemplateHonest ==
    ASSUME NEW version \in Versions, NEW minor, NEW pulls, NEW cuts
    PROVE  Template(version) \in Bodies /\ Honest(Template(version), minor, pulls, cuts)
<1>1. Missing \in Lines /\ Todo \in Lines /\ Line(FALSE, "awaiting", 0, 0) \in Lines
  BY EmptyLines
<1>4. Template(version) \in Bodies
  BY <1>1 DEF Template, Bodies
<1>5. /\ Template(version).prepare.pr = 0 /\ ~Template(version).prepare.checked
      /\ Template(version).prepare.commit = 0 /\ ~Template(version).branch.checked
      /\ \A p \in PRs : /\ Template(version).sync[p].pr = 0
                        /\ ~Template(version).sync[p].checked
  BY EmptyLines DEF Template
<1>6. Honest(Template(version), minor, pulls, cuts)
  BY <1>5 DEF Honest
<1>7. QED BY <1>4, <1>6

\* Whether a checklist is honest depends on three of its parts.
LEMMA SameHonest ==
    ASSUME NEW old, NEW new, NEW minor, NEW pulls, NEW cuts, Honest(old, minor, pulls, cuts),
           new.prepare = old.prepare, new.branch = old.branch, new.sync = old.sync
    PROVE  Honest(new, minor, pulls, cuts)
BY DEF Honest

\* Adding pull requests claims nothing of them.
LEMMA WithPrsHonest ==
    ASSUME NEW body \in Bodies, NEW P, NEW minor, NEW pulls, NEW cuts,
           Honest(body, minor, pulls, cuts)
    PROVE  WithPrs(body, P) \in Bodies /\ Honest(WithPrs(body, P), minor, pulls, cuts)
<1> DEFINE ported == AddBackportLines(body, P)
           new == WithPrs(body, P)
<1>1. Todo \in Lines /\ Todo.pr = 0 /\ ~Todo.checked
  BY EmptyLines
<1>2. /\ ported \in Bodies /\ ported.prepare = body.prepare
      /\ ported.branch = body.branch /\ ported.sync = body.sync
  BY <1>1, BodyExcept DEF AddBackportLines
<1> HIDE DEF ported
<1>3. /\ new \in Bodies /\ new.prepare = ported.prepare /\ new.branch = ported.branch
      /\ \A p \in PRs : new.sync[p] \in {Todo, ported.sync[p]}
  <2> DEFINE Q == {p \in P : ~ported.sync[p].listed}
  <2>1. new = UpdateSync(ported, Q, Todo)
    BY DEF WithPrs, AddSyncTasks, ported
  <2> HIDE DEF Q, new
  <2>2. QED BY <1>1, <1>2, <2>1, BodyExcept
<1> HIDE DEF new
<1>4. Honest(new, minor, pulls, cuts)
  BY <1>1, <1>2, <1>3 DEF Honest
<1>5. QED BY <1>3, <1>4 DEF new

-----------------------------------------------------------------------------
(* What never becomes untrue *)

\* Main, the issues, the pull requests, the branches of the tool and the release
\* branches only grow; a merged pull request stays as it is.
Grows ==
    /\ Len(main) =< Len(main')
    /\ Len(issues) =< Len(issues')
    /\ \A i \in DOMAIN issues : issues'[i].version = issues[i].version
    /\ Len(prs) =< Len(prs')
    /\ \A k \in DOMAIN prs :
          /\ prs'[k].name = prs[k].name
          /\ prs[k].state = "merged" => /\ prs'[k].state = "merged"
                                        /\ prs'[k].commit = prs[k].commit
    /\ \A m \in Minors : branches[m].base =< branches'[m].base
    /\ {b.name : b \in pushed} \subseteq {b.name : b \in pushed'}

LEMMA MinorOf == ASSUME NEW v \in Versions PROVE v[1] \in Minors /\ v[1] \in Nat
BY VersionsAssumption DEF Minors

LEMMA SeqDomain ==
    ASSUME NEW S, NEW s \in Seq(S)
    PROVE  DOMAIN s = 1..Len(s) /\ Len(s) \in Nat /\ \A i \in DOMAIN s : s[i] \in S
BY ElementOfSeq, LenProperties

LEMMA Domains ==
    ASSUME TypeInv
    PROVE  /\ DOMAIN main = 1..Len(main) /\ Len(main) \in Nat /\ Len(main) # 0
           /\ DOMAIN issues = 1..Len(issues) /\ Len(issues) \in Nat
           /\ DOMAIN prs = 1..Len(prs) /\ Len(prs) \in Nat
           /\ \A n \in DOMAIN main : main[n] \in Trees
           /\ \A i \in DOMAIN issues : issues[i] \in Issues
           /\ \A k \in DOMAIN prs : prs[k] \in Pulls
           /\ \A i \in DOMAIN issues : /\ issues[i].version \in Versions
                                       /\ issues[i].body \in Bodies
                                       /\ issues[i].version[1] \in Minors
           /\ MainTree \in Trees
<1>1. /\ DOMAIN main = 1..Len(main) /\ Len(main) \in Nat /\ Len(main) # 0
      /\ DOMAIN issues = 1..Len(issues) /\ Len(issues) \in Nat
      /\ DOMAIN prs = 1..Len(prs) /\ Len(prs) \in Nat
      /\ \A n \in DOMAIN main : main[n] \in Trees
      /\ \A i \in DOMAIN issues : issues[i] \in Issues
      /\ \A k \in DOMAIN prs : prs[k] \in Pulls
  BY ElementOfSeq, LenProperties, EmptySeq DEF TypeInv
<1>2. \A i \in DOMAIN issues : issues[i].version \in Versions /\ issues[i].body \in Bodies
  BY <1>1 DEF Issues
<1>3. MainTree \in Trees
  BY <1>1 DEF MainTree
<1>4. QED BY <1>1, <1>2, <1>3, MinorOf

LEMMA DomainsNext ==
    ASSUME TypeInv'
    PROVE  /\ DOMAIN main' = 1..Len(main') /\ Len(main') \in Nat
           /\ DOMAIN issues' = 1..Len(issues') /\ Len(issues') \in Nat
           /\ DOMAIN prs' = 1..Len(prs') /\ Len(prs') \in Nat
BY SeqDomain DEF TypeInv

LEMMA HonestStays ==
    ASSUME TypeInv, TypeInv', Grows, NEW body \in Bodies, NEW minor \in Minors,
           Honest(body, minor, prs, branches)
    PROVE  Honest(body, minor, prs', branches')
<1>1. /\ branches[minor].base \in Nat /\ branches'[minor].base \in Nat
      /\ body.branch.commit \in Nat
  BY DEF TypeInv, Bodies, Lines
<1>2. DOMAIN prs \subseteq DOMAIN prs'
  BY Domains, DomainsNext DEF Grows
<1>3. body.branch.checked => branches'[minor].base >= body.branch.commit
  BY <1>1 DEF Honest, Grows
<1>4. body.prepare.pr # 0 => /\ body.prepare.pr \in DOMAIN prs'
                             /\ prs'[body.prepare.pr].name.kind = "prepare"
  BY <1>2 DEF Honest, Grows
<1>5. body.prepare.checked \/ body.prepare.commit # 0 =>
          /\ body.prepare.pr # 0 /\ prs'[body.prepare.pr].state = "merged"
          /\ body.prepare.commit = prs'[body.prepare.pr].commit
  BY DEF Honest, Grows
<1>6. ASSUME NEW p \in PRs
      PROVE  LET k == body.sync[p].pr IN
             /\ k # 0 => k \in DOMAIN prs' /\ p \in prs'[k].name.about
             /\ body.sync[p].checked => k # 0 /\ prs'[k].state = "merged"
  BY <1>2 DEF Honest, Grows
<1>7. QED BY <1>3, <1>4, <1>5, <1>6 DEF Honest

LEMMA JobStays ==
    ASSUME TypeInv, TypeInv', Grows, NEW job,
           JobOK(job, main, issues, prs, branches, pushed)
    PROVE  JobOK(job, main', issues', prs', branches', pushed')
<1>1. /\ job.issue \in 0..Len(issues') /\ job.pr \in 0..Len(prs')
      /\ job.tree \in 0..Len(main')
  BY Domains, DomainsNext DEF Grows, JobOK
<1>2. job.pr # 0 => /\ prs'[job.pr].name = prs[job.pr].name
                    /\ prs[job.pr].state = "merged" => prs'[job.pr].state = "merged"
  BY Domains DEF Grows, JobOK
<1>3. {b.name : b \in pushed} \subseteq {b.name : b \in pushed'}
  BY DEF Grows
<1>4. job.pc \in HasBody =>
          /\ job.body \in Bodies
          /\ Honest(job.body, issues'[job.issue].version[1], prs', branches')
  <2>1. SUFFICES ASSUME job.pc \in HasBody
                 PROVE  Honest(job.body, issues'[job.issue].version[1], prs', branches')
    BY DEF JobOK
  <2>2. job.issue \in DOMAIN issues
    BY <2>1, Domains DEF JobOK, HasBody, OnAnIssue
  <2>3. /\ issues'[job.issue].version = issues[job.issue].version
        /\ issues[job.issue].version[1] \in Minors
    BY <2>2, Domains DEF Grows
  <2>4. QED BY <2>1, <2>3, HonestStays DEF JobOK
<1>5. QED BY <1>1, <1>2, <1>3, <1>4 DEF JobOK

\* Only one job has taken a step.
LEMMA JobsStay ==
    ASSUME TypeInv, TypeInv', Grows, JobsInv, NEW j \in Jobs, NEW job, Become(j, job),
           JobOK(job, main', issues', prs', branches', pushed')
    PROVE  JobsInv'
<1>1. ASSUME NEW i \in Jobs
      PROVE  JobOK(jobs'[i], main', issues', prs', branches', pushed')
  <2>1. CASE i = j
    <3>1. jobs'[i] = job
      BY <2>1 DEF Become, TypeInv
    <3>2. QED BY <3>1
  <2>2. CASE i # j
    <3>1. jobs'[i] = jobs[i]
      BY <2>2 DEF Become, TypeInv
    <3>2. JobOK(jobs[i], main, issues, prs, branches, pushed)
      BY DEF JobsInv
    <3>3. QED BY <3>1, <3>2, JobStays
  <2>3. QED BY <2>1, <2>2
<1>2. QED BY <1>1 DEF JobsInv
-----------------------------------------------------------------------------
(* Steps that change nothing but the job that takes them *)

OK(job) == JobOK(job, main, issues, prs, branches, pushed)

\* A job that is active has a type; at a place it knows what it needs there.
LEMMA JobAt ==
    ASSUME IInv, NEW j \in Jobs
    PROVE  /\ OK(jobs[j]) /\ IsJob(jobs[j])
           /\ jobs[j].issue \in 0..Len(issues) /\ jobs[j].pr \in 0..Len(prs)
           /\ jobs[j].tree \in 0..Len(main) /\ jobs[j].about \subseteq PRs
BY DEF IInv, JobsInv, JobOK, OK

LEMMA NoJobOK ==
    ASSUME TypeInv, NEW commits \in Seq(Trees), NEW list \in Seq(Issues), NEW pulls \in Seq(Pulls),
           NEW cuts, NEW sent
    PROVE  JobOK(NoJob, commits, list, pulls, cuts, sent) /\ NoJob.pc = "off"
<1>1. IsJob(NoJob) /\ NoJob.pc = "off" /\ NoJob.issue = 0 /\ NoJob.pr = 0
      /\ NoJob.tree = 0 /\ NoJob.about = {}
  BY DEF NoJob, IsJob, Fields
<1>2. 0 \in 0..Len(commits) /\ 0 \in 0..Len(list) /\ 0 \in 0..Len(pulls)
  BY SeqDomain
<1>3. QED BY <1>1, <1>2 DEF JobOK, OnAnIssue, OnATree, HasBody

\* No issue was opened.
LEMMA LookStays ==
    ASSUME TypeInv, LookInv, NEW j \in Jobs, NEW job, Become(j, job),
           Active(j) \/ job.pc = "off", UNCHANGED overlapped,
           \A i \in DOMAIN issues' : issues'[i].open =>
              /\ i \in DOMAIN issues /\ issues[i].open
              /\ issues'[i].version = issues[i].version,
           ~overlapped => Looked(job, issues')
    PROVE  LookInv'
<1>1. SUFFICES ASSUME ~overlapped
               PROVE  /\ \A i, k \in Jobs : jobs'[i].pc # "off" /\ jobs'[k].pc # "off" => i = k
                      /\ \A i \in Jobs : Looked(jobs'[i], issues')
                      /\ Apart(issues')
  BY DEF LookInv, Active
<1>2. \A i \in Jobs : jobs'[i] = IF i = j THEN job ELSE jobs[i]
  BY DEF Become, TypeInv
<1>3. \A i, k \in Jobs : jobs'[i].pc # "off" /\ jobs'[k].pc # "off" => i = k
  BY <1>1, <1>2 DEF LookInv, Active
<1>4. ASSUME NEW i \in Jobs PROVE Looked(jobs'[i], issues')
  <2>1. CASE i = j
    BY <1>1, <1>2, <2>1
  <2>2. CASE i # j
    BY <1>1, <1>2, <2>2 DEF LookInv, Looked
  <2>3. QED BY <2>1, <2>2
<1>5. Apart(issues')
  BY <1>1 DEF LookInv, Apart
<1>6. QED BY <1>3, <1>4, <1>5

LEMMA QuietStep ==
    ASSUME IInv, NEW j \in Jobs, NEW job, Become(j, job), OK(job),
           Active(j) \/ job.pc = "off", ~overlapped => Looked(job, issues),
           UNCHANGED <<main, branches, tags, issues, prs, pushed>>, UNCHANGED events,
           UNCHANGED <<client, launches, overlapped>>, faults' \in 0..MaxFaults
    PROVE  IInv'
<1>1. TypeInv'
  BY DEF IInv, TypeInv, Become
<1>2. Grows
  <2>1. \A m \in Minors : branches[m].base \in Nat
    BY DEF IInv, TypeInv
  <2>2. QED BY <2>1, Domains DEF IInv, Grows
<1>3. JobsInv'
  <2>1. JobOK(job, main', issues', prs', branches', pushed')
    BY DEF OK
  <2>2. QED BY <1>1, <1>2, <2>1, JobsStay DEF IInv
<1>4. LookInv'
  BY LookStays DEF IInv
<1>5. MainInv' /\ PushedInv' /\ PullsInv' /\ BranchesInv' /\ BodiesInv'
  BY DEF IInv, MainInv, PushedInv, PullsInv, BranchesInv, BodiesInv
<1>6. QED BY <1>1, <1>3, <1>4, <1>5 DEF IInv

LEMMA EndStep ==
    ASSUME IInv, NEW j \in Jobs, End(j), faults' \in 0..MaxFaults,
           UNCHANGED <<main, branches, tags, issues, prs, pushed>>, UNCHANGED events,
           UNCHANGED <<client, launches, overlapped>>
    PROVE  IInv'
<1>1. OK(NoJob) /\ NoJob.pc = "off"
  BY NoJobOK DEF OK, IInv, TypeInv
<1>2. Looked(NoJob, issues)
  BY <1>1 DEF Looked
<1>3. QED BY <1>1, <1>2, QuietStep DEF End

\* The same, without a look that something is missing.
Looking == {"createIssue", "createPatch", "createMissing", "createRelease"}

LEMMA JobGoesOn ==
    ASSUME IInv, NEW j \in Jobs, NEW job, Become(j, job), OK(job), Active(j),
           UNCHANGED <<hub, events, history>>,
           job.pc \in Looking /\ ~overlapped => Looked(job, issues)
    PROVE  IInv'
<1>1. /\ UNCHANGED <<main, branches, tags, issues, prs, pushed>> /\ UNCHANGED events
      /\ UNCHANGED <<client, launches, overlapped>> /\ faults' \in 0..MaxFaults
  BY DEF hub, history, IInv, TypeInv
<1>2. ~overlapped => Looked(job, issues)
  BY DEF Looking, Looked
<1>3. QED BY <1>1, <1>2, QuietStep

LEMMA JobEnds ==
    ASSUME IInv, NEW j \in Jobs, End(j), UNCHANGED <<hub, events, history>>
    PROVE  IInv'
<1>1. /\ UNCHANGED <<main, branches, tags, issues, prs, pushed>> /\ UNCHANGED events
      /\ UNCHANGED <<client, launches, overlapped>> /\ faults' \in 0..MaxFaults
  BY DEF hub, history, IInv, TypeInv
<1>2. QED BY <1>1, EndStep

LEMMA ListIssuesStep ==
    ASSUME IInv, NEW j \in Jobs, ListIssues(j)
    PROVE  IInv'
<1>1. UNCHANGED <<hub, events, history>> /\ Active(j)
  BY DEF ListIssues, At, Active
<1>2. CASE End(j)
  BY <1>1, <1>2, JobEnds
<1>3. CASE OpenIssues = {} /\ Go(j, "createIssue")
  <2> DEFINE new == [jobs[j] EXCEPT !.pc = "createIssue"]
  <2>1. /\ IsJob(new) /\ new.pc = "createIssue" /\ new.issue = jobs[j].issue
        /\ new.pr = jobs[j].pr /\ new.about = jobs[j].about /\ new.tree = jobs[j].tree
    BY JobAt DEF IsJob, Fields
  <2>2. Become(j, new)
    BY <1>3 DEF Go
  <2> HIDE DEF new
  <2>3. OK(new)
    BY <2>1, JobAt DEF OK, JobOK, OnAnIssue, OnATree, HasBody
  <2>4. Looked(new, issues)
    BY <1>3, <2>1 DEF Looked, OpenIssues
  <2>5. QED BY <1>1, <2>2, <2>3, <2>4, JobGoesOn
<1>4. QED BY <1>2, <1>3 DEF ListIssues

-----------------------------------------------------------------------------
(* prepare *)

LEMMA FindIssueStep ==
    ASSUME IInv, NEW j \in Jobs, FindIssue(j)
    PROVE  IInv'
<1>1. UNCHANGED <<hub, events, history>> /\ Active(j) /\ jobs[j].pc = "findIssue"
  BY DEF FindIssue, At, Active
<1>2. jobs[j].tree # 0
  BY <1>1, JobAt DEF OK, JobOK, OnATree
<1>3. CASE End(j)
  BY <1>1, <1>3, JobEnds
<1>4. CASE jobs[j].issue # 0 /\ Go(j, "pushPrepared")
  <2> DEFINE new == [jobs[j] EXCEPT !.pc = "pushPrepared"]
  <2>1. /\ IsJob(new) /\ new.pc = "pushPrepared" /\ new.issue = jobs[j].issue
        /\ new.pr = jobs[j].pr /\ new.about = jobs[j].about /\ new.tree = jobs[j].tree
    BY JobAt DEF IsJob, Fields
  <2>2. Become(j, new)
    BY <1>4 DEF Go
  <2> HIDE DEF new
  <2>3. OK(new)
    BY <1>2, <1>4, <2>1, JobAt DEF OK, JobOK, OnAnIssue, OnATree, HasBody
  <2>4. QED BY <1>1, <2>1, <2>2, <2>3, JobGoesOn DEF Looking
<1>5. CASE IssuesOf(jobs[j].version) = {} /\ Go(j, "createMissing")
  <2> DEFINE new == [jobs[j] EXCEPT !.pc = "createMissing"]
  <2>1. /\ IsJob(new) /\ new.pc = "createMissing" /\ new.issue = jobs[j].issue
        /\ new.pr = jobs[j].pr /\ new.about = jobs[j].about /\ new.tree = jobs[j].tree
        /\ new.version = jobs[j].version
    BY JobAt DEF IsJob, Fields
  <2>2. Become(j, new)
    BY <1>5 DEF Go
  <2> HIDE DEF new
  <2>3. OK(new)
    BY <1>2, <2>1, JobAt DEF OK, JobOK, OnAnIssue, OnATree, HasBody
  <2>4. Looked(new, issues)
    BY <1>5, <2>1 DEF Looked, IssuesOf, OpenIssues
  <2>5. QED BY <1>1, <2>2, <2>3, <2>4, JobGoesOn
<1>6. ASSUME NEW i \in IssuesOf(jobs[j].version),
             Become(j, [jobs[j] EXCEPT !.issue = i, !.pc = "pushPrepared"])
      PROVE  IInv'
  <2> DEFINE new == [jobs[j] EXCEPT !.issue = i, !.pc = "pushPrepared"]
  <2>1. /\ IsJob(new) /\ new.pc = "pushPrepared" /\ new.issue = i
        /\ new.pr = jobs[j].pr /\ new.about = jobs[j].about /\ new.tree = jobs[j].tree
    BY JobAt DEF IsJob, Fields
  <2>2. Become(j, new)
    BY <1>6
  <2> HIDE DEF new
  <2>3. i \in 1..Len(issues)
    BY Domains DEF IssuesOf, OpenIssues, IInv
  <2>4. OK(new)
    BY <1>2, <2>1, <2>3, JobAt DEF OK, JobOK, OnAnIssue, OnATree, HasBody
  <2>5. QED BY <1>1, <2>1, <2>2, <2>4, JobGoesOn DEF Looking
<1>7. QED BY <1>3, <1>4, <1>5, <1>6 DEF FindIssue

LEMMA BodyAt ==
    ASSUME IInv, NEW i \in 1..Len(issues)
    PROVE  /\ issues[i].body \in Bodies /\ issues[i].version \in Versions
           /\ Honest(issues[i].body, issues[i].version[1], prs, branches)
BY Domains DEF IInv, BodiesInv

LEMMA PreparePrStep ==
    ASSUME IInv, NEW j \in Jobs, PreparePr(j)
    PROVE  IInv'
<1> DEFINE open == OpenPrs(PrepareBranch(jobs[j].version))
           named == issues[jobs[j].issue].body.prepare.pr
           reading(k) == [jobs[j] EXCEPT !.pr = k, !.pc = "readPrepare"]
<1>1. UNCHANGED <<hub, events, history>> /\ Active(j) /\ jobs[j].pc = "preparePr"
  BY DEF PreparePr, At, Active
<1>2. /\ jobs[j].issue # 0
      /\ PrepareBranch(jobs[j].version) \in {b.name : b \in pushed}
  BY <1>1, JobAt DEF OK, JobOK, OnAnIssue
<1>3. ASSUME NEW k \in 1..Len(prs), prs[k].name.kind = "prepare", Become(j, reading(k))
      PROVE  IInv'
  <2> DEFINE new == reading(k)
  <2>1. /\ IsJob(new) /\ new.pc = "readPrepare" /\ new.issue = jobs[j].issue
        /\ new.pr = k /\ new.about = jobs[j].about /\ new.tree = jobs[j].tree
    BY JobAt DEF IsJob, Fields
  <2>2. Become(j, new)
    BY <1>3
  <2> HIDE DEF new
  <2>3. k \in 0..Len(prs) /\ k # 0
    BY Domains DEF IInv
  <2>4. OK(new)
    BY <1>2, <1>3, <2>1, <2>3, JobAt DEF OK, JobOK, OnAnIssue, OnATree, HasBody
  <2>5. QED BY <1>1, <2>1, <2>2, <2>4, JobGoesOn DEF Looking
<1>4. ASSUME NEW k \in open, Become(j, reading(k)) PROVE IInv'
  <2>1. k \in 1..Len(prs) /\ prs[k].name.kind = "prepare"
    BY Domains DEF IInv, OpenPrs, PrepareBranch
  <2> HIDE DEF reading
  <2>2. QED BY <1>3, <1>4, <2>1
<1>5. CASE named # 0 /\ Become(j, reading(named))
  <2>1. jobs[j].issue \in 1..Len(issues)
    BY <1>2, JobAt, Domains DEF IInv
  <2>2. named \in 1..Len(prs) /\ prs[named].name.kind = "prepare"
    BY <1>5, <2>1, BodyAt, Domains DEF IInv, Honest
  <2> HIDE DEF reading, named
  <2>3. QED BY <1>3, <1>5, <2>2
<1>6. CASE Go(j, "createPreparePr")
  <2> DEFINE new == [jobs[j] EXCEPT !.pc = "createPreparePr"]
  <2>1. /\ IsJob(new) /\ new.pc = "createPreparePr" /\ new.issue = jobs[j].issue
        /\ new.pr = jobs[j].pr /\ new.about = jobs[j].about /\ new.tree = jobs[j].tree
        /\ new.version = jobs[j].version
    BY JobAt DEF IsJob, Fields
  <2>2. Become(j, new)
    BY <1>6 DEF Go
  <2> HIDE DEF new
  <2>3. OK(new)
    BY <1>2, <2>1, JobAt DEF OK, JobOK, OnAnIssue, OnATree, HasBody
  <2>4. QED BY <1>1, <2>1, <2>2, <2>3, JobGoesOn DEF Looking
<1>7. QED BY <1>4, <1>5, <1>6 DEF PreparePr

\* A job that is about to write a body it has made of one that it read.
LEMMA BodyMade ==
    ASSUME IInv, NEW j \in Jobs, jobs[j].issue # 0, Active(j), NEW pc \in HasBody,
           UNCHANGED <<hub, events, history>>, NEW body \in Bodies,
           Honest(body, issues[jobs[j].issue].version[1], prs, branches),
           pc = "pushBranch" => body.prepare.commit # 0,
           Become(j, [jobs[j] EXCEPT !.pc = pc, !.body = body])
    PROVE  IInv'
<1> DEFINE new == [jobs[j] EXCEPT !.pc = pc, !.body = body]
<1>1. /\ IsJob(new) /\ new.pc = pc /\ new.issue = jobs[j].issue
      /\ new.pr = jobs[j].pr /\ new.about = jobs[j].about /\ new.tree = jobs[j].tree
      /\ new.body = body
  BY JobAt DEF IsJob, Fields
<1>2. Become(j, new)
  OBVIOUS
<1> HIDE DEF new
<1>3. OK(new)
  BY <1>1, JobAt DEF OK, JobOK, OnAnIssue, OnATree, HasBody
<1>4. new.pc \notin Looking
  BY <1>1 DEF Looking, HasBody
<1>5. QED BY <1>2, <1>3, <1>4, JobGoesOn

\* Where it reads one.
LEMMA BodyRead ==
    ASSUME IInv, NEW j \in Jobs, jobs[j].pc \in OnAnIssue
    PROVE  LET body == issues[jobs[j].issue].body IN
           /\ jobs[j].issue # 0 /\ jobs[j].issue \in DOMAIN issues /\ body \in Bodies
           /\ Honest(body, issues[jobs[j].issue].version[1], prs, branches)
<1>1. jobs[j].issue # 0
  BY JobAt DEF OK, JobOK
<1>2. jobs[j].issue \in 1..Len(issues) /\ DOMAIN issues = 1..Len(issues)
  BY <1>1, JobAt, Domains DEF IInv
<1>3. QED BY <1>1, <1>2, BodyAt

LEMMA ReadForPrepareStep ==
    ASSUME IInv, NEW j \in Jobs, ReadForPrepare(j)
    PROVE  IInv'
<1> DEFINE body == issues[jobs[j].issue].body
           line == Line(FALSE, "pending", jobs[j].pr, 0)
           new == UpdatePrepare(body, line)
<1>1. UNCHANGED <<hub, events, history>> /\ Active(j) /\ jobs[j].pc = "readPrepare"
  BY DEF ReadForPrepare, At, Active
<1>2. CASE End(j)
  BY <1>1, <1>2, JobEnds
<1>3. CASE Become(j, [jobs[j] EXCEPT !.pc = "write", !.body = new])
  <2>1. /\ jobs[j].issue # 0 /\ body \in Bodies
        /\ Honest(body, issues[jobs[j].issue].version[1], prs, branches)
    BY <1>1, BodyRead DEF OnAnIssue
  <2>2. jobs[j].pr \in DOMAIN prs /\ prs[jobs[j].pr].name.kind = "prepare" /\ jobs[j].pr \in Nat
    BY <1>1, JobAt, Domains DEF OK, JobOK, IInv
  <2>3. line \in Lines /\ line.pr = jobs[j].pr /\ line.commit = 0 /\ ~line.checked
    BY <2>2 DEF Line, Lines
  <2> HIDE DEF line, body
  <2>4. /\ new \in Bodies /\ new.prepare = line /\ new.branch = body.branch
        /\ new.sync = body.sync
    BY <2>1, <2>3, BodyExcept
  <2> HIDE DEF new
  <2>5. Honest(new, issues[jobs[j].issue].version[1], prs, branches)
    BY <2>1, <2>2, <2>3, <2>4 DEF Honest
  <2>6. QED BY <1>1, <1>3, <2>1, <2>4, <2>5, BodyMade DEF HasBody
<1>4. QED BY <1>2, <1>3 DEF ReadForPrepare
-----------------------------------------------------------------------------
(* complete-prepare and create-release-branch, up to the push *)

LEMMA PrInfoStep ==
    ASSUME IInv, NEW j \in Jobs, PrInfo(j)
    PROVE  IInv'
<1> DEFINE job == jobs[j]
           k == IF job.pr # 0 THEN job.pr ELSE issues[job.issue].body.prepare.pr
           i == IF job.issue # 0 THEN job.issue ELSE PrBodyIssue(k)
           new == [job EXCEPT !.pr = k, !.issue = i, !.pc = "readComplete"]
<1>1. UNCHANGED <<hub, events, history>> /\ Active(j) /\ job.pc = "prInfo"
  BY DEF PrInfo, At, Active
<1>2. CASE End(j)
  BY <1>1, <1>2, JobEnds
<1>3. CASE k # 0 /\ Merged(k) /\ i # 0 /\ Become(j, new)
  <2>1. k \in 1..Len(prs) /\ prs[k].name.kind = "prepare"
    <3>1. CASE job.pr # 0
      BY <1>1, <3>1, JobAt, Domains DEF OK, JobOK, IInv
    <3>2. CASE job.pr = 0
      <4>1. job.issue \in 1..Len(issues)
        BY <1>1, <3>2, JobAt, Domains DEF OK, JobOK, IInv
      <4>2. QED BY <1>3, <3>2, <4>1, BodyAt, Domains DEF IInv, Honest
    <3>3. QED BY <3>1, <3>2
  <2>2. i \in 1..Len(issues)
    <3>1. CASE job.issue # 0
      BY <3>1, JobAt, Domains DEF IInv
    <3>2. CASE job.issue = 0
      <4>1. i = prs[k].issue
        BY <1>3, <3>2 DEF PrBodyIssue
      <4>2. QED BY <2>1, <4>1, Domains DEF IInv, PullsInv
    <3>3. QED BY <3>1, <3>2
  <2> HIDE DEF k, i
  <2>3. /\ IsJob(new) /\ new.pc = "readComplete" /\ new.issue = i /\ new.pr = k
        /\ new.about = job.about /\ new.tree = job.tree
    BY JobAt DEF IsJob, Fields
  <2>4. Become(j, new)
    BY <1>3
  <2> HIDE DEF new
  <2>5. /\ i \in 0..Len(issues) /\ i # 0 /\ k \in 0..Len(prs) /\ k # 0
        /\ prs[k].state = "merged"
    BY <1>3, <2>1, <2>2, Domains DEF IInv, Merged
  <2>6. OK(new)
    BY <2>1, <2>3, <2>5, JobAt DEF OK, JobOK, OnAnIssue, OnATree, HasBody
  <2>7. QED BY <1>1, <2>3, <2>4, <2>6, JobGoesOn DEF Looking
<1>4. QED BY <1>2, <1>3 DEF PrInfo

LEMMA ReadForCompleteStep ==
    ASSUME IInv, NEW j \in Jobs, ReadForComplete(j)
    PROVE  IInv'
<1> DEFINE body == issues[jobs[j].issue].body
           k == jobs[j].pr
           line == Line(TRUE, "done", k, prs[k].commit)
           new == UpdatePrepare(body, line)
<1>1. UNCHANGED <<hub, events, history>> /\ Active(j) /\ jobs[j].pc = "readComplete"
  BY DEF ReadForComplete, At, Active
<1>2. CASE End(j)
  BY <1>1, <1>2, JobEnds
<1>3. CASE Become(j, [jobs[j] EXCEPT !.pc = "write", !.body = new])
  <2>1. /\ jobs[j].issue # 0 /\ body \in Bodies
        /\ Honest(body, issues[jobs[j].issue].version[1], prs, branches)
    BY <1>1, BodyRead DEF OnAnIssue
  <2>2. /\ k \in DOMAIN prs /\ k \in Nat /\ k # 0
        /\ prs[k].name.kind = "prepare" /\ prs[k].state = "merged"
    BY <1>1, JobAt, Domains DEF OK, JobOK, IInv
  <2>3. prs[k].commit \in Nat
    BY <2>2, Domains DEF IInv, Pulls
  <2>4. line \in Lines /\ line.pr = k /\ line.commit = prs[k].commit
    BY <2>2, <2>3 DEF Line, Lines
  <2> HIDE DEF line, body
  <2>5. /\ new \in Bodies /\ new.prepare = line /\ new.branch = body.branch
        /\ new.sync = body.sync
    BY <2>1, <2>4, BodyExcept
  <2> HIDE DEF new
  <2>6. Honest(new, issues[jobs[j].issue].version[1], prs, branches)
    BY <2>1, <2>2, <2>4, <2>5 DEF Honest
  <2>7. QED BY <1>1, <1>3, <2>1, <2>5, <2>6, BodyMade DEF HasBody
<1>4. QED BY <1>2, <1>3 DEF ReadForComplete

LEMMA ReadForBranchStep ==
    ASSUME IInv, NEW j \in Jobs, ReadForBranch(j)
    PROVE  IInv'
<1> DEFINE body == issues[jobs[j].issue].body
           new == [jobs[j] EXCEPT !.body = body, !.pc = "pushBranch"]
<1>1. UNCHANGED <<hub, events, history>> /\ Active(j) /\ jobs[j].pc = "readForBranch"
  BY DEF ReadForBranch, At, Active
<1>2. CASE End(j)
  BY <1>1, <1>2, JobEnds
<1>3. CASE body.prepare.commit # 0 /\ Become(j, new)
  <2>1. /\ jobs[j].issue # 0 /\ body \in Bodies
        /\ Honest(body, issues[jobs[j].issue].version[1], prs, branches)
    BY <1>1, BodyRead DEF OnAnIssue
  <2> HIDE DEF body
  <2>2. new = [jobs[j] EXCEPT !.pc = "pushBranch", !.body = body]
    BY JobAt DEF IsJob, Fields
  <2>3. QED BY <1>1, <1>3, <2>1, <2>2, BodyMade DEF HasBody
<1>4. QED BY <1>2, <1>3 DEF ReadForBranch

-----------------------------------------------------------------------------
(* Backports and sync-changelog *)

\* A job that goes on with an issue.
LEMMA OnWithIssue ==
    ASSUME IInv, NEW j \in Jobs, Active(j), UNCHANGED <<hub, events, history>>,
           NEW i \in DOMAIN issues, NEW pc \in {"readSync", "readAdd", "process"},
           Become(j, [jobs[j] EXCEPT !.issue = i, !.pc = pc])
    PROVE  IInv'
<1> DEFINE new == [jobs[j] EXCEPT !.issue = i, !.pc = pc]
<1>1. /\ IsJob(new) /\ new.pc = pc /\ new.issue = i /\ new.pr = jobs[j].pr
      /\ new.about = jobs[j].about /\ new.tree = jobs[j].tree
  BY JobAt DEF IsJob, Fields
<1>2. Become(j, new)
  OBVIOUS
<1> HIDE DEF new
<1>3. i \in 0..Len(issues) /\ i # 0
  BY Domains DEF IInv
<1>4. OK(new)
  BY <1>1, <1>3, JobAt DEF OK, JobOK, OnAnIssue, OnATree, HasBody
<1>5. QED BY <1>1, <1>2, <1>4, JobGoesOn DEF Looking

LEMMA DiscoverStep ==
    ASSUME IInv, NEW j \in Jobs, Discover(j)
    PROVE  IInv'
<1> DEFINE next == IF jobs[j].cmd = "sync" THEN "readSync" ELSE "readAdd"
<1>1. UNCHANGED <<hub, events, history>> /\ Active(j)
  BY DEF Discover, At, Active
<1>2. next \in {"readSync", "readAdd", "process"}
  OBVIOUS
<1> HIDE DEF next
<1>3. CASE End(j)
  BY <1>1, <1>3, JobEnds
<1>4. CASE jobs[j].issue # 0 /\ Go(j, next)
  <2>1. jobs[j].issue \in DOMAIN issues
    BY <1>4, JobAt, Domains DEF IInv
  <2>2. [jobs[j] EXCEPT !.pc = next] = [jobs[j] EXCEPT !.issue = jobs[j].issue, !.pc = next]
    BY JobAt DEF IsJob, Fields
  <2>3. QED BY <1>1, <1>2, <1>4, <2>1, <2>2, OnWithIssue DEF Go
<1>5. ASSUME NEW i \in OpenIssues, Become(j, [jobs[j] EXCEPT !.issue = i, !.pc = next])
      PROVE  IInv'
  BY <1>1, <1>2, <1>5, OnWithIssue DEF OpenIssues
<1>6. CASE OpenIssues = {} /\ Go(j, "createPatch")
  <2> DEFINE new == [jobs[j] EXCEPT !.pc = "createPatch"]
  <2>1. /\ IsJob(new) /\ new.pc = "createPatch" /\ new.issue = jobs[j].issue
        /\ new.pr = jobs[j].pr /\ new.about = jobs[j].about /\ new.tree = jobs[j].tree
    BY JobAt DEF IsJob, Fields
  <2>2. Become(j, new)
    BY <1>6 DEF Go
  <2> HIDE DEF new
  <2>3. OK(new)
    BY <2>1, JobAt DEF OK, JobOK, OnAnIssue, OnATree, HasBody
  <2>4. Looked(new, issues)
    BY <1>6, <2>1 DEF Looked, OpenIssues
  <2>5. QED BY <1>1, <2>2, <2>3, <2>4, JobGoesOn
<1>7. QED BY <1>3, <1>4, <1>5, <1>6 DEF Discover, next

LEMMA ReadForAddStep ==
    ASSUME IInv, NEW j \in Jobs, ReadForAdd(j)
    PROVE  IInv'
<1> DEFINE body == issues[jobs[j].issue].body
           new == WithPrs(body, jobs[j].about)
<1>1. /\ UNCHANGED <<hub, events, history>> /\ Active(j) /\ jobs[j].pc = "readAdd"
      /\ Become(j, [jobs[j] EXCEPT !.body = new, !.pc = "write"])
  BY DEF ReadForAdd, At, Active
<1>2. /\ jobs[j].issue # 0 /\ body \in Bodies
      /\ Honest(body, issues[jobs[j].issue].version[1], prs, branches)
  BY <1>1, BodyRead DEF OnAnIssue
<1> HIDE DEF body
<1>3. new \in Bodies /\ Honest(new, issues[jobs[j].issue].version[1], prs, branches)
  BY <1>2, WithPrsHonest
<1> HIDE DEF new
<1>4. [jobs[j] EXCEPT !.body = new, !.pc = "write"]
          = [jobs[j] EXCEPT !.pc = "write", !.body = new]
  BY JobAt DEF IsJob, Fields
<1>5. QED BY <1>1, <1>2, <1>3, <1>4, BodyMade DEF HasBody

LEMMA FindBackportStep ==
    ASSUME IInv, NEW j \in Jobs, FindBackport(j)
    PROVE  IInv'
<1>1. UNCHANGED <<hub, events, history>> /\ Active(j)
  BY DEF FindBackport, At, Active
<1>2. CASE End(j)
  BY <1>1, <1>2, JobEnds
<1>3. ASSUME NEW i \in OpenIssues, Become(j, [jobs[j] EXCEPT !.issue = i, !.pc = "process"])
      PROVE  IInv'
  BY <1>1, <1>3, OnWithIssue DEF OpenIssues
<1>4. QED BY <1>2, <1>3 DEF FindBackport

LEMMA ReadForSyncStep ==
    ASSUME IInv, NEW j \in Jobs, ReadForSync(j)
    PROVE  IInv'
<1> DEFINE pending == PendingSyncs(issues[jobs[j].issue].body)
           version == issues[jobs[j].issue].version
           new == [jobs[j] EXCEPT !.about = pending, !.version = version, !.pc = "pushSync"]
<1>1. UNCHANGED <<hub, events, history>> /\ Active(j) /\ jobs[j].pc = "readSync"
  BY DEF ReadForSync, At, Active
<1>2. CASE End(j)
  BY <1>1, <1>2, JobEnds
<1>3. CASE Become(j, new)
  <2>1. jobs[j].issue # 0 /\ jobs[j].issue \in DOMAIN issues
    BY <1>1, BodyRead DEF OnAnIssue
  <2>2. version \in Versions /\ pending \subseteq PRs
    BY <2>1, Domains DEF IInv, PendingSyncs
  <2> HIDE DEF version, pending
  <2>3. /\ IsJob(new) /\ new.pc = "pushSync" /\ new.issue = jobs[j].issue
        /\ new.pr = jobs[j].pr /\ new.about = pending /\ new.tree = jobs[j].tree
        /\ new.version = version
    BY JobAt DEF IsJob, Fields
  <2>4. Become(j, new)
    BY <1>3
  <2> HIDE DEF new
  <2>5. OK(new)
    BY <2>1, <2>2, <2>3, JobAt DEF OK, JobOK, OnAnIssue, OnATree, HasBody
  <2>6. QED BY <1>1, <2>3, <2>4, <2>5, JobGoesOn DEF Looking
<1>4. QED BY <1>2, <1>3 DEF ReadForSync

LEMMA ReadForSyncTasksStep ==
    ASSUME IInv, NEW j \in Jobs, ReadForSyncTasks(j)
    PROVE  IInv'
<1> DEFINE body == issues[jobs[j].issue].body
           line == Line(FALSE, "pending", jobs[j].pr, 0)
           new == UpdateSync(body, jobs[j].about, line)
<1>1. UNCHANGED <<hub, events, history>> /\ Active(j) /\ jobs[j].pc = "readSyncTasks"
  BY DEF ReadForSyncTasks, At, Active
<1>2. CASE End(j)
  BY <1>1, <1>2, JobEnds
<1>3. CASE Become(j, [jobs[j] EXCEPT !.pc = "write", !.body = new])
  <2>1. /\ jobs[j].issue # 0 /\ body \in Bodies
        /\ Honest(body, issues[jobs[j].issue].version[1], prs, branches)
    BY <1>1, BodyRead DEF OnAnIssue
  <2>2. /\ jobs[j].pr \in DOMAIN prs /\ jobs[j].pr \in Nat
        /\ prs[jobs[j].pr].name.about = jobs[j].about
    BY <1>1, JobAt, Domains DEF OK, JobOK, IInv
  <2>3. line \in Lines /\ line.pr = jobs[j].pr /\ ~line.checked
    BY <2>2 DEF Line, Lines
  <2> HIDE DEF line, body
  <2>4. /\ new \in Bodies /\ new.prepare = body.prepare /\ new.branch = body.branch
        /\ \A p \in PRs : new.sync[p] = IF p \in jobs[j].about THEN line ELSE body.sync[p]
    BY <2>1, <2>3, BodyExcept
  <2> HIDE DEF new
  <2>5. Honest(new, issues[jobs[j].issue].version[1], prs, branches)
    BY <2>1, <2>2, <2>3, <2>4 DEF Honest
  <2>6. QED BY <1>1, <1>3, <2>1, <2>4, <2>5, BodyMade DEF HasBody
<1>4. QED BY <1>2, <1>3 DEF ReadForSyncTasks

LEMMA SyncPrInfoStep ==
    ASSUME IInv, NEW j \in Jobs, SyncPrInfo(j)
    PROVE  IInv'
<1> DEFINE k == jobs[j].pr
           i == PrBodyIssue(k)
           new == [jobs[j] EXCEPT !.issue = i, !.pc = "readSynced"]
<1>1. UNCHANGED <<hub, events, history>> /\ Active(j) /\ jobs[j].pc = "syncPrInfo"
  BY DEF SyncPrInfo, At, Active
<1>2. CASE End(j)
  BY <1>1, <1>2, JobEnds
<1>3. CASE Merged(k) /\ i # 0 /\ Become(j, new)
  <2>1. k # 0 /\ k \in DOMAIN prs /\ prs[k].state = "merged"
    BY <1>1, <1>3, JobAt, Domains DEF OK, JobOK, IInv, Merged
  <2>2. i \in 0..Len(issues) /\ i # 0
    <3>1. i = prs[k].issue
      BY <1>3 DEF PrBodyIssue
    <3>2. QED BY <1>3, <2>1, <3>1, Domains DEF IInv, PullsInv
  <2> HIDE DEF i
  <2>3. /\ IsJob(new) /\ new.pc = "readSynced" /\ new.issue = i /\ new.pr = k
        /\ new.about = jobs[j].about /\ new.tree = jobs[j].tree
    BY JobAt DEF IsJob, Fields
  <2>4. Become(j, new)
    BY <1>3
  <2> HIDE DEF new
  <2>5. OK(new)
    BY <2>1, <2>2, <2>3, JobAt DEF OK, JobOK, OnAnIssue, OnATree, HasBody
  <2>6. QED BY <1>1, <2>3, <2>4, <2>5, JobGoesOn DEF Looking
<1>4. QED BY <1>2, <1>3 DEF SyncPrInfo

LEMMA ReadForSyncedStep ==
    ASSUME IInv, NEW j \in Jobs, ReadForSynced(j)
    PROVE  IInv'
<1> DEFINE body == issues[jobs[j].issue].body
           k == jobs[j].pr
           synced == SyncPointsTo(body, k)
           line == Line(TRUE, "done", k, prs[k].commit)
           new == UpdateSync(body, synced, line)
<1>1. UNCHANGED <<hub, events, history>> /\ Active(j) /\ jobs[j].pc = "readSynced"
  BY DEF ReadForSynced, At, Active
<1>2. CASE End(j)
  BY <1>1, <1>2, JobEnds
<1>3. CASE Become(j, [jobs[j] EXCEPT !.pc = "write", !.body = new])
  <2>1. /\ jobs[j].issue # 0 /\ body \in Bodies
        /\ Honest(body, issues[jobs[j].issue].version[1], prs, branches)
    BY <1>1, BodyRead DEF OnAnIssue
  <2>2. k \in DOMAIN prs /\ k \in Nat /\ k # 0 /\ prs[k].state = "merged"
    BY <1>1, JobAt, Domains DEF OK, JobOK, IInv
  <2>3. prs[k].commit \in Nat
    BY <2>2, Domains DEF IInv, Pulls
  <2>4. line \in Lines /\ line.pr = k
    BY <2>2, <2>3 DEF Line, Lines
  <2>5. \A p \in PRs : p \in synced => body.sync[p].pr = k
    BY DEF SyncPointsTo
  <2> HIDE DEF line, body, synced
  <2>6. /\ new \in Bodies /\ new.prepare = body.prepare /\ new.branch = body.branch
        /\ \A p \in PRs : new.sync[p] = IF p \in synced THEN line ELSE body.sync[p]
    BY <2>1, <2>4, BodyExcept
  <2> HIDE DEF new
  <2>7. Honest(new, issues[jobs[j].issue].version[1], prs, branches)
    BY <2>1, <2>2, <2>4, <2>5, <2>6 DEF Honest
  <2>8. QED BY <1>1, <1>3, <2>1, <2>6, <2>7, BodyMade DEF HasBody
<1>4. QED BY <1>2, <1>3 DEF ReadForSynced
-----------------------------------------------------------------------------
(* backport-prepare and backport-create-releases *)

\* A job that goes on with what it has tracked, on no issue of a release.
LEMMA OnTracked ==
    ASSUME IInv, NEW j \in Jobs, Active(j), UNCHANGED <<hub, events, history>>,
           NEW job, Become(j, job), IsJob(job), job.issue = jobs[j].issue,
           job.pr = jobs[j].pr, job.about = jobs[j].about, job.tree = jobs[j].tree,
           job.pc \in {"writeTracked", "nextRelease"}
    PROVE  IInv'
<1>1. OK(job)
  BY JobAt DEF OK, JobOK, OnAnIssue, OnATree, HasBody
<1>2. QED BY <1>1, JobGoesOn DEF Looking

LEMMA VerifyApplyStep ==
    ASSUME IInv, NEW j \in Jobs, VerifyApply(j)
    PROVE  IInv'
<1>1. UNCHANGED <<hub, events, history>> /\ Active(j)
  BY DEF VerifyApply, At, Active
<1>2. CASE End(j)
  BY <1>1, <1>2, JobEnds
<1>3. ASSUME NEW tracked, Become(j, [jobs[j] EXCEPT !.tracked = tracked, !.pc = "writeTracked"])
      PROVE  IInv'
  <2> DEFINE new == [jobs[j] EXCEPT !.tracked = tracked, !.pc = "writeTracked"]
  <2>1. /\ IsJob(new) /\ new.pc = "writeTracked" /\ new.issue = jobs[j].issue
        /\ new.pr = jobs[j].pr /\ new.about = jobs[j].about /\ new.tree = jobs[j].tree
    BY JobAt DEF IsJob, Fields
  <2>2. Become(j, new)
    BY <1>3
  <2> HIDE DEF new
  <2>3. QED BY <1>1, <2>1, <2>2, OnTracked
<1>4. QED BY <1>2, <1>3 DEF VerifyApply

LEMMA WriteTrackedStep ==
    ASSUME IInv, NEW j \in Jobs, WriteTracked(j)
    PROVE  IInv'
<1>1. /\ UNCHANGED <<main, branches, tags, issues, prs, pushed>> /\ UNCHANGED events
      /\ UNCHANGED <<client, launches, overlapped>> /\ faults' \in 0..MaxFaults /\ End(j)
  BY DEF WriteTracked, history, IInv, TypeInv
<1>2. QED BY <1>1, EndStep

LEMMA ReadTrackedStep ==
    ASSUME IInv, NEW j \in Jobs, ReadTracked(j)
    PROVE  IInv'
<1> DEFINE todo == {v \in Versions : backport.body.track[v] \in {"pending", "error"}}
           new == [jobs[j] EXCEPT !.tracked = backport.body, !.todo = todo,
                                  !.pc = "nextRelease"]
<1>1. UNCHANGED <<hub, events, history>> /\ Active(j)
  BY DEF ReadTracked, At, Active
<1>2. CASE End(j)
  BY <1>1, <1>2, JobEnds
<1>3. CASE Become(j, new)
  <2> HIDE DEF todo
  <2>1. /\ IsJob(new) /\ new.pc = "nextRelease" /\ new.issue = jobs[j].issue
        /\ new.pr = jobs[j].pr /\ new.about = jobs[j].about /\ new.tree = jobs[j].tree
    BY JobAt DEF IsJob, Fields
  <2>2. Become(j, new)
    BY <1>3
  <2> HIDE DEF new
  <2>3. QED BY <1>1, <2>1, <2>2, OnTracked
<1>4. QED BY <1>2, <1>3 DEF ReadTracked

LEMMA TrackFields ==
    ASSUME NEW job, IsJob(job), NEW version, NEW status, NEW issue
    PROVE  LET new == Track(job, version, status, issue) IN
           /\ IsJob(new) /\ new.pc = "nextRelease" /\ new.issue = job.issue
           /\ new.pr = job.pr /\ new.about = job.about /\ new.tree = job.tree
<1> DEFINE a == [job EXCEPT !.tracked.track[version] = status]
           b == [a EXCEPT !.tracked.issueOf[version] = issue]
           c == [b EXCEPT !.todo = @ \ {version}]
           new == Track(job, version, status, issue)
<1>1. /\ IsJob(a) /\ a.issue = job.issue /\ a.pr = job.pr /\ a.about = job.about
      /\ a.tree = job.tree
  BY DEF IsJob, Fields
<1>2. new = [c EXCEPT !.pc = "nextRelease"]
  BY DEF Track
<1> HIDE DEF a
<1>3. /\ IsJob(b) /\ b.issue = job.issue /\ b.pr = job.pr /\ b.about = job.about
      /\ b.tree = job.tree
  BY <1>1 DEF IsJob, Fields
<1> HIDE DEF b
<1>4. /\ IsJob(c) /\ c.issue = job.issue /\ c.pr = job.pr /\ c.about = job.about
      /\ c.tree = job.tree
  BY <1>3 DEF IsJob, Fields
<1> HIDE DEF c
<1> HIDE DEF new
<1>5. QED BY <1>2, <1>4 DEF IsJob, Fields, new

LEMMA NextReleaseStep ==
    ASSUME IInv, NEW j \in Jobs, NextRelease(j)
    PROVE  IInv'
<1> DEFINE job == jobs[j]
           version == CHOOSE v \in job.todo : \A w \in job.todo \ {v} : Older(v, w)
<1>1. UNCHANGED <<hub, events, history>> /\ Active(j)
  BY DEF NextRelease, At, Active
<1> HIDE DEF version
<1>2. CASE Go(j, "writeTracked")
  <2> DEFINE new == [jobs[j] EXCEPT !.pc = "writeTracked"]
  <2>1. /\ IsJob(new) /\ new.pc = "writeTracked" /\ new.issue = jobs[j].issue
        /\ new.pr = jobs[j].pr /\ new.about = jobs[j].about /\ new.tree = jobs[j].tree
    BY JobAt DEF IsJob, Fields
  <2>2. Become(j, new)
    BY <1>2 DEF Go
  <2> HIDE DEF new
  <2>3. QED BY <1>1, <2>1, <2>2, OnTracked
<1>3. ASSUME NEW status, NEW i, Become(j, Track(job, version, status, i)) PROVE IInv'
  <2> DEFINE new == Track(job, version, status, i)
  <2>1. /\ IsJob(new) /\ new.pc = "nextRelease" /\ new.issue = jobs[j].issue
        /\ new.pr = jobs[j].pr /\ new.about = jobs[j].about /\ new.tree = jobs[j].tree
    BY JobAt, TrackFields
  <2>2. Become(j, new)
    BY <1>3
  <2> HIDE DEF new
  <2>3. QED BY <1>1, <2>1, <2>2, OnTracked
<1>4. ASSUME NEW found \in Search(version), found = {},
             Become(j, [job EXCEPT !.version = version, !.pc = "createRelease"])
      PROVE  IInv'
  <2> DEFINE new == [job EXCEPT !.version = version, !.pc = "createRelease"]
  <2>1. IssuesOf(version) = {}
    BY <1>4 DEF Search
  <2>2. /\ IsJob(new) /\ new.pc = "createRelease" /\ new.issue = jobs[j].issue
        /\ new.pr = jobs[j].pr /\ new.about = jobs[j].about /\ new.tree = jobs[j].tree
        /\ new.version = version
    BY JobAt DEF IsJob, Fields
  <2>3. Become(j, new)
    BY <1>4
  <2> HIDE DEF new
  <2>4. OK(new)
    BY <2>2, JobAt DEF OK, JobOK, OnAnIssue, OnATree, HasBody
  <2>5. Looked(new, issues)
    BY <2>1, <2>2 DEF Looked, IssuesOf, OpenIssues
  <2>6. QED BY <1>1, <2>3, <2>4, <2>5, JobGoesOn
<1>5. QED
  <2>1. \/ Go(j, "writeTracked")
        \/ \E status, i : Become(j, Track(job, version, status, i))
        \/ \E found \in Search(version) :
              found = {} /\ Become(j, [job EXCEPT !.version = version, !.pc = "createRelease"])
    BY DEF NextRelease, version
  <2>2. QED BY <1>2, <1>3, <1>4, <2>1

LEMMA ReadReleaseStep ==
    ASSUME IInv, NEW j \in Jobs, ReadRelease(j)
    PROVE  IInv'
<1> DEFINE body == issues[jobs[j].issue].body
           new == WithPrs(body, {backport.pr})
<1>1. /\ UNCHANGED <<hub, events, history>> /\ Active(j) /\ jobs[j].pc = "readRelease"
      /\ Become(j, [jobs[j] EXCEPT !.body = new, !.pc = "writeRelease"])
  BY DEF ReadRelease, At, Active
<1>2. /\ jobs[j].issue # 0 /\ body \in Bodies
      /\ Honest(body, issues[jobs[j].issue].version[1], prs, branches)
  BY <1>1, BodyRead DEF OnAnIssue
<1> HIDE DEF body
<1>3. new \in Bodies /\ Honest(new, issues[jobs[j].issue].version[1], prs, branches)
  BY <1>2, WithPrsHonest
<1> HIDE DEF new
<1>4. [jobs[j] EXCEPT !.body = new, !.pc = "writeRelease"]
          = [jobs[j] EXCEPT !.pc = "writeRelease", !.body = new]
  BY JobAt DEF IsJob, Fields
<1>5. QED BY <1>1, <1>2, <1>3, <1>4, BodyMade DEF HasBody

LEMMA DieStep ==
    ASSUME IInv, NEW j \in Jobs, Die(j)
    PROVE  IInv'
<1>1. /\ UNCHANGED <<main, branches, tags, issues, prs, pushed>> /\ UNCHANGED events
      /\ UNCHANGED <<client, launches, overlapped>> /\ End(j)
  BY DEF Die, hub
<1>2. faults' \in 0..MaxFaults
  BY TrackingBounds DEF Die, IInv, TypeInv
<1>3. QED BY <1>1, <1>2, EndStep
-----------------------------------------------------------------------------
(* Steps that change the issues *)

LEMMA IssuesStay ==
    ASSUME IInv, TypeInv', NEW j \in Jobs, NEW job, Become(j, job),
           JobOK(job, main, issues', prs, branches', pushed),
           Len(issues) =< Len(issues'),
           \A i \in DOMAIN issues : issues'[i].version = issues[i].version,
           \A m \in Minors : branches[m].base =< branches'[m].base,
           BranchesInv', BodiesInv', LookInv',
           UNCHANGED <<main, prs, pushed>>
    PROVE  IInv'
<1>1. Grows
  BY DEF IInv, Grows, TypeInv
<1>2. JobsInv'
  BY <1>1, JobsStay DEF IInv
<1>3. MainInv' /\ PushedInv'
  BY DEF IInv, MainInv, PushedInv
<1>4. DOMAIN issues \subseteq DOMAIN issues'
  BY Domains, DomainsNext DEF IInv
<1>5. PullsInv'
  BY <1>4 DEF IInv, PullsInv
<1>6. QED BY <1>2, <1>3, <1>5 DEF IInv

LEMMA IssueCreated ==
    ASSUME IInv, NEW j \in Jobs, NEW version, CreateIssue(version), NEW job, Become(j, job),
           JobOK(job, main, issues', prs, branches, pushed), job.pc \notin Looking,
           Active(j), ~overlapped => \A i \in OpenIssues : issues[i].version # version,
           UNCHANGED <<main, branches, tags, prs, pushed>>, UNCHANGED events,
           UNCHANGED history
    PROVE  IInv'
<1> DEFINE new == [version |-> version, body |-> Template(version), open |-> TRUE]
<1>1. version \in Versions /\ issues' = Append(issues, new)
  BY DEF CreateIssue
<1>2. /\ new \in Issues /\ Honest(Template(version), version[1], prs, branches)
      /\ new.version = version /\ new.body = Template(version)
  BY <1>1, TemplateHonest DEF Issues
<1> HIDE DEF new
<1>3. issues \in Seq(Issues)
  BY DEF IInv, TypeInv
<1>4. /\ issues' \in Seq(Issues) /\ Len(issues') = Len(issues) + 1
      /\ \A i \in 1..Len(issues) : issues'[i] = issues[i]
      /\ issues'[Len(issues) + 1] = new
  BY <1>1, <1>2, <1>3, AppendProperties
<1>5. DOMAIN issues = 1..Len(issues) /\ Len(issues) \in Nat
  BY <1>3, SeqDomain
<1>6. DOMAIN issues' = 1..(Len(issues) + 1)
  BY <1>4, SeqDomain
<1>7. TypeInv'
  BY <1>4 DEF IInv, TypeInv, Become, history
<1>8. BodiesInv'
  <2>1. ASSUME NEW i \in DOMAIN issues'
        PROVE  Honest(issues'[i].body, issues'[i].version[1], prs', branches')
    <3>1. CASE i \in DOMAIN issues
      BY <1>4, <1>5, <3>1 DEF IInv, BodiesInv
    <3>2. CASE i = Len(issues) + 1
      BY <1>2, <1>4, <3>2
    <3>3. QED BY <1>5, <1>6, <2>1, <3>1, <3>2
  <2>2. QED BY <2>1 DEF BodiesInv
<1>9. LookInv'
  <2>1. SUFFICES ASSUME ~overlapped
                 PROVE  /\ \A i, k \in Jobs : jobs'[i].pc # "off" /\ jobs'[k].pc # "off" => i = k
                        /\ \A i \in Jobs : Looked(jobs'[i], issues')
                        /\ Apart(issues')
    BY DEF LookInv, Active, history
  <2>2. \A i \in Jobs : jobs'[i] = IF i = j THEN job ELSE jobs[i]
    BY DEF Become, IInv, TypeInv
  <2>3. \A i \in Jobs : i # j => jobs[i].pc = "off"
    BY <2>1 DEF IInv, LookInv, Active
  <2>4. \A i \in Jobs : Looked(jobs'[i], issues')
    BY <2>2, <2>3 DEF Looked, Looking
  <2>5. Apart(issues')
    <3>1. SUFFICES ASSUME NEW i \in DOMAIN issues', NEW k \in DOMAIN issues',
                          issues'[i].open, issues'[k].open, i # k
                   PROVE  issues'[i].version # issues'[k].version
      BY DEF Apart
    <3>2. Apart(issues)
      BY <2>1 DEF IInv, LookInv
    <3>3. CASE i \in DOMAIN issues /\ k \in DOMAIN issues
      BY <1>4, <1>5, <3>1, <3>2, <3>3 DEF Apart
    <3>4. CASE i \in DOMAIN issues /\ k = Len(issues) + 1
      BY <1>2, <1>4, <1>5, <2>1, <3>1, <3>4 DEF OpenIssues
    <3>5. CASE i = Len(issues) + 1 /\ k \in DOMAIN issues
      BY <1>2, <1>4, <1>5, <2>1, <3>1, <3>5 DEF OpenIssues
    <3>6. QED BY <1>5, <1>6, <3>1, <3>3, <3>4, <3>5
  <2>6. QED BY <2>2, <2>3, <2>4, <2>5
<1>10. BranchesInv' /\ \A m \in Minors : branches[m].base =< branches'[m].base
  BY DEF IInv, BranchesInv, TypeInv
<1>11. QED BY <1>4, <1>5, <1>7, <1>8, <1>9, <1>10, IssuesStay

\* What a job that has looked knows of the version it creates an issue for.
LEMMA LookedFor ==
    ASSUME IInv, NEW j \in Jobs, jobs[j].pc \in Looking, ~overlapped
    PROVE  \A i \in OpenIssues : issues[i].version # jobs[j].version
BY DEF IInv, LookInv, Looked, Looking, OpenIssues

\* The job goes on with the new issue, or ends.
LEMMA OnNewIssue ==
    ASSUME IInv, NEW j \in Jobs, jobs[j].pc \in Looking, CreateIssue(jobs[j].version),
           NEW pc \in {"pushPrepared", "readAdd", "readRelease"},
           pc = "pushPrepared" => jobs[j].pc = "createMissing",
           Become(j, [jobs[j] EXCEPT !.issue = NextIssue, !.pc = pc]),
           UNCHANGED <<main, branches, tags, prs, pushed>>, UNCHANGED events,
           UNCHANGED history
    PROVE  IInv'
<1> DEFINE new == [jobs[j] EXCEPT !.issue = NextIssue, !.pc = pc]
<1>1. /\ IsJob(new) /\ new.pc = pc /\ new.issue = NextIssue /\ new.pr = jobs[j].pr
      /\ new.about = jobs[j].about /\ new.tree = jobs[j].tree
  BY JobAt DEF IsJob, Fields
<1>2. Become(j, new)
  OBVIOUS
<1> HIDE DEF new
<1>3. Len(issues') = Len(issues) + 1 /\ Len(issues) \in Nat
  BY Domains DEF CreateIssue, IInv
<1>4. NextIssue \in 0..Len(issues') /\ NextIssue # 0
  BY <1>3 DEF NextIssue
<1>5. pc = "pushPrepared" => jobs[j].tree # 0
  BY JobAt DEF OK, JobOK, OnATree
<1>6. JobOK(new, main, issues', prs, branches, pushed)
  BY <1>1, <1>4, <1>5, JobAt DEF JobOK, OnAnIssue, OnATree, HasBody
<1>7. Active(j) /\ new.pc \notin Looking
  BY <1>1 DEF Active, Looking
<1>8. QED BY <1>2, <1>6, <1>7, LookedFor, IssueCreated

LEMMA CreateReleaseIssueStep ==
    ASSUME IInv, NEW j \in Jobs, CreateReleaseIssue(j)
    PROVE  IInv'
<1>1. /\ jobs[j].pc = "createIssue" /\ CreateIssue(jobs[j].version) /\ Become(j, NoJob)
      /\ UNCHANGED <<main, branches, tags, prs, pushed>> /\ UNCHANGED events
      /\ UNCHANGED history
  BY DEF CreateReleaseIssue, At, End
<1>2. issues' \in Seq(Issues)
  <2> DEFINE new == [version |-> jobs[j].version, body |-> Template(jobs[j].version),
                     open |-> TRUE]
  <2>1. new \in Issues /\ issues' = Append(issues, new)
    BY <1>1, TemplateHonest DEF CreateIssue, Issues
  <2> HIDE DEF new
  <2>2. QED BY <2>1, AppendProperties DEF IInv, TypeInv
<1>3. JobOK(NoJob, main, issues', prs, branches, pushed) /\ NoJob.pc = "off"
  BY <1>2, NoJobOK DEF IInv, TypeInv
<1>4. Active(j) /\ NoJob.pc \notin Looking /\ jobs[j].pc \in Looking
  BY <1>1, <1>3 DEF Active, Looking
<1>5. QED BY <1>1, <1>3, <1>4, LookedFor, IssueCreated

LEMMA CreateMissingIssueStep ==
    ASSUME IInv, NEW j \in Jobs, CreateMissingIssue(j)
    PROVE  IInv'
BY OnNewIssue DEF CreateMissingIssue, At, Looking

LEMMA CreatePatchIssueStep ==
    ASSUME IInv, NEW j \in Jobs, CreatePatchIssue(j)
    PROVE  IInv'
BY OnNewIssue DEF CreatePatchIssue, At, Looking

LEMMA CreateReleaseStep ==
    ASSUME IInv, NEW j \in Jobs, CreateRelease(j)
    PROVE  IInv'
BY OnNewIssue DEF CreateRelease, At, Looking

\* An issue gets another body, as honest as the one it had.
LEMMA BodyWritten ==
    ASSUME IInv, NEW j \in Jobs, Active(j), NEW i \in DOMAIN issues, NEW body \in Bodies,
           Honest(body, issues[i].version[1], prs, branches'), UpdateIssueBody(i, body),
           NEW job, Become(j, job), JobOK(job, main, issues', prs, branches', pushed),
           job.pc \notin Looking,
           branches' \in [Minors -> [base : Nat, picked : BOOLEAN]],
           \A m \in Minors : branches'[m].base = branches[m].base,
           UNCHANGED <<main, tags, prs, pushed>>, UNCHANGED events, UNCHANGED history
    PROVE  IInv'
<1>1. issues \in Seq(Issues) /\ issues[i] \in Issues
  BY Domains DEF IInv, TypeInv
<1> DEFINE new == [issues[i] EXCEPT !.body = body]
<1>2. /\ new \in Issues /\ new.body = body /\ new.version = issues[i].version
      /\ new.open = issues[i].open
  BY <1>1 DEF Issues
<1>3. issues' = [issues EXCEPT ![i] = new]
  BY DEF UpdateIssueBody
<1> HIDE DEF new
<1>4. /\ issues' \in Seq(Issues) /\ Len(issues') = Len(issues) /\ DOMAIN issues' = DOMAIN issues
      /\ issues'[i] = new /\ \A k \in DOMAIN issues : k # i => issues'[k] = issues[k]
  BY <1>1, <1>2, <1>3, ExceptSeq
<1>5. /\ \A k \in DOMAIN issues : /\ issues'[k].version = issues[k].version
                                  /\ issues'[k].open = issues[k].open
      /\ issues'[i].body = body
  BY <1>2, <1>4
<1>6. TypeInv'
  BY <1>4 DEF IInv, TypeInv, Become, history
<1>7. BodiesInv'
  <2>1. ASSUME NEW k \in DOMAIN issues'
        PROVE  Honest(issues'[k].body, issues'[k].version[1], prs', branches')
    <3>1. CASE k = i
      BY <1>5, <3>1
    <3>2. CASE k # i
      <4>1. /\ Honest(issues[k].body, issues[k].version[1], prs, branches)
            /\ issues[k].version[1] \in Minors
        BY <1>4, Domains DEF IInv, BodiesInv
      <4>2. QED BY <1>4, <3>2, <4>1 DEF Honest
    <3>3. QED BY <3>1, <3>2
  <2>2. QED BY <2>1 DEF BodiesInv
<1>8. LookInv'
  <2>1. Looked(job, issues')
    BY DEF Looked, Looking
  <2>2. QED BY <1>4, <1>5, <2>1, LookStays DEF IInv, history
<1>9. BranchesInv' /\ \A m \in Minors : branches[m].base =< branches'[m].base
  BY DEF IInv, BranchesInv, TypeInv
<1>10. Len(issues) =< Len(issues')
  BY <1>4, Domains DEF IInv
<1>11. QED BY <1>5, <1>6, <1>7, <1>8, <1>9, <1>10, IssuesStay

\* What a job that has a body may do with it.
LEMMA BodyHeld ==
    ASSUME IInv, NEW j \in Jobs, jobs[j].pc \in HasBody
    PROVE  /\ Active(j) /\ jobs[j].issue \in DOMAIN issues /\ jobs[j].issue # 0
           /\ jobs[j].body \in Bodies
           /\ Honest(jobs[j].body, issues[jobs[j].issue].version[1], prs, branches)
<1>1. jobs[j].pc \in OnAnIssue /\ Active(j)
  BY DEF HasBody, OnAnIssue, Active
<1>2. QED BY <1>1, BodyRead, JobAt DEF OK, JobOK

LEMMA SameLength ==
    ASSUME TypeInv, NEW i \in DOMAIN issues, NEW body \in Bodies, UpdateIssueBody(i, body)
    PROVE  issues' \in Seq(Issues) /\ Len(issues') = Len(issues)
<1> DEFINE new == [issues[i] EXCEPT !.body = body]
<1>1. issues \in Seq(Issues) /\ issues[i] \in Issues
  BY Domains DEF TypeInv
<1>2. new \in Issues /\ issues' = [issues EXCEPT ![i] = new]
  BY <1>1 DEF Issues, UpdateIssueBody
<1> HIDE DEF new
<1>3. QED BY <1>1, <1>2, ExceptSeq

LEMMA WriteBodyStep ==
    ASSUME IInv, NEW j \in Jobs, WriteBody(j)
    PROVE  IInv'
<1> DEFINE i == jobs[j].issue
           body == jobs[j].body
<1>1. /\ jobs[j].pc = "write" /\ UpdateIssueBody(i, body)
      /\ UNCHANGED <<main, branches, tags, prs, pushed>> /\ UNCHANGED events
      /\ UNCHANGED history
      /\ Go(j, "readForBranch") \/ End(j)
  BY DEF WriteBody, At
<1>2. /\ Active(j) /\ i \in DOMAIN issues /\ i # 0 /\ body \in Bodies
      /\ Honest(body, issues[i].version[1], prs, branches)
  BY <1>1, BodyHeld DEF HasBody
<1>3. issues' \in Seq(Issues) /\ Len(issues') = Len(issues)
  BY <1>1, <1>2, SameLength DEF IInv
<1>4. /\ branches' \in [Minors -> [base : Nat, picked : BOOLEAN]]
      /\ \A m \in Minors : branches'[m].base = branches[m].base
  BY <1>1 DEF IInv, TypeInv
<1>5. CASE Go(j, "readForBranch")
  <2> DEFINE new == [jobs[j] EXCEPT !.pc = "readForBranch"]
  <2>1. /\ IsJob(new) /\ new.pc = "readForBranch" /\ new.issue = jobs[j].issue
        /\ new.pr = jobs[j].pr /\ new.about = jobs[j].about /\ new.tree = jobs[j].tree
    BY JobAt DEF IsJob, Fields
  <2>2. Become(j, new)
    BY <1>5 DEF Go
  <2> HIDE DEF new
  <2>3. JobOK(new, main, issues', prs, branches', pushed) /\ new.pc \notin Looking
    BY <1>2, <1>3, <2>1, JobAt DEF JobOK, OnAnIssue, OnATree, HasBody, Looking
  <2>4. QED BY <1>1, <1>2, <1>4, <2>2, <2>3, BodyWritten
<1>6. CASE End(j)
  <2>1. JobOK(NoJob, main, issues', prs, branches', pushed) /\ NoJob.pc \notin Looking
    BY <1>3, NoJobOK DEF IInv, TypeInv, Looking
  <2>2. QED BY <1>1, <1>2, <1>4, <1>6, <2>1, BodyWritten DEF End
<1>7. QED BY <1>1, <1>5, <1>6

LEMMA WriteReleaseStep ==
    ASSUME IInv, NEW j \in Jobs, WriteRelease(j)
    PROVE  IInv'
<1> DEFINE i == jobs[j].issue
           body == jobs[j].body
           new == Track(jobs[j], jobs[j].version, "success", i)
<1>1. /\ jobs[j].pc = "writeRelease" /\ UpdateIssueBody(i, body)
      /\ UNCHANGED <<main, branches, tags, prs, pushed>> /\ UNCHANGED events
      /\ UNCHANGED history /\ Become(j, new)
  BY DEF WriteRelease, At
<1>2. /\ Active(j) /\ i \in DOMAIN issues /\ i # 0 /\ body \in Bodies
      /\ Honest(body, issues[i].version[1], prs, branches)
  BY <1>1, BodyHeld DEF HasBody
<1>3. issues' \in Seq(Issues) /\ Len(issues') = Len(issues)
  BY <1>1, <1>2, SameLength DEF IInv
<1>4. /\ branches' \in [Minors -> [base : Nat, picked : BOOLEAN]]
      /\ \A m \in Minors : branches'[m].base = branches[m].base
  BY <1>1 DEF IInv, TypeInv
<1>5. /\ IsJob(new) /\ new.pc = "nextRelease" /\ new.issue = jobs[j].issue
      /\ new.pr = jobs[j].pr /\ new.about = jobs[j].about /\ new.tree = jobs[j].tree
  BY JobAt, TrackFields
<1> HIDE DEF new
<1>6. JobOK(new, main, issues', prs, branches', pushed) /\ new.pc \notin Looking
  BY <1>3, <1>5, JobAt DEF JobOK, OnAnIssue, OnATree, HasBody, Looking
<1>7. QED BY <1>1, <1>2, <1>4, <1>6, BodyWritten
LEMMA ProcessBackportsStep ==
    ASSUME IInv, NEW j \in Jobs, ProcessBackports(j)
    PROVE  IInv'
<1> DEFINE i == jobs[j].issue
           minor == issues[i].version[1]
           picks == PendingBackports(issues[i].body) \cap ChangesOnMain
           done == Line(TRUE, "done", 0, 0)
           body == SetBackports(issues[i].body, picks, done)
           on == [jobs[j] EXCEPT !.cmd = "sync", !.pc = "readSync"]
<1>1. jobs[j].pc = "process" /\ UNCHANGED events /\ UNCHANGED history
      /\ UNCHANGED <<main, tags, prs, pushed, backport>> /\ Active(j)
  BY DEF ProcessBackports, At, Active
<1>2. CASE End(j) /\ UNCHANGED <<branches, issues>>
  BY <1>1, <1>2, JobEnds DEF hub
<1>3. CASE /\ UpdateIssueBody(i, body)
           /\ branches' = [branches EXCEPT ![minor].picked = @ \/ picks # {}]
           /\ End(j) \/ Become(j, on)
  <2>1. /\ i # 0 /\ i \in DOMAIN issues /\ issues[i].body \in Bodies
        /\ Honest(issues[i].body, minor, prs, branches)
    BY <1>1, BodyRead DEF OnAnIssue
  <2>2. minor \in Minors
    BY <2>1, Domains DEF IInv
  <2>3. done \in Lines
    BY DEF Line, Lines
  <2> HIDE DEF done, picks
  <2>4. /\ body \in Bodies /\ body.prepare = issues[i].body.prepare
        /\ body.branch = issues[i].body.branch /\ body.sync = issues[i].body.sync
    BY <2>1, <2>3, BodyExcept
  <2> HIDE DEF body
  <2>5. /\ branches' \in [Minors -> [base : Nat, picked : BOOLEAN]]
        /\ \A m \in Minors : branches'[m].base = branches[m].base
    BY <1>3, <2>2 DEF IInv, TypeInv
  <2>6. Honest(body, minor, prs, branches')
    BY <2>1, <2>2, <2>4, <2>5 DEF Honest
  <2>7. issues' \in Seq(Issues) /\ Len(issues') = Len(issues)
    BY <1>3, <2>1, <2>4, SameLength DEF IInv
  <2>8. CASE End(j)
    <3>1. JobOK(NoJob, main, issues', prs, branches', pushed) /\ NoJob.pc \notin Looking
      BY <2>7, NoJobOK DEF IInv, TypeInv, Looking
    <3>2. QED BY <1>1, <1>3, <2>1, <2>4, <2>5, <2>6, <2>8, <3>1, BodyWritten DEF End
  <2>9. CASE Become(j, on)
    <3>1. /\ IsJob(on) /\ on.pc = "readSync" /\ on.issue = jobs[j].issue
          /\ on.pr = jobs[j].pr /\ on.about = jobs[j].about /\ on.tree = jobs[j].tree
      BY JobAt DEF IsJob, Fields
    <3> HIDE DEF on
    <3>2. JobOK(on, main, issues', prs, branches', pushed) /\ on.pc \notin Looking
      BY <2>1, <2>7, <3>1, JobAt DEF JobOK, OnAnIssue, OnATree, HasBody, Looking
    <3>3. QED BY <1>1, <1>3, <2>1, <2>4, <2>5, <2>6, <2>9, <3>2, BodyWritten
  <2>10. QED BY <1>3, <2>8, <2>9
<1>4. QED BY <1>2, <1>3 DEF ProcessBackports

-----------------------------------------------------------------------------
(* create-release-branch: the push *)

\* The commit of a checklist whose preparation is done.
LEMMA CommitOfBody ==
    ASSUME IInv, NEW body \in Bodies, NEW minor, Honest(body, minor, prs, branches),
           body.prepare.commit # 0
    PROVE  \E k \in DOMAIN prs :
              /\ k = body.prepare.pr /\ prs[k].name.kind = "prepare"
              /\ prs[k].state = "merged" /\ prs[k].commit = body.prepare.commit
              /\ body.prepare.commit \in 1..Len(main)
              /\ prs[k].name.version \in main[prs[k].commit].sections
<1> DEFINE k == body.prepare.pr
<1>1. /\ k \in DOMAIN prs /\ prs[k].name.kind = "prepare" /\ prs[k].state = "merged"
      /\ prs[k].commit = body.prepare.commit
  BY DEF Honest
<1>2. /\ prs[k].commit \in 0..Len(main) /\ prs[k].commit # 0
      /\ prs[k].name.version \in main[prs[k].commit].sections
  BY <1>1 DEF IInv, PullsInv
<1>3. QED BY <1>1, <1>2, Domains DEF IInv

LEMMA PushBranchStep ==
    ASSUME IInv, NEW j \in Jobs, PushBranch(j)
    PROVE  IInv'
<1> DEFINE i == jobs[j].issue
           minor == issues[i].version[1]
           body == jobs[j].body
           commit == body.prepare.commit
           done == Line(TRUE, "done", 0, commit)
           on == [jobs[j] EXCEPT !.body = UpdateBranch(@, done), !.cmd = "createBranch",
                                 !.pc = "write"]
<1>1. jobs[j].pc = "pushBranch" /\ UNCHANGED events /\ UNCHANGED history /\ Active(j)
      /\ UNCHANGED <<main, tags, issues, prs, pushed, backport>>
  BY DEF PushBranch, At, Active
<1>2. CASE End(j) /\ UNCHANGED branches
  BY <1>1, <1>2, JobEnds DEF hub
<1>3. CASE /\ branches[minor].base = 0 \/ FastForwards(minor, commit)
           /\ branches' = [branches EXCEPT ![minor].base = commit]
           /\ Become(j, on) \/ End(j)
  <2>1. /\ i \in DOMAIN issues /\ i # 0 /\ body \in Bodies
        /\ Honest(body, minor, prs, branches) /\ commit # 0
    BY <1>1, BodyHeld, JobAt DEF HasBody, OK, JobOK
  <2>2. minor \in Minors
    BY <2>1, Domains DEF IInv
  <2>3. commit \in 1..Len(main) /\ commit \in Nat
    BY <2>1, CommitOfBody, Domains DEF IInv
  <2> HIDE DEF minor, commit
  <2>4. /\ branches' \in [Minors -> [base : Nat, picked : BOOLEAN]]
        /\ branches'[minor].base = commit
        /\ \A m \in Minors : m # minor => branches'[m].base = branches[m].base
    BY <1>3, <2>2, <2>3 DEF IInv, TypeInv
  <2>5. \A m \in Minors : branches[m].base =< branches'[m].base
    BY <1>3, <2>2, <2>3, <2>4 DEF IInv, TypeInv, FastForwards
  <2>6. BranchesInv'
    BY <1>1, <2>3, <2>4 DEF IInv, BranchesInv
  <2>7. TypeInv'
    BY <1>1, <1>3, <2>4 DEF IInv, TypeInv, Become, End, history
  <2>8. Grows
    BY <1>1, <2>5, Domains DEF IInv, Grows
  <2>9. BodiesInv'
    <3>1. ASSUME NEW n \in DOMAIN issues
          PROVE  Honest(issues[n].body, issues[n].version[1], prs', branches')
      BY <2>7, <2>8, HonestStays, Domains DEF IInv, BodiesInv
    <3>2. QED BY <1>1, <3>1 DEF BodiesInv
  <2>10. ASSUME NEW job, Become(j, job), job.pc \in {"off", "write"},
                JobOK(job, main, issues', prs, branches', pushed)
         PROVE  IInv'
    <3>1. LookInv'
      <4>1. Looked(job, issues')
        BY <2>10 DEF Looked
      <4>2. \A n \in DOMAIN issues' : issues'[n].open =>
                /\ n \in DOMAIN issues /\ issues[n].open
                /\ issues'[n].version = issues[n].version
        BY <1>1
      <4>3. QED BY <1>1, <2>10, <4>1, <4>2, LookStays DEF IInv, history
    <3>2. Len(issues) =< Len(issues')
      BY <1>1, Domains DEF IInv
    <3>3. QED BY <1>1, <2>5, <2>6, <2>7, <2>9, <2>10, <3>1, <3>2, IssuesStay
  <2>11. CASE End(j)
    <3>1. JobOK(NoJob, main, issues', prs, branches', pushed) /\ NoJob.pc = "off"
      BY <2>7, NoJobOK DEF IInv, TypeInv
    <3>2. QED BY <2>10, <2>11, <3>1 DEF End
  <2>12. CASE Become(j, on)
    <3>1. done \in Lines /\ done.commit = commit
      BY <2>3 DEF Line, Lines
    <3> DEFINE new == UpdateBranch(body, done)
    <3> HIDE DEF done
    <3>2. /\ new \in Bodies /\ new.prepare = body.prepare /\ new.branch = done
          /\ new.sync = body.sync
      <4>1. body \in Bodies /\ done \in Lines
        BY <2>1, <3>1
      <4> HIDE DEF body
      <4>2. QED BY <4>1, BodyExcept
    <3>3. Honest(body, minor, prs', branches')
      <4> HIDE DEF body
      <4>1. QED BY <2>1, <2>2, <2>7, <2>8, HonestStays DEF IInv
    <3> HIDE DEF new
    <3>4. commit >= commit
      BY <2>3
    <3>5. Honest(new, minor, prs', branches')
      BY <2>4, <3>1, <3>2, <3>3, <3>4 DEF Honest
    <3>6. /\ IsJob(on) /\ on.pc = "write" /\ on.issue = jobs[j].issue /\ on.body = new
          /\ on.pr = jobs[j].pr /\ on.about = jobs[j].about /\ on.tree = jobs[j].tree
      BY JobAt DEF IsJob, Fields, new
    <3> HIDE DEF on
    <3>7. JobOK(on, main, issues', prs, branches', pushed)
      BY <1>1, <2>1, <3>2, <3>5, <3>6, JobAt DEF JobOK, OnAnIssue, OnATree, HasBody, minor
    <3>8. QED BY <2>10, <2>12, <3>6, <3>7
  <2>13. QED BY <1>3, <2>11, <2>12
<1>4. QED BY <1>2, <1>3 DEF PushBranch

-----------------------------------------------------------------------------
(* Steps that change the branches and pull requests of the tool *)

\* The remote has another branch, or another commit on it.
LEMMA BranchPushed ==
    ASSUME IInv, NEW j \in Jobs, Active(j), NEW name \in Names, NEW n \in DOMAIN main,
           NEW head \in Trees, Edited(main[n], head, name.version),
           name.version \in head.sections, ForcePush(name, main[n], head),
           NEW job, Become(j, job), job.pc \notin Looking,
           JobOK(job, main, issues, prs, branches, pushed'),
           UNCHANGED <<main, branches, tags, issues, prs>>, UNCHANGED events,
           UNCHANGED history
    PROVE  IInv'
<1> DEFINE new == [name |-> name, base |-> main[n], head |-> head]
<1>1. /\ new \in Remotes /\ new.name = name /\ new.base = main[n] /\ new.head = head
  BY Domains DEF IInv, Remotes
<1>2. pushed' = {b \in pushed : b.name # name} \cup {new}
  BY DEF ForcePush
<1> HIDE DEF new
<1>3. {b.name : b \in pushed} \subseteq {b.name : b \in pushed'}
  BY <1>1, <1>2
<1>4. TypeInv'
  BY <1>1, <1>2 DEF IInv, TypeInv, Become, history
<1>5. Grows
  <2>1. \A m \in Minors : branches[m].base =< branches'[m].base
    BY DEF IInv, TypeInv
  <2>2. /\ Len(main) =< Len(main') /\ Len(issues) =< Len(issues') /\ Len(prs) =< Len(prs')
    BY Domains DEF IInv
  <2>3. QED BY <1>3, <2>1, <2>2 DEF Grows
<1>6. JobsInv'
  BY <1>4, <1>5, JobsStay DEF IInv
<1>7. PushedInv'
  BY <1>1, <1>2 DEF IInv, PushedInv
<1>8. PullsInv'
  BY <1>3 DEF IInv, PullsInv
<1>9. LookInv'
  <2>1. Looked(job, issues')
    BY DEF Looked, Looking
  <2>2. QED BY <2>1, LookStays DEF IInv, history
<1>10. MainInv' /\ BranchesInv' /\ BodiesInv'
  BY DEF IInv, MainInv, BranchesInv, BodiesInv
<1>11. QED BY <1>4, <1>6, <1>7, <1>8, <1>9, <1>10 DEF IInv

LEMMA PushPreparedStep ==
    ASSUME IInv, NEW j \in Jobs, PushPrepared(j)
    PROVE  IInv'
<1> DEFINE version == jobs[j].version
           tree == Tree(jobs[j])
           head == Prepared(tree, version)
           name == PrepareBranch(version)
           new == [jobs[j] EXCEPT !.pc = "preparePr"]
<1>1. /\ jobs[j].pc = "pushPrepared" /\ version \in Versions /\ ForcePush(name, tree, head)
      /\ Become(j, new) /\ UNCHANGED <<main, branches, tags, issues, prs>>
      /\ UNCHANGED events /\ UNCHANGED history /\ Active(j)
  BY DEF PushPrepared, At, Active, Go
<1>2. jobs[j].tree \in DOMAIN main /\ jobs[j].issue # 0
  BY <1>1, JobAt, Domains DEF OK, JobOK, OnATree, OnAnIssue, IInv
<1>3. tree = main[jobs[j].tree] /\ tree \in Trees
  BY <1>2, Domains DEF Tree, IInv
<1>4. tree.news \subseteq PRs
  BY <1>3 DEF Trees
<1> HIDE DEF tree
<1>5. head \in Trees /\ Edited(tree, head, version) /\ version \in head.sections
  BY <1>1, <1>3, <1>4, PreparedTree DEF Prepared
<1>6. name \in Names /\ name.version = version
  BY <1>1 DEF Names, PrepareBranch
<1> HIDE DEF head, name
<1>7. /\ IsJob(new) /\ new.pc = "preparePr" /\ new.issue = jobs[j].issue
      /\ new.pr = jobs[j].pr /\ new.about = jobs[j].about /\ new.tree = jobs[j].tree
      /\ new.version = version
  BY JobAt DEF IsJob, Fields
<1> HIDE DEF new
<1>8. name \in {b.name : b \in pushed'}
  <2> DEFINE r == [name |-> name, base |-> tree, head |-> head]
  <2>1. r \in pushed' /\ r.name = name
    BY <1>1 DEF ForcePush
  <2> HIDE DEF r
  <2>2. QED BY <2>1
<1>9. JobOK(new, main, issues, prs, branches, pushed') /\ new.pc \notin Looking
  BY <1>2, <1>7, <1>8, JobAt DEF JobOK, OnAnIssue, OnATree, HasBody, Looking, name
<1>10. QED BY <1>1, <1>2, <1>3, <1>5, <1>6, <1>9, BranchPushed

LEMMA PushSyncStep ==
    ASSUME IInv, NEW j \in Jobs, PushSync(j)
    PROVE  IInv'
<1> DEFINE version == jobs[j].version
           about == jobs[j].about
           head == ProcessNews(MainTree, version, about)
           name == SyncBranch(version, about)
           new == [jobs[j] EXCEPT !.pc = "syncPr"]
<1>1. jobs[j].pc = "pushSync" /\ UNCHANGED events /\ UNCHANGED history /\ Active(j)
      /\ UNCHANGED <<main, branches, tags, issues, prs, backport>>
  BY DEF PushSync, At, Active
<1>2. CASE End(j) /\ UNCHANGED pushed
  BY <1>1, <1>2, JobEnds DEF hub
<1>3. CASE ForcePush(name, MainTree, head) /\ Go(j, "syncPr")
  <2>1. version \in Versions /\ about \subseteq PRs /\ jobs[j].issue # 0
    BY <1>1, JobAt DEF OK, JobOK, OnAnIssue
  <2>2. MainTree = main[Len(main)] /\ Len(main) \in DOMAIN main /\ MainTree \in Trees
    BY Domains DEF MainTree, IInv
  <2>3. about \cap MainTree.news \subseteq MainTree.news /\ about \cap MainTree.news \in SUBSET PRs
    BY <2>1
  <2>4. head \in Trees /\ Edited(MainTree, head, version) /\ version \in head.sections
    BY <2>1, <2>2, <2>3, PreparedTree DEF ProcessNews
  <2>5. name \in Names /\ name.version = version
    BY <2>1 DEF Names, SyncBranch
  <2> HIDE DEF head, name
  <2>6. /\ IsJob(new) /\ new.pc = "syncPr" /\ new.issue = jobs[j].issue
        /\ new.pr = jobs[j].pr /\ new.about = about /\ new.tree = jobs[j].tree
        /\ new.version = version
    BY JobAt DEF IsJob, Fields
  <2>7. Become(j, new)
    BY <1>3 DEF Go
  <2> HIDE DEF new
  <2>8. name \in {b.name : b \in pushed'}
    <3> DEFINE r == [name |-> name, base |-> MainTree, head |-> head]
    <3>1. r \in pushed' /\ r.name = name
      BY <1>3 DEF ForcePush
    <3> HIDE DEF r
    <3>2. QED BY <3>1
  <2>9. JobOK(new, main, issues, prs, branches, pushed') /\ new.pc \notin Looking
    BY <2>1, <2>6, <2>8, JobAt DEF JobOK, OnAnIssue, OnATree, HasBody, Looking, name
  <2>10. QED BY <1>1, <1>3, <2>2, <2>4, <2>5, <2>7, <2>9, BranchPushed
<1>4. QED BY <1>2, <1>3 DEF PushSync

\* A job has made a pull request of a branch that is on the remote.
LEMMA PrCreated ==
    ASSUME IInv, NEW j \in Jobs, Active(j), jobs[j].issue # 0, NEW name,
           name \in {b.name : b \in pushed}, CreatePr(name, jobs[j].issue),
           NEW pc \in {"readPrepare", "readSyncTasks"},
           pc = "readPrepare" => name.kind = "prepare",
           pc = "readSyncTasks" => name.about = jobs[j].about,
           Become(j, [jobs[j] EXCEPT !.pr = Len(prs) + 1, !.pc = pc]),
           UNCHANGED <<main, branches, tags, issues, pushed>>, UNCHANGED events,
           UNCHANGED history
    PROVE  IInv'
<1> DEFINE pull == [name |-> name, issue |-> jobs[j].issue, state |-> "open", commit |-> 0]
           new == [jobs[j] EXCEPT !.pr = Len(prs) + 1, !.pc = pc]
<1>1. name \in Names
  BY DEF IInv, TypeInv, Remotes
<1>2. jobs[j].issue \in DOMAIN issues /\ jobs[j].issue \in Nat
  BY JobAt, Domains DEF IInv
<1>3. /\ pull \in Pulls /\ pull.name = name /\ pull.issue = jobs[j].issue
      /\ pull.state = "open" /\ pull.commit = 0
  BY <1>1, <1>2 DEF Pulls
<1>4. prs' = Append(prs, pull) /\ prs \in Seq(Pulls)
  BY DEF CreatePr, IInv, TypeInv
<1> HIDE DEF pull
<1>5. /\ prs' \in Seq(Pulls) /\ Len(prs') = Len(prs) + 1
      /\ \A k \in 1..Len(prs) : prs'[k] = prs[k]
      /\ prs'[Len(prs) + 1] = pull
  BY <1>3, <1>4, AppendProperties
<1>6. /\ DOMAIN prs = 1..Len(prs) /\ Len(prs) \in Nat
      /\ DOMAIN prs' = 1..(Len(prs) + 1)
  BY <1>4, <1>5, SeqDomain
<1>7. TypeInv'
  <2>1. events \subseteq DOMAIN prs'
    BY <1>6 DEF IInv, TypeInv
  <2>2. QED BY <1>5, <2>1 DEF IInv, TypeInv, Become, history
<1>8. Grows
  <2>1. \A m \in Minors : branches[m].base =< branches'[m].base
    BY DEF IInv, TypeInv
  <2>2. /\ Len(main) =< Len(main') /\ Len(issues) =< Len(issues') /\ Len(prs) =< Len(prs')
    BY <1>5, <1>6, Domains DEF IInv
  <2>3. QED BY <1>5, <1>6, <2>1, <2>2 DEF Grows
<1>9. PullsInv'
  <2>1. ASSUME NEW k \in DOMAIN prs'
        PROVE  /\ prs'[k].issue \in DOMAIN issues
               /\ prs'[k].name \in {b.name : b \in pushed}
               /\ prs'[k].commit \in 0..Len(main)
               /\ prs'[k].state = "merged" =>
                     /\ prs'[k].commit # 0
                     /\ prs'[k].name.version \in main[prs'[k].commit].sections
    <3>1. CASE k \in DOMAIN prs
      BY <1>5, <1>6, <3>1 DEF IInv, PullsInv
    <3>2. CASE k = Len(prs) + 1
      BY <1>2, <1>3, <1>5, <3>2, Domains DEF IInv
    <3>3. QED BY <1>6, <2>1, <3>1, <3>2
  <2>2. QED BY <2>1 DEF PullsInv
<1>10. BodiesInv'
  <2>1. ASSUME NEW i \in DOMAIN issues
        PROVE  Honest(issues[i].body, issues[i].version[1], prs', branches')
    BY <1>7, <1>8, HonestStays, Domains DEF IInv, BodiesInv
  <2>2. QED BY <2>1 DEF BodiesInv
<1>11. /\ IsJob(new) /\ new.pc = pc /\ new.issue = jobs[j].issue
       /\ new.pr = Len(prs) + 1 /\ new.about = jobs[j].about /\ new.tree = jobs[j].tree
  BY JobAt DEF IsJob, Fields
<1>12. Become(j, new)
  OBVIOUS
<1> HIDE DEF new
<1>13. /\ new.pr \in 0..Len(prs') /\ new.pr # 0 /\ prs'[new.pr].name = name
       /\ jobs[j].issue \in 0..Len(issues')
  BY <1>3, <1>5, <1>6, <1>11, JobAt
<1>14. JobOK(new, main', issues', prs', branches', pushed')
  BY <1>11, <1>13, JobAt DEF JobOK, OnAnIssue, OnATree, HasBody
<1>15. JobsInv'
  BY <1>7, <1>8, <1>12, <1>14, JobsStay DEF IInv
<1>16. LookInv'
  <2>1. Looked(new, issues')
    BY <1>11 DEF Looked
  <2>2. QED BY <1>12, <2>1, LookStays DEF IInv, history
<1>17. MainInv' /\ PushedInv' /\ BranchesInv'
  BY DEF IInv, MainInv, PushedInv, BranchesInv
<1>18. QED BY <1>7, <1>9, <1>10, <1>15, <1>16, <1>17 DEF IInv

LEMMA CreatePreparePrStep ==
    ASSUME IInv, NEW j \in Jobs, CreatePreparePr(j)
    PROVE  IInv'
<1> DEFINE name == PrepareBranch(jobs[j].version)
<1>1. jobs[j].pc = "createPreparePr" /\ UNCHANGED events /\ UNCHANGED history /\ Active(j)
      /\ UNCHANGED <<main, branches, tags, issues, pushed, backport>>
  BY DEF CreatePreparePr, At, Active
<1>2. jobs[j].issue # 0 /\ name \in {b.name : b \in pushed} /\ name.kind = "prepare"
  BY <1>1, JobAt DEF OK, JobOK, OnAnIssue, PrepareBranch
<1> HIDE DEF name
<1>3. CASE End(j) /\ UNCHANGED prs
  BY <1>1, <1>3, JobEnds DEF hub
<1>4. CASE /\ CreatePr(name, jobs[j].issue)
           /\ Become(j, [jobs[j] EXCEPT !.pr = Len(prs) + 1, !.pc = "readPrepare"])
  BY <1>1, <1>2, <1>4, PrCreated
<1>5. QED BY <1>3, <1>4 DEF CreatePreparePr, name

LEMMA CreateSyncPrStep ==
    ASSUME IInv, NEW j \in Jobs, CreateSyncPr(j)
    PROVE  IInv'
<1> DEFINE name == SyncBranch(jobs[j].version, jobs[j].about)
<1>1. jobs[j].pc = "syncPr" /\ UNCHANGED events /\ UNCHANGED history /\ Active(j)
      /\ UNCHANGED <<main, branches, tags, issues, pushed, backport>>
  BY DEF CreateSyncPr, At, Active
<1>2. jobs[j].issue # 0 /\ name \in {b.name : b \in pushed} /\ name.about = jobs[j].about
  BY <1>1, JobAt DEF OK, JobOK, OnAnIssue, SyncBranch
<1> HIDE DEF name
<1>3. CASE End(j) /\ UNCHANGED prs
  BY <1>1, <1>3, JobEnds DEF hub
<1>4. CASE /\ CreatePr(name, jobs[j].issue)
           /\ Become(j, [jobs[j] EXCEPT !.pr = Len(prs) + 1, !.pc = "readSyncTasks"])
  BY <1>1, <1>2, <1>4, PrCreated
<1>5. QED BY <1>3, <1>4 DEF CreateSyncPr, name

-----------------------------------------------------------------------------
(* Maintainers and GitHub *)

LEMMA JobsRemain ==
    ASSUME TypeInv, TypeInv', Grows, JobsInv, UNCHANGED jobs
    PROVE  JobsInv'
<1>1. ASSUME NEW i \in Jobs
      PROVE  JobOK(jobs'[i], main', issues', prs', branches', pushed')
  <2>1. JobOK(jobs[i], main, issues, prs, branches, pushed)
    BY DEF JobsInv
  <2>2. QED BY <2>1, JobStays
<1>2. QED BY <1>1 DEF JobsInv

\* Main has another commit.
LEMMA MainGrows ==
    ASSUME IInv, NEW tree \in Trees, Kept(tree), Later(MainTree, tree),
           main' = Append(main, tree)
    PROVE  /\ main' \in Seq(Trees) /\ main' # <<>> /\ Len(main') = Len(main) + 1
           /\ \A n \in DOMAIN main : n \in DOMAIN main' /\ main'[n] = main[n]
           /\ main'[Len(main) + 1] = tree /\ MainInv'
<1>1. main \in Seq(Trees) /\ main # <<>>
  BY DEF IInv, TypeInv
<1>2. /\ main' \in Seq(Trees) /\ Len(main') = Len(main) + 1
      /\ \A n \in 1..Len(main) : main'[n] = main[n]
      /\ main'[Len(main) + 1] = tree
  BY <1>1, AppendProperties
<1>3. /\ DOMAIN main = 1..Len(main) /\ Len(main) \in Nat /\ Len(main) # 0
      /\ DOMAIN main' = 1..(Len(main) + 1)
      /\ \A n \in DOMAIN main : main[n] \in Trees
      /\ MainTree = main[Len(main)] /\ MainTree \in Trees
  BY <1>1, <1>2, SeqDomain, Domains DEF IInv, MainTree
<1>4. \A n \in DOMAIN main' : Kept(main'[n])
  <2>1. ASSUME NEW n \in DOMAIN main' PROVE Kept(main'[n])
    <3>1. CASE n \in DOMAIN main
      BY <1>2, <1>3, <3>1 DEF IInv, MainInv
    <3>2. CASE n = Len(main) + 1
      BY <1>2, <3>2
    <3>3. QED BY <1>3, <2>1, <3>1, <3>2
  <2>2. QED BY <2>1
<1>5. ASSUME NEW m \in DOMAIN main', NEW n \in DOMAIN main', m =< n
      PROVE  Later(main'[m], main'[n])
  <2>1. CASE n \in DOMAIN main
    <3>1. m \in DOMAIN main
      BY <1>3, <1>5, <2>1
    <3>2. Later(main[m], main[n])
      BY <1>5, <2>1, <3>1 DEF IInv, MainInv
    <3>3. QED BY <1>2, <1>3, <2>1, <3>1, <3>2
  <2>2. CASE n = Len(main) + 1 /\ m = Len(main) + 1
    BY <1>2, <2>2, LaterItself
  <2>3. CASE n = Len(main) + 1 /\ m \in DOMAIN main
    <3>1. Later(main[m], MainTree)
      BY <1>3, <2>3 DEF IInv, MainInv
    <3>2. Later(main[m], tree)
      BY <1>3, <2>3, <3>1, LaterTransitive
    <3>3. QED BY <1>2, <1>3, <2>3, <3>2
  <2>4. QED BY <1>3, <1>5, <2>1, <2>2, <2>3
<1>6. MainInv'
  BY <1>4, <1>5 DEF MainInv
<1>7. main' # <<>>
  BY <1>2, <1>3, EmptySeq
<1>8. QED BY <1>2, <1>3, <1>6, <1>7

\* Everything but the pull requests follows when main grows and nothing else changes.
LEMMA MainGrown ==
    ASSUME IInv, NEW tree \in Trees, Kept(tree), Later(MainTree, tree),
           main' = Append(main, tree), prs' \in Seq(Pulls), Len(prs') = Len(prs),
           \A k \in DOMAIN prs :
              /\ prs'[k].name = prs[k].name
              /\ prs[k].state = "merged" => /\ prs'[k].state = "merged"
                                            /\ prs'[k].commit = prs[k].commit,
           PullsInv', events' \subseteq DOMAIN prs,
           UNCHANGED <<branches, tags, issues, pushed>>, UNCHANGED jobs, UNCHANGED history
    PROVE  IInv'
<1>1. /\ main' \in Seq(Trees) /\ main' # <<>> /\ Len(main') = Len(main) + 1 /\ MainInv'
      /\ \A n \in DOMAIN main : n \in DOMAIN main' /\ main'[n] = main[n]
  BY MainGrows
<1>2. DOMAIN prs' = DOMAIN prs
  BY SeqDomain DEF IInv, TypeInv
<1>3. TypeInv'
  BY <1>1, <1>2 DEF IInv, TypeInv, history
<1>4. Grows
  <2>1. \A m \in Minors : branches[m].base =< branches'[m].base
    BY DEF IInv, TypeInv
  <2>2. /\ Len(main) =< Len(main') /\ Len(issues) =< Len(issues') /\ Len(prs) =< Len(prs')
    BY <1>1, Domains DEF IInv
  <2>3. QED BY <2>1, <2>2 DEF Grows
<1>5. JobsInv'
  BY <1>3, <1>4, JobsRemain DEF IInv
<1>6. BodiesInv'
  <2>1. ASSUME NEW i \in DOMAIN issues
        PROVE  Honest(issues[i].body, issues[i].version[1], prs', branches')
    BY <1>3, <1>4, HonestStays, Domains DEF IInv, BodiesInv
  <2>2. QED BY <2>1 DEF BodiesInv
<1>7. PushedInv'
  BY <1>1 DEF IInv, PushedInv
<1>8. BranchesInv'
  BY <1>1, Domains DEF IInv, BranchesInv
<1>9. LookInv'
  BY DEF IInv, LookInv, Active, history
<1>10. QED BY <1>1, <1>3, <1>5, <1>6, <1>7, <1>8, <1>9 DEF IInv

LEMMA MergeChangeStep ==
    ASSUME IInv, NEW p \in PRs, MergeChange(p)
    PROVE  IInv'
<1> DEFINE tree == [MainTree EXCEPT !.news = @ \cup {p}, !.markers = @ \cup {p}]
<1>1. /\ ~Present(MainTree, p) /\ main' = Append(main, tree)
      /\ UNCHANGED <<branches, tags, issues, prs, pushed>> /\ UNCHANGED events
      /\ UNCHANGED jobs /\ UNCHANGED history
  BY DEF MergeChange, ChangesOnMain
<1>2. MainTree \in Trees /\ Kept(MainTree)
  BY Domains DEF IInv, MainInv, MainTree
<1>3. tree \in Trees /\ Kept(tree) /\ Later(MainTree, tree)
  BY <1>1, <1>2, ChangedTree
<1> HIDE DEF tree
<1>4. Len(main') = Len(main) + 1 /\ \A n \in DOMAIN main : main'[n] = main[n]
  BY <1>1, <1>3, MainGrows
<1>5. PullsInv'
  BY <1>1, <1>4, Domains DEF IInv, PullsInv
<1>6. prs' \in Seq(Pulls) /\ events' \subseteq DOMAIN prs
  BY <1>1 DEF IInv, TypeInv
<1>7. QED BY <1>1, <1>3, <1>5, <1>6, MainGrown

LEMMA MergePrStep ==
    ASSUME IInv, NEW k \in DOMAIN prs, MergePr(k)
    PROVE  IInv'
<1> DEFINE branch == Pushed(prs[k].name)
           tree == Merge3(branch.base, branch.head, MainTree)
           pull == [prs[k] EXCEPT !.state = "merged", !.commit = Len(main) + 1]
<1>1. /\ prs[k].state = "open" /\ main' = Append(main, tree)
      /\ prs' = [prs EXCEPT ![k].state = "merged", ![k].commit = Len(main) + 1]
      /\ events' = events \cup {k}
      /\ UNCHANGED <<branches, tags, issues, pushed>> /\ UNCHANGED jobs /\ UNCHANGED history
  BY DEF MergePr
<1>2. branch \in pushed /\ branch.name = prs[k].name
  BY DEF Pushed, IInv, PullsInv
<1> HIDE DEF branch
<1>3. /\ branch.base \in Trees /\ branch.head \in Trees /\ branch.name.version \in Versions
      /\ \E n \in DOMAIN main : branch.base = main[n]
      /\ Edited(branch.base, branch.head, branch.name.version)
      /\ branch.name.version \in branch.head.sections
  BY <1>2 DEF IInv, TypeInv, PushedInv, Remotes, Names
<1>4. /\ MainTree \in Trees /\ Kept(MainTree) /\ Kept(branch.base)
      /\ Later(branch.base, MainTree)
  BY <1>3, Domains DEF IInv, MainInv, MainTree
<1>5. /\ tree \in Trees /\ Kept(tree) /\ Later(MainTree, tree)
      /\ branch.head.sections \subseteq tree.sections
  BY <1>3, <1>4, MergedTree
<1> HIDE DEF tree
<1>6. /\ Len(main') = Len(main) + 1 /\ main'[Len(main) + 1] = tree
      /\ \A n \in DOMAIN main : main'[n] = main[n]
  BY <1>1, <1>5, MainGrows
<1>7. prs \in Seq(Pulls) /\ prs[k] \in Pulls /\ Len(main) \in Nat
  BY Domains DEF IInv, TypeInv
<1>8. /\ pull \in Pulls /\ pull.name = prs[k].name /\ pull.issue = prs[k].issue
      /\ pull.state = "merged" /\ pull.commit = Len(main) + 1
  <2>1. pull = [name |-> prs[k].name, issue |-> prs[k].issue, state |-> "merged",
                commit |-> Len(main) + 1]
    <3> DEFINE n == Len(main) + 1
               mid == [prs[k] EXCEPT !.state = "merged"]
    <3> HIDE DEF n
    <3>1. mid = [name |-> prs[k].name, issue |-> prs[k].issue, state |-> "merged",
                 commit |-> prs[k].commit]
      BY <1>7 DEF Pulls
    <3>2. [prs[k] EXCEPT !.state = "merged", !.commit = n] = [mid EXCEPT !.commit = n]
      OBVIOUS
    <3> HIDE DEF mid
    <3>3. QED BY <3>1, <3>2 DEF n
  <2>2. Len(main) + 1 \in Nat /\ prs[k].name \in Names /\ prs[k].issue \in Nat
    BY <1>7 DEF Pulls
  <2> HIDE DEF pull
  <2>3. QED BY <2>1, <2>2 DEF Pulls
<1>9. prs' = [prs EXCEPT ![k] = pull]
  <2> DEFINE mid == [prs EXCEPT ![k] = [prs[k] EXCEPT !.state = "merged"]]
             n == Len(main) + 1
  <2>1. mid = [prs EXCEPT ![k].state = "merged"]
    OBVIOUS
  <2> HIDE DEF n
  <2>2. prs' = [mid EXCEPT ![k].commit = n]
    BY <1>1, <2>1 DEF n
  <2>3. DOMAIN mid = DOMAIN prs /\ mid[k] = [prs[k] EXCEPT !.state = "merged"]
    BY <1>7
  <2>4. mid = [m \in DOMAIN prs |-> IF m = k THEN [prs[k] EXCEPT !.state = "merged"]
                                   ELSE prs[m]]
    BY <1>7
  <2> HIDE DEF mid
  <2>5. prs' = [mid EXCEPT ![k] = [mid[k] EXCEPT !.commit = n]]
    BY <2>2
  <2>6. [mid[k] EXCEPT !.commit = n] = pull
    BY <1>7, <2>3 DEF Pulls, n
  <2> HIDE DEF pull
  <2>7. QED BY <1>7, <2>4, <2>5, <2>6
<1> HIDE DEF pull
<1>10. /\ prs' \in Seq(Pulls) /\ Len(prs') = Len(prs) /\ DOMAIN prs' = DOMAIN prs
       /\ prs'[k] = pull /\ \A n \in DOMAIN prs : n # k => prs'[n] = prs[n]
  BY <1>7, <1>8, <1>9, ExceptSeq
<1>11. PullsInv'
  <2>1. ASSUME NEW n \in DOMAIN prs
        PROVE  /\ prs'[n].issue \in DOMAIN issues
               /\ prs'[n].name \in {b.name : b \in pushed}
               /\ prs'[n].commit \in 0..Len(main')
               /\ prs'[n].state = "merged" =>
                     /\ prs'[n].commit # 0
                     /\ prs'[n].name.version \in main'[prs'[n].commit].sections
    <3>1. CASE n = k
      <4>1. prs[k].name.version \in tree.sections
        BY <1>2, <1>3, <1>5
      <4>2. Len(main) + 1 \in 0..Len(main') /\ Len(main) + 1 # 0
        BY <1>6, <1>7
      <4>3. QED BY <1>6, <1>8, <1>10, <3>1, <4>1, <4>2 DEF IInv, PullsInv
    <3>2. CASE n # k
      BY <1>6, <1>10, <3>2, Domains DEF IInv, PullsInv
    <3>3. QED BY <3>1, <3>2
  <2>2. QED BY <1>1, <1>10, <2>1 DEF PullsInv
<1>12. events' \subseteq DOMAIN prs
  BY <1>1 DEF IInv, TypeInv
<1>13. \A n \in DOMAIN prs :
          /\ prs'[n].name = prs[n].name
          /\ prs[n].state = "merged" => /\ prs'[n].state = "merged"
                                        /\ prs'[n].commit = prs[n].commit
  BY <1>1, <1>8, <1>10
<1>14. QED BY <1>1, <1>5, <1>10, <1>11, <1>12, <1>13, MainGrown

LEMMA FinishReleaseStep ==
    ASSUME IInv, NEW i \in DOMAIN issues, FinishRelease(i)
    PROVE  IInv'
<1> DEFINE new == [issues[i] EXCEPT !.open = FALSE]
<1>1. /\ tags' = tags \cup {issues[i].version} /\ issues' = [issues EXCEPT ![i].open = FALSE]
      /\ UNCHANGED <<main, branches, prs, pushed>> /\ UNCHANGED events
      /\ UNCHANGED jobs /\ UNCHANGED history
  BY DEF FinishRelease
<1>2. issues \in Seq(Issues) /\ issues[i] \in Issues
  BY Domains DEF IInv, TypeInv
<1>3. /\ new \in Issues /\ new.version = issues[i].version /\ new.body = issues[i].body
      /\ ~new.open
  BY <1>2 DEF Issues
<1>4. issues' = [issues EXCEPT ![i] = new]
  BY <1>1, <1>2
<1> HIDE DEF new
<1>5. /\ issues' \in Seq(Issues) /\ Len(issues') = Len(issues) /\ DOMAIN issues' = DOMAIN issues
      /\ issues'[i] = new /\ \A n \in DOMAIN issues : n # i => issues'[n] = issues[n]
  BY <1>2, <1>3, <1>4, ExceptSeq
<1>6. \A n \in DOMAIN issues : /\ issues'[n].version = issues[n].version
                               /\ issues'[n].body = issues[n].body
                               /\ issues'[n].open => issues[n].open
  BY <1>3, <1>5
<1>7. TypeInv'
  BY <1>1, <1>5, Domains DEF IInv, TypeInv, history
<1>8. Grows
  <2>1. \A m \in Minors : branches[m].base =< branches'[m].base
    BY <1>1 DEF IInv, TypeInv
  <2>2. /\ Len(main) =< Len(main') /\ Len(issues) =< Len(issues') /\ Len(prs) =< Len(prs')
    BY <1>1, <1>5, Domains DEF IInv
  <2>3. QED BY <1>1, <1>6, <2>1, <2>2 DEF Grows
<1>9. JobsInv'
  BY <1>1, <1>7, <1>8, JobsRemain DEF IInv
<1>10. MainInv' /\ PushedInv' /\ PullsInv' /\ BranchesInv'
  BY <1>1, <1>5 DEF IInv, MainInv, PushedInv, PullsInv, BranchesInv
<1>11. BodiesInv'
  BY <1>1, <1>5, <1>6 DEF IInv, BodiesInv
<1>12. LookInv'
  <2>1. SUFFICES ASSUME ~overlapped
                 PROVE  /\ \A j, k \in Jobs : jobs[j].pc # "off" /\ jobs[k].pc # "off" => j = k
                        /\ \A j \in Jobs : Looked(jobs[j], issues')
                        /\ Apart(issues')
    BY <1>1 DEF LookInv, Active, history
  <2>2. \A j \in Jobs : Looked(jobs[j], issues')
    BY <1>5, <1>6, <2>1 DEF IInv, LookInv, Looked
  <2>3. Apart(issues')
    BY <1>5, <1>6, <2>1 DEF IInv, LookInv, Apart
  <2>4. QED BY <2>1, <2>2, <2>3 DEF IInv, LookInv, Active
<1>13. QED BY <1>7, <1>9, <1>10, <1>11, <1>12 DEF IInv

-----------------------------------------------------------------------------
(* The start of a job *)

FirstSteps == {"listIssues", "findIssue", "prInfo", "readForBranch", "discover",
               "findBackport", "process", "syncPrInfo", "verify", "readTracked"}

LEMMA LaunchStep ==
    ASSUME IInv, NEW j \in Jobs, NEW cmd, NEW issue \in 0..Len(issues), NEW pr \in 0..Len(prs),
           NEW about \in SUBSET PRs, Launch(j, cmd, issue, pr, about),
           NEW pc \in FirstSteps, FirstStep(cmd) = pc,
           pc = "findIssue" => cmd = "prepare",
           pc \in {"readForBranch", "process"} => issue # 0,
           pc = "prInfo" => pr + issue # 0 /\ (pr # 0 => prs[pr].name.kind = "prepare"),
           pc = "syncPrInfo" => pr # 0, events' \subseteq events
    PROVE  IInv'
<1> DEFINE tree == IF cmd = "prepare" THEN Len(main) ELSE 0
           version == IF cmd \in OfNextVersion THEN NextVersion(cmd) ELSE NoJob.version
           new == [NoJob EXCEPT !.cmd = cmd, !.pc = pc, !.issue = issue, !.pr = pr,
                                !.about = about, !.tree = tree, !.version = version]
<1>1. /\ ~Active(j) /\ launches < MaxLaunches /\ launches' = launches + 1
      /\ overlapped' = (overlapped \/ \E i \in Jobs : Active(i))
      /\ UNCHANGED <<main, branches, tags, issues, prs, pushed>>
      /\ UNCHANGED client /\ UNCHANGED faults
  BY DEF Launch, hub
<1>2. Become(j, new)
  BY DEF Launch
<1>3. /\ IsJob(new) /\ new.pc = pc /\ new.issue = issue /\ new.pr = pr /\ new.about = about
      /\ new.tree = tree
  <2>1. IsJob(NoJob)
    BY DEF NoJob, IsJob, Fields
  <2> HIDE DEF tree, version
  <2>2. QED BY <2>1 DEF IsJob, Fields
<1>4. tree \in 0..Len(main) /\ (cmd = "prepare" => tree # 0)
  BY Domains DEF IInv
<1> HIDE DEF new, tree
<1>5. JobOK(new, main', issues', prs', branches', pushed')
  BY <1>1, <1>3, <1>4 DEF JobOK, FirstSteps, OnAnIssue, OnATree, HasBody
<1>6. TypeInv'
  <2>1. events' \subseteq DOMAIN prs
    BY DEF IInv, TypeInv
  <2>2. launches' \in 0..MaxLaunches
    BY <1>1, TrackingBounds DEF IInv, TypeInv
  <2>3. jobs' = [i \in Jobs |-> jobs'[i]]
    BY <1>2 DEF IInv, TypeInv, Become
  <2>4. QED BY <1>1, <2>1, <2>2, <2>3 DEF IInv, TypeInv
<1>7. Grows
  <2>1. \A m \in Minors : branches[m].base \in Nat
    BY DEF IInv, TypeInv
  <2>2. QED BY <1>1, <2>1, Domains DEF IInv, Grows
<1>8. JobsInv'
  BY <1>2, <1>5, <1>6, <1>7, JobsStay DEF IInv
<1>9. LookInv'
  <2>1. SUFFICES ASSUME ~overlapped'
                 PROVE  /\ \A i, k \in Jobs : jobs'[i].pc # "off" /\ jobs'[k].pc # "off" => i = k
                        /\ \A i \in Jobs : Looked(jobs'[i], issues)
                        /\ Apart(issues)
    BY <1>1 DEF LookInv, Active
  <2>2. ~overlapped /\ \A i \in Jobs : jobs[i].pc = "off"
    BY <1>1, <2>1 DEF Active
  <2>3. \A i \in Jobs : jobs'[i] = IF i = j THEN new ELSE jobs[i]
    BY <1>2 DEF Become, IInv, TypeInv
  <2>4. \A i \in Jobs : Looked(jobs'[i], issues)
    BY <1>3, <2>2, <2>3 DEF Looked, FirstSteps
  <2>5. \A i, k \in Jobs : jobs'[i].pc # "off" /\ jobs'[k].pc # "off" => i = k
    BY <2>2, <2>3
  <2>6. QED BY <2>2, <2>4, <2>5 DEF IInv, LookInv
<1>10. MainInv' /\ PushedInv' /\ PullsInv' /\ BranchesInv' /\ BodiesInv'
  BY <1>1 DEF IInv, MainInv, PushedInv, PullsInv, BranchesInv, BodiesInv
<1>11. QED BY <1>6, <1>8, <1>9, <1>10 DEF IInv

LEMMA FirstStepOf ==
    /\ FirstStep("createIssue") = "listIssues" /\ FirstStep("prepare") = "findIssue"
    /\ FirstStep("completePrepare") = "prInfo" /\ FirstStep("createBranch") = "readForBranch"
    /\ FirstStep("addBackports") = "discover" /\ FirstStep("onPrMerged") = "findBackport"
    /\ FirstStep("processBackports") = "process" /\ FirstStep("sync") = "discover"
    /\ FirstStep("completeSync") = "syncPrInfo" /\ FirstStep("backportPrepare") = "verify"
    /\ FirstStep("createReleases") = "readTracked"
BY DEF FirstStep

LEMMA OnCommentStep ==
    ASSUME IInv, NEW j \in Jobs, NEW cmd, OnComment(j, cmd)
    PROVE  IInv'
<1> USE DEF FirstSteps
<1>1. /\ OpenIssues \subseteq 1..Len(issues) /\ 0 \in 0..Len(issues) /\ 0 \in 0..Len(prs)
      /\ Len(issues) \in Nat /\ Len(prs) \in Nat /\ DOMAIN prs = 1..Len(prs)
      /\ {} \in SUBSET PRs /\ events' \subseteq events
  BY Domains DEF IInv, OpenIssues, OnComment
<1>2. CASE cmd = "createIssue" /\ Launch(j, cmd, 0, 0, {})
  BY <1>1, <1>2, LaunchStep, FirstStepOf
<1>3. CASE cmd = "addBackports" /\ \E i \in OpenIssues \cup {0}, p \in PRs :
                                      Launch(j, cmd, i, 0, {p})
  <2>1. PICK i \in OpenIssues \cup {0}, p \in PRs : Launch(j, cmd, i, 0, {p})
    BY <1>3
  <2>2. i \in 0..Len(issues) /\ {p} \in SUBSET PRs
    BY <1>1
  <2>3. QED BY <1>1, <1>3, <2>1, <2>2, LaunchStep, FirstStepOf
<1>4. CASE cmd \in OnIssue /\ \E i \in OpenIssues : Launch(j, cmd, i, 0, {})
  <2>1. PICK i \in OpenIssues : Launch(j, cmd, i, 0, {})
    BY <1>4
  <2>2. i \in 0..Len(issues) /\ i # 0
    BY <1>1
  <2>3. FirstStep(cmd) \in {"readForBranch", "process"}
    BY <1>4, FirstStepOf DEF OnIssue
  <2>4. QED BY <1>1, <2>1, <2>2, <2>3, LaunchStep
<1>5. CASE cmd \in OnIssueOrNone /\ \E i \in OpenIssues \cup {0} : Launch(j, cmd, i, 0, {})
  <2>1. PICK i \in OpenIssues \cup {0} : Launch(j, cmd, i, 0, {})
    BY <1>5
  <2>2. i \in 0..Len(issues)
    BY <1>1
  <2>3. \/ cmd = "prepare" /\ FirstStep(cmd) = "findIssue"
        \/ FirstStep(cmd) = "discover"
    BY <1>5, FirstStepOf DEF OnIssueOrNone
  <2>4. QED BY <1>1, <2>1, <2>2, <2>3, LaunchStep
<1>6. CASE cmd = "completePrepare" /\ \E i \in OpenIssues \cup {0}, k \in Made("prepare") \cup {0} :
                                         i + k > 0 /\ Launch(j, cmd, i, k, {})
  <2>1. PICK i \in OpenIssues \cup {0}, k \in Made("prepare") \cup {0} :
            i + k > 0 /\ Launch(j, cmd, i, k, {})
    BY <1>6
  <2>2. /\ i \in 0..Len(issues) /\ k \in 0..Len(prs) /\ k + i # 0
        /\ k # 0 => prs[k].name.kind = "prepare"
    BY <1>1, <2>1 DEF Made
  <2>3. FirstStep(cmd) = "prInfo"
    BY <1>6, FirstStepOf
  <2>4. QED BY <1>1, <2>1, <2>2, <2>3, LaunchStep
<1>7. CASE cmd = "completeSync" /\ \E k \in Made("sync") : Launch(j, cmd, 0, k, {})
  <2>1. PICK k \in Made("sync") : Launch(j, cmd, 0, k, {})
    BY <1>7
  <2>2. k \in 0..Len(prs) /\ k # 0
    BY <1>1 DEF Made
  <2>3. QED BY <1>1, <1>7, <2>1, <2>2, LaunchStep, FirstStepOf
<1>8. CASE cmd \in OnBackportIssue /\ Launch(j, cmd, 0, 0, {})
  <2>1. FirstStep(cmd) \in {"verify", "readTracked"}
    BY <1>8, FirstStepOf DEF OnBackportIssue
  <2>2. QED BY <1>1, <1>8, <2>1, LaunchStep
<1>9. QED BY <1>2, <1>3, <1>4, <1>5, <1>6, <1>7, <1>8 DEF OnComment

LEMMA OnPrClosedStep ==
    ASSUME IInv, NEW j \in Jobs, NEW k \in events, OnPrClosed(j, k)
    PROVE  IInv'
<1>1. /\ k \in 0..Len(prs) /\ k # 0 /\ k + 0 # 0 /\ 0 \in 0..Len(issues) /\ {} \in SUBSET PRs
      /\ events' \subseteq events
  BY Domains DEF IInv, TypeInv, OnPrClosed
<1>2. CASE prs[k].name.kind = "prepare" /\ Launch(j, "completePrepare", 0, k, {})
  BY <1>1, <1>2, LaunchStep, FirstStepOf DEF FirstSteps
<1>3. CASE Launch(j, "completeSync", 0, k, {})
  BY <1>1, <1>3, LaunchStep, FirstStepOf DEF FirstSteps
<1>4. QED BY <1>2, <1>3 DEF OnPrClosed

LEMMA OnChangeClosedStep ==
    ASSUME IInv, NEW j \in Jobs, NEW p \in PRs, OnChangeClosed(j, p)
    PROVE  IInv'
<1>1. /\ 0 \in 0..Len(prs) /\ 0 \in 0..Len(issues) /\ {p} \in SUBSET PRs
      /\ events' \subseteq events /\ Launch(j, "onPrMerged", 0, 0, {p})
  BY Domains DEF IInv, OnChangeClosed
<1>2. QED BY <1>1, LaunchStep, FirstStepOf DEF FirstSteps

-----------------------------------------------------------------------------
(* The specification *)

LEMMA InitInv == Init => IInv
<1> SUFFICES ASSUME Init PROVE IInv
  OBVIOUS
<1>1. PICK w \in Worlds : /\ client = w.client /\ launches = w.launches /\ faults = w.faults
                          /\ main = w.main /\ branches = w.branches /\ tags = w.tags
                          /\ issues = w.issues /\ prs = w.prs /\ pushed = w.pushed
                          /\ backport = w.backport
  BY DEF Init
<1>2. events = {} /\ jobs = [j \in Jobs |-> NoJob] /\ overlapped = FALSE
  BY DEF Init
<1>3. /\ client \in {"gh", "mock"} /\ launches \in 0..MaxLaunches /\ faults \in 0..MaxFaults
      /\ main \in Seq(Trees) /\ main # <<>> /\ tags \subseteq Versions
      /\ branches \in [Minors -> [base : 0..Len(main), picked : BOOLEAN]]
      /\ issues \in Seq(Issues) /\ prs \in Seq(Pulls) /\ pushed \subseteq Remotes
  BY <1>1, WorldsAssumption
<1>4. MainInv
  BY <1>1, WorldsAssumption DEF MainInv
<1>5. PushedInv
  BY <1>1, WorldsAssumption DEF PushedInv
<1>6. PullsInv
  BY <1>1, WorldsAssumption DEF PullsInv
<1>7. BodiesInv
  BY <1>1, WorldsAssumption DEF BodiesInv
<1>8. TypeInv
  <2>1. Len(main) \in Nat
    BY <1>3, SeqDomain
  <2>2. branches \in [Minors -> [base : Nat, picked : BOOLEAN]]
    BY <1>3, <2>1
  <2>3. QED BY <1>2, <1>3, <2>2 DEF TypeInv
<1>9. BranchesInv
  BY <1>3 DEF BranchesInv
<1>10. JobsInv
  BY <1>2, <1>3, <1>8, NoJobOK DEF JobsInv
<1>11. LookInv
  <2>1. Apart(issues)
    BY <1>1, WorldsAssumption DEF Apart
  <2>2. NoJob.pc = "off"
    BY DEF NoJob
  <2>3. \A j \in Jobs : jobs[j].pc = "off"
    BY <1>2, <2>2
  <2>4. QED BY <2>1, <2>3 DEF LookInv, Looked, Active
<1>12. QED BY <1>4, <1>5, <1>6, <1>7, <1>8, <1>9, <1>10, <1>11 DEF IInv

LEMMA StutterStep == ASSUME IInv, UNCHANGED vars PROVE IInv'
<1>1. /\ UNCHANGED <<main, branches, tags, issues, prs, pushed>> /\ UNCHANGED events
      /\ UNCHANGED <<client, launches, faults, overlapped>> /\ UNCHANGED jobs
  BY DEF vars, hub, history
<1>2. TypeInv' /\ MainInv' /\ PushedInv' /\ PullsInv' /\ BranchesInv' /\ BodiesInv' /\ JobsInv'
  BY <1>1 DEF IInv, TypeInv, MainInv, PushedInv, PullsInv, BranchesInv, BodiesInv, JobsInv
<1>3. LookInv'
  BY <1>1 DEF IInv, LookInv, Active
<1>4. QED BY <1>2, <1>3 DEF IInv

LEMMA JobStep ==
    ASSUME IInv, NEW j \in Jobs,
           Start(j) \/ Release(j) \/ Sync(j) \/ Backport(j) \/ WriteBody(j) \/ Die(j)
    PROVE  IInv'
<1>1. CASE Start(j)
  BY <1>1, OnCommentStep, OnPrClosedStep, OnChangeClosedStep DEF Start
<1>2. CASE Release(j)
  BY <1>2, ListIssuesStep, CreateReleaseIssueStep, FindIssueStep, CreateMissingIssueStep,
     PushPreparedStep, PreparePrStep, CreatePreparePrStep, ReadForPrepareStep, PrInfoStep,
     ReadForCompleteStep, ReadForBranchStep, PushBranchStep DEF Release
<1>3. CASE Sync(j)
  BY <1>3, DiscoverStep, CreatePatchIssueStep, ReadForAddStep, FindBackportStep,
     ProcessBackportsStep, ReadForSyncStep, PushSyncStep, CreateSyncPrStep,
     ReadForSyncTasksStep, SyncPrInfoStep, ReadForSyncedStep DEF Sync
<1>4. CASE Backport(j)
  BY <1>4, VerifyApplyStep, WriteTrackedStep, ReadTrackedStep, NextReleaseStep,
     CreateReleaseStep, ReadReleaseStep, WriteReleaseStep DEF Backport
<1>5. CASE WriteBody(j)
  BY <1>5, WriteBodyStep
<1>6. CASE Die(j)
  BY <1>6, DieStep
<1>7. QED BY <1>1, <1>2, <1>3, <1>4, <1>5, <1>6

LEMMA NextInv == IInv /\ [Next]_vars => IInv'
<1> SUFFICES ASSUME IInv, [Next]_vars PROVE IInv'
  OBVIOUS
<1>1. CASE UNCHANGED vars
  BY <1>1, StutterStep
<1>2. CASE Next
  BY <1>2, JobStep, MergePrStep, MergeChangeStep, FinishReleaseStep DEF Next
<1>3. QED BY <1>1, <1>2

LEMMA AlwaysInv == Spec => []IInv
<1>1. QED BY InitInv, NextInv, PTL DEF Spec

\* Issues, pull requests and commits that are referred to exist.
THEOREM TypeCorrect == Spec => []TypeOK
<1>1. ASSUME IInv PROVE TypeOK
  <2>1. /\ \A n \in DOMAIN main : main[n] \in Trees
        /\ branches \in [Minors -> [base : 0..Len(main), picked : BOOLEAN]]
    BY <1>1, Domains DEF IInv, TypeInv, BranchesInv
  <2>2. ASSUME NEW i \in DOMAIN issues
        PROVE  /\ issues[i].version \in Versions /\ issues[i].open \in BOOLEAN
               /\ issues[i].body.prepare.pr \in 0..Len(prs)
               /\ \A p \in PRs : issues[i].body.sync[p].pr \in 0..Len(prs)
    <3>1. /\ issues[i].version \in Versions /\ issues[i].open \in BOOLEAN
          /\ issues[i].body \in Bodies
      BY <1>1, Domains DEF IInv, TypeInv, Issues
    <3>2. Honest(issues[i].body, issues[i].version[1], prs, branches)
      BY <1>1 DEF IInv, BodiesInv
    <3>3. DOMAIN prs = 1..Len(prs) /\ Len(prs) \in Nat
      BY <1>1, Domains DEF IInv
    <3>4. issues[i].body.prepare.pr \in 0..Len(prs)
      BY <3>2, <3>3 DEF Honest
    <3>5. ASSUME NEW p \in PRs PROVE issues[i].body.sync[p].pr \in 0..Len(prs)
      BY <3>2, <3>3 DEF Honest
    <3>6. QED BY <3>1, <3>4, <3>5
  <2>3. \A k \in DOMAIN prs : /\ prs[k].issue \in DOMAIN issues /\ prs[k].commit \in 0..Len(main)
                              /\ prs[k].name \in {b.name : b \in pushed}
    BY <1>1 DEF IInv, PullsInv
  <2>4. \A j \in Jobs : /\ jobs[j].issue \in 0..Len(issues)
                        /\ jobs[j].pr \in 0..Len(prs)
                        /\ jobs[j].tree \in 0..Len(main)
    BY <1>1 DEF IInv, JobsInv, JobOK
  <2>5. QED BY <1>1, <2>1, <2>2, <2>3, <2>4 DEF TypeOK, IInv, TypeInv
<1>2. QED BY <1>1, AlwaysInv, PTL

\* The changelog on main loses no entry and lists none twice in a section, in
\* whatever order preparations and syncs from older commits are merged.
THEOREM NewsIsKept == Spec => []NewsKept
<1>1. IInv => NewsKept
  BY Domains DEF IInv, MainInv, NewsKept, MainTree
<1>2. QED BY <1>1, AlwaysInv, PTL

\* What the checklist of an issue says is done has happened.
THEOREM ChecklistIsTrue == Spec => []DoneIsDone
<1>1. ASSUME IInv PROVE DoneIsDone
  BY <1>1 DEF IInv, BodiesInv, Honest, DoneIsDone, Merged
<1>2. QED BY <1>1, AlwaysInv, PTL

\* As long as jobs do not overlap, a version has one open issue.
THEOREM OneIssue == Spec => []OneIssuePerVersion
<1>1. ASSUME IInv, ~overlapped, NEW v \in Versions PROVE Cardinality(IssuesOf(v)) =< 1
  <2>1. CASE IssuesOf(v) = {}
    BY <2>1, FS_EmptySet
  <2>2. CASE IssuesOf(v) # {}
    <3>1. PICK i \in IssuesOf(v) : TRUE
      BY <2>2
    <3>2. \A k \in IssuesOf(v) : k = i
      BY <1>1, <3>1 DEF IInv, LookInv, Apart, IssuesOf, OpenIssues
    <3>3. IssuesOf(v) = {i}
      BY <3>1, <3>2
    <3>4. QED BY <3>3, FS_Singleton
  <2>3. QED BY <2>1, <2>2
<1>2. IInv => OneIssuePerVersion
  BY <1>1 DEF OneIssuePerVersion
<1>3. QED BY <1>2, AlwaysInv, PTL

\* A release branch is cut at the commit of a merged preparation, whose section
\* the changelog of that commit has, and never goes back.
THEOREM PreparedBranches == Spec => BranchIsPrepared
<1> DEFINE P == \A m \in Minors : branches'[m].base # branches[m].base =>
                   /\ branches[m].base < branches'[m].base
                   /\ \E k \in Made("prepare") :
                         /\ Merged(k) /\ prs[k].commit = branches'[m].base
                         /\ prs[k].name.version \in main[prs[k].commit].sections
<1>1. ASSUME IInv, NEW j \in Jobs, PushBranch(j) PROVE P
  <2> DEFINE minor == issues[jobs[j].issue].version[1]
             commit == jobs[j].body.prepare.commit
  <2>1. /\ jobs[j].body \in Bodies /\ Honest(jobs[j].body, minor, prs, branches)
        /\ jobs[j].issue \in DOMAIN issues /\ commit # 0
    BY <1>1, BodyHeld, JobAt DEF PushBranch, At, HasBody, OK, JobOK
  <2>2. minor \in Minors
    BY <1>1, <2>1, Domains DEF IInv
  <2>3. \E k \in Made("prepare") : /\ Merged(k) /\ prs[k].commit = commit
                                   /\ prs[k].name.version \in main[prs[k].commit].sections
    BY <1>1, <2>1, CommitOfBody DEF Made, Merged
  <2>4. commit \in Nat \ {0}
    BY <1>1, <2>1, CommitOfBody
  <2>5. CASE /\ branches[minor].base = 0 \/ FastForwards(minor, commit)
             /\ branches' = [branches EXCEPT ![minor].base = commit]
    <3> HIDE DEF minor, commit
    <3>1. /\ branches \in [Minors -> [base : Nat, picked : BOOLEAN]]
          /\ branches'[minor].base = commit
          /\ \A m \in Minors : m # minor => branches'[m].base = branches[m].base
      BY <1>1, <2>2, <2>5 DEF IInv, TypeInv
    <3>2. branches[minor].base =< commit
      BY <2>2, <2>4, <2>5, <3>1 DEF FastForwards
    <3>3. QED BY <2>2, <2>3, <2>4, <3>1, <3>2
  <2>6. CASE UNCHANGED branches
    BY <2>6
  <2>7. QED BY <1>1, <2>5, <2>6 DEF PushBranch
<1>2. ASSUME IInv, NEW j \in Jobs, ProcessBackports(j)
      PROVE  \A m \in Minors : branches'[m].base = branches[m].base
  <2> DEFINE i == jobs[j].issue
             minor == issues[i].version[1]
             picks == PendingBackports(issues[i].body) \cap ChangesOnMain
             more == branches[minor].picked \/ picks # {}
  <2>1. \/ UNCHANGED branches
        \/ branches' = [branches EXCEPT ![minor].picked = more]
    BY <1>2 DEF ProcessBackports
  <2>2. branches \in [Minors -> [base : Nat, picked : BOOLEAN]]
    BY <1>2 DEF IInv, TypeInv
  <2> HIDE DEF minor, more
  <2>3. QED BY <2>1, <2>2
<1>3. ASSUME NEW j \in Jobs, ~PushBranch(j), ~ProcessBackports(j),
             Start(j) \/ Release(j) \/ Sync(j) \/ Backport(j) \/ WriteBody(j) \/ Die(j)
      PROVE  UNCHANGED branches
  <2>1. CASE Start(j)
    BY <2>1 DEF Start, OnComment, OnPrClosed, OnChangeClosed, Launch, hub
  <2>2. CASE Release(j)
    BY <1>3, <2>2 DEF Release, ListIssues, CreateReleaseIssue, FindIssue, CreateMissingIssue,
       PushPrepared, PreparePr, CreatePreparePr, ReadForPrepare, PrInfo, ReadForComplete,
       ReadForBranch, hub
  <2>3. CASE Sync(j)
    BY <1>3, <2>3 DEF Sync, Discover, CreatePatchIssue, ReadForAdd, FindBackport, ReadForSync,
       PushSync, CreateSyncPr, ReadForSyncTasks, SyncPrInfo, ReadForSynced, hub
  <2>4. CASE Backport(j)
    BY <2>4 DEF Backport, VerifyApply, WriteTracked, ReadTracked, NextRelease, CreateRelease,
       ReadRelease, WriteRelease, hub
  <2>5. CASE WriteBody(j)
    BY <2>5 DEF WriteBody
  <2>6. CASE Die(j)
    BY <2>6 DEF Die, hub
  <2>7. QED BY <1>3, <2>1, <2>2, <2>3, <2>4, <2>5, <2>6
<1>4. IInv /\ [Next]_vars => P
  <2> SUFFICES ASSUME IInv, [Next]_vars PROVE P
    OBVIOUS
  <2> HIDE DEF P
  <2>1. ASSUME UNCHANGED branches PROVE P
    BY <2>1 DEF P
  <2>2. CASE UNCHANGED vars
    BY <2>1, <2>2 DEF vars, hub
  <2>3. ASSUME NEW j \in Jobs,
               Start(j) \/ Release(j) \/ Sync(j) \/ Backport(j) \/ WriteBody(j) \/ Die(j)
        PROVE  P
    <3>1. CASE PushBranch(j)
      BY <1>1, <3>1
    <3>2. CASE ProcessBackports(j)
      BY <1>2, <3>2 DEF P
    <3>3. CASE ~PushBranch(j) /\ ~ProcessBackports(j)
      BY <1>3, <2>1, <2>3, <3>3
    <3>4. QED BY <3>1, <3>2, <3>3
  <2>4. ASSUME NEW k \in DOMAIN prs, MergePr(k) PROVE P
    BY <2>1, <2>4 DEF MergePr
  <2>5. ASSUME NEW p \in PRs, MergeChange(p) PROVE P
    BY <2>1, <2>5 DEF MergeChange
  <2>6. ASSUME NEW i \in DOMAIN issues, FinishRelease(i) PROVE P
    BY <2>1, <2>6 DEF FinishRelease
  <2>7. QED BY <2>2, <2>3, <2>4, <2>5, <2>6 DEF Next
<1>5. QED BY <1>4, AlwaysInv, PTL DEF Spec, BranchIsPrepared
=============================================================================

------------------------ MODULE ReleasePipelineProofs ------------------------
(* What the release workflow runs promise whatever runs overlap, for any      *)
(* number of runs, pull requests and failures.                                *)
EXTENDS ReleasePipeline, WellFoundedInduction, TLAPS

Picking == {"checkout", "pick", "push", "recordSuccess", "recordFailure"}

\* A run that is picking has something left to pick.
TodoInv == \A w \in Runs : pc[w] \in Picking => todo[w] # {}

\* What a body marks as done has happened: true of the issue and of every copy
\* a run holds, however old, since nothing published is taken back.
TruthfulOf(b, branch, tags, finals) ==
    /\ \A p \in PRs : b.backports[p] = "done" => p \in PicksOf(branch)
    /\ \A n \in RcNums : b.rc[n] = "done" => n < Len(tags)
    /\ b.final = "done" => finals # {}
Truthful(b) == TruthfulOf(b, remote, rcTags, finalTags)

TruthInv == Truthful(issue) /\ \A w \in Runs : Truthful(body[w])

\* What a run knows when it is about to mark something as done.
MayRecord(w) ==
    /\ pc[w] = "push" => NextPick(w) \in PicksOf(local[w])
    /\ pc[w] = "recordSuccess" => NextPick(w) \in PicksOf(remote)
    /\ pc[w] = "recordRc" => rcNum[w] < Len(rcTags)
    /\ pc[w] = "recordFinal" => finalTags # {}
RecordInv == \A w \in Runs : MayRecord(w)

\* What a run knows of the commit it is about to tag.
TargetInv ==
    \A w \in Runs :
        /\ pc[w] \in {"nextRc", "tagRc"} =>
                \A p \in PRs : body[w].backports[p] = "done" => p \in PicksOf(target[w])
        /\ FirstRelease /\ pc[w] \in {"readFinal", "compare", "tagFinal"} =>
                \E i \in DOMAIN rcTags : rcTags[i].commit = target[w]

Tags == [commit : Branches, gated : SUBSET PRs]

-----------------------------------------------------------------------------
(* Sequences and sets *)

\* Every non-empty set of natural numbers has a least element.
LEMMA NatMinimum ==
    ASSUME NEW T \in SUBSET Nat, T # {}
    PROVE  \E x \in T : \A y \in T : x <= y
<1>1. PICK x \in T : \A y \in T : ~ (<<y, x>> \in OpToRel(<, Nat))
  BY NatLessThanWellFounded, WFMin
<1>2. \A y \in T : ~ (y < x)
  BY <1>1 DEF OpToRel
<1>3. QED BY <1>2

\* The run picks one of its pull requests.
LEMMA NextPickInTodo ==
    ASSUME NEW w \in Runs, todo[w] \subseteq PRs, todo[w] # {}
    PROVE  NextPick(w) \in todo[w]
<1>1. \E p \in todo[w] : \A q \in todo[w] : p <= q
  BY NatMinimum, PRsAssumption
<1>2. QED BY <1>1 DEF NextPick

LEMMA PrefixItself == ASSUME NEW S, NEW s \in Seq(S) PROVE IsPrefix(s, s)
  BY DEF IsPrefix

\* A branch that grew has the picks it had; a tag keeps its place.
LEMMA PrefixKeeps ==
    ASSUME NEW S, NEW s \in Seq(S), NEW t \in Seq(S), IsPrefix(s, t)
    PROVE  /\ PicksOf(s) \subseteq PicksOf(t)
           /\ Len(s) <= Len(t)
           /\ \A i \in DOMAIN s : i \in DOMAIN t /\ t[i] = s[i]
<1>1. Len(s) <= Len(t) /\ \A i \in 1..Len(s) : s[i] = t[i] /\ i \in 1..Len(t)
  BY DEF IsPrefix
<1>2. QED BY <1>1 DEF PicksOf

LEMMA AppendExtends ==
    ASSUME NEW S, NEW s \in Seq(S), NEW e \in S
    PROVE  /\ Append(s, e) \in Seq(S) /\ IsPrefix(s, Append(s, e))
           /\ Len(Append(s, e)) = Len(s) + 1 /\ Append(s, e)[Len(s) + 1] = e
           /\ \A i \in DOMAIN Append(s, e) : i \in DOMAIN s \/ i = Len(s) + 1
  BY DEF IsPrefix

LEMMA AppendPicks ==
    ASSUME NEW s \in Branches, NEW c \in Commits
    PROVE  PicksOf(Append(s, c)) = PicksOf(s) \cup {c.pr}
<1>1. /\ DOMAIN Append(s, c) = DOMAIN s \cup {Len(s) + 1}
      /\ Append(s, c)[Len(s) + 1] = c
      /\ \A i \in DOMAIN s : Append(s, c)[i] = s[i]
  BY DEF Branches
<1>2. QED BY <1>1 DEF PicksOf

\* Marking a line of a body leaves a body.
LEMMA MarkedBodies ==
    ASSUME NEW b \in Bodies
    PROVE  /\ \A p \in PRs, s \in Statuses : SetBackport(b, p, s) \in Bodies
           /\ \A n \in RcNums, s \in {"todo", "done"} : SetRc(b, n, s) \in Bodies
           /\ \A s \in {"todo", "done", "error"} : SetFinal(b, s) \in Bodies
           /\ \A f \in [PRs -> Statuses] : [b EXCEPT !.backports = f] \in Bodies
  BY DEF Bodies, SetBackport, SetRc, SetFinal

-----------------------------------------------------------------------------
(* Type correctness *)

LEMMA InitTypes == Init => TypeOK /\ TodoInv
<1>. SUFFICES ASSUME Init PROVE TypeOK /\ TodoInv
  OBVIOUS
<1>1. ASSUME NEW prs \in Listed PROVE NewBody(prs) \in Bodies
  <2>1. [p \in PRs |-> IF p \in prs THEN "pending" ELSE "absent"] \in [PRs -> Statuses]
    BY DEF Statuses
  <2>2. QED BY <2>1 DEF NewBody, Bodies
<1>2. <<>> \in Branches /\ <<>> \in Seq(Tags)
  BY DEF Branches
<1>3. 0 \in RcNums /\ 0 \in 0..MaxFaults
  BY BoundsAssumption DEF RcNums
<1>4. QED BY <1>1, <1>2, <1>3 DEF Init, TypeOK, TodoInv, Picking, Labels, Tags

\* _process_pr_commit_infos and add_backports_to_body leave a body.
LEMMA WithBackportsIsBody ==
    ASSUME NEW b \in Bodies, NEW prs, NEW k, NeedsRcTask(b, k) => NextRcTask(b) \in RcNums
    PROVE  WithBackports(b, prs, k) \in Bodies
<1>. DEFINE f == [p \in PRs |->
                    IF p \in prs /\ b.backports[p] = "absent" THEN "pending" ELSE b.backports[p]]
<1>1. f \in [PRs -> Statuses]
  BY DEF Bodies, Statuses
<1>2. [b EXCEPT !.backports = f] \in Bodies
  BY <1>1, MarkedBodies
<1>3. QED BY <1>2, MarkedBodies DEF WithBackports

LEMMA FaultTypes == TypeOK /\ (Fault \/ NoFault) => faults' \in 0..MaxFaults
  BY BoundsAssumption DEF TypeOK, Fault, NoFault

LEMMA RecordTypes ==
    ASSUME TypeOK, TodoInv, NEW w \in Runs, NEW status \in Statuses,
           NEW anyFailed \in BOOLEAN, Record(w, status, anyFailed),
           pc[w] \in {"recordSuccess", "recordFailure"}
    PROVE  TypeOK' /\ TodoInv'
<1>1. NextPick(w) \in PRs
  BY NextPickInTodo DEF TypeOK, TodoInv, Picking
<1>2. SetBackport(body[w], NextPick(w), status) \in Bodies
  BY <1>1, MarkedBodies DEF TypeOK
<1>3. issue' \in Bodies /\ body' \in [Runs -> Bodies]
  BY <1>2 DEF Record, TypeOK
<1>4. faults' \in 0..MaxFaults
  BY FaultTypes DEF Record
<1>5. AfterBackports(w, anyFailed) \in {"gate", "end"}
  BY DEF AfterBackports
<1>6. /\ pc' \in [Runs -> Labels] /\ \A v \in Runs \ {w} : pc'[v] = pc[v]
      /\ todo' = [todo EXCEPT ![w] = todo[w] \ {NextPick(w)}]
      /\ pc'[w] \in Picking => todo[w] \ {NextPick(w)} # {}
  BY <1>5 DEF Record, Goto, TypeOK, Labels, Picking
<1>7. QED BY <1>3, <1>4, <1>6 DEF Record, TypeOK, TodoInv

LEMMA NextTypes == TypeOK /\ TodoInv /\ [Next]_vars => TypeOK' /\ TodoInv'
<1>. SUFFICES ASSUME TypeOK, TodoInv, [Next]_vars PROVE TypeOK' /\ TodoInv'
  OBVIOUS
<1>. USE DEF Goto, At, Picking, sharedVars, runVars
<1>1. ASSUME NEW p \in PRs, NEW s \in {"merged", "closed"}, ChangePr(p, s)
      PROVE  TypeOK' /\ TodoInv'
  BY <1>1 DEF ChangePr, TypeOK, TodoInv
<1>2. ASSUME NEW p \in PRs, IgnoreBackport(p) PROVE TypeOK' /\ TodoInv'
  <2>1. issue' \in Bodies
    BY <1>2, MarkedBodies DEF IgnoreBackport, TypeOK, Statuses
  <2>2. QED BY <1>2, <2>1 DEF IgnoreBackport, TypeOK, TodoInv
<1>3. ASSUME NEW p \in PRs, ResolveByHand(p) PROVE TypeOK' /\ TodoInv'
  <2>1. issue' \in Bodies
    BY <1>3, MarkedBodies DEF ResolveByHand, TypeOK, Statuses
  <2>2. remote' \in Branches
    <3>1. [pr |-> p, by |-> Maintainer] \in Commits
      BY DEF Commits
    <3>2. QED BY <1>3, <3>1, AppendExtends DEF ResolveByHand, TypeOK, Branches
  <2>3. QED BY <1>3, <2>1, <2>2 DEF ResolveByHand, TypeOK, TodoInv
<1>4. ASSUME NEW w \in Runs, NEW k \in Commands, NEW prs \in SUBSET PRs, Launch(w, k, prs)
      PROVE  TypeOK' /\ TodoInv'
  <2>1. overlapped' \in BOOLEAN
    BY <1>4 DEF Launch
  <2>2. pc' \in [Runs -> Labels]
    BY <1>4 DEF Launch, TypeOK, Labels
  <2>3. QED BY <1>4, <2>1, <2>2 DEF Launch, TypeOK, TodoInv
<1>5. ASSUME NEW w \in Runs, ReadBody(w) PROVE TypeOK' /\ TodoInv'
  <2>1. body' \in [Runs -> Bodies]
    BY <1>5, WithBackportsIsBody DEF ReadBody, TypeOK
  <2>2. pc' \in [Runs -> Labels] /\ pc'[w] \notin Picking /\ \A v \in Runs \ {w} : pc'[v] = pc[v]
    BY <1>5 DEF ReadBody, TypeOK, Labels
  <2>3. QED BY <1>5, <2>1, <2>2 DEF ReadBody, TypeOK, TodoInv
<1>6. ASSUME NEW w \in Runs, WriteAdded(w) PROVE TypeOK' /\ TodoInv'
  BY <1>6 DEF WriteAdded, TypeOK, TodoInv, Labels
<1>7. ASSUME NEW w \in Runs, ResolvePrs(w) PROVE TypeOK' /\ TodoInv'
  <2>. DEFINE pending == Backports(body[w], {"pending", "ignore"})
  <2>1. PICK unresolved \in {{}} \cup {{p} : p \in PRs} :
            LET bad == {p \in pending : prState[p] = "closed"} \cup (pending \cap unresolved)
                picks == {p \in pending \ bad : prState[p] = "merged"}
                Marked(prs) == [body[w] EXCEPT !.backports = [p \in PRs |->
                            IF p \in prs THEN "error" ELSE body[w].backports[p]]]
            IN  /\ \E written \in SUBSET bad :
                    /\ issue' = IF written = {} THEN issue ELSE Marked(written)
                    /\ IF unresolved = {} /\ written = bad THEN NoFault ELSE Fault
                /\ body' = [body EXCEPT ![w] = Marked(bad)]
                /\ failed' = [failed EXCEPT ![w] = bad # {}]
                /\ todo' = [todo EXCEPT ![w] = picks]
                /\ Goto(w, IF picks = {} THEN AfterBackports(w, bad # {}) ELSE "checkout")
    BY <1>7 DEF ResolvePrs
  <2>. DEFINE bad == {p \in pending : prState[p] = "closed"} \cup (pending \cap unresolved)
              picks == {p \in pending \ bad : prState[p] = "merged"}
              F(prs) == [p \in PRs |-> IF p \in prs THEN "error" ELSE body[w].backports[p]]
              Marked(prs) == [body[w] EXCEPT !.backports = F(prs)]
  <2>2. pending \subseteq PRs /\ picks \subseteq PRs
    BY DEF Backports
  <2>3. ASSUME NEW prs PROVE Marked(prs) \in Bodies
    <3>1. body[w] \in Bodies
      BY DEF TypeOK
    <3>2. F(prs) \in [PRs -> Statuses]
      BY <3>1 DEF Bodies, Statuses
    <3>3. QED BY <3>1, <3>2, MarkedBodies
  <2>. HIDE DEF pending, bad
  <2>4. issue' \in Bodies /\ body' \in [Runs -> Bodies]
    <3>1. body' = [body EXCEPT ![w] = Marked(bad)]
          /\ \E written : issue' = issue \/ issue' = Marked(written)
      BY <2>1 DEF bad, pending
    <3>. HIDE DEF Marked
    <3>2. QED BY <2>3, <3>1 DEF TypeOK
  <2>5. todo' = [todo EXCEPT ![w] = picks] /\ failed' \in [Runs -> BOOLEAN] /\ faults' \in 0..MaxFaults
        /\ Goto(w, IF picks = {} THEN AfterBackports(w, bad # {}) ELSE "checkout")
    BY <2>1, FaultTypes DEF TypeOK, bad, pending
  <2>. HIDE DEF picks
  <2>6. AfterBackports(w, bad # {}) \in {"gate", "end"}
    BY DEF AfterBackports
  <2>7. pc' \in [Runs -> Labels] /\ (pc'[w] \in Picking => picks # {})
        /\ \A v \in Runs \ {w} : pc'[v] = pc[v]
    BY <2>5, <2>6 DEF TypeOK, Labels
  <2>8. TodoInv'
    BY <2>5, <2>7 DEF TypeOK, TodoInv
  <2>9. TypeOK'
    BY <1>7, <2>2, <2>4, <2>5, <2>7 DEF ResolvePrs, TypeOK
  <2>10. QED BY <2>8, <2>9
<1>8. ASSUME NEW w \in Runs, Checkout(w) PROVE TypeOK' /\ TodoInv'
  BY <1>8 DEF Checkout, TypeOK, TodoInv, Labels
<1>9. ASSUME NEW w \in Runs, CherryPick(w) PROVE TypeOK' /\ TodoInv'
  <2>1. NextPick(w) \in PRs
    BY <1>9, NextPickInTodo DEF CherryPick, TypeOK, TodoInv
  <2>2. [pr |-> NextPick(w), by |-> w] \in Commits
    BY <2>1 DEF Commits
  <2>3. local' \in [Runs -> Branches]
    <3>1. Append(local[w], [pr |-> NextPick(w), by |-> w]) \in Branches
      BY <2>2, AppendExtends DEF TypeOK, Branches
    <3>2. QED BY <1>9, <3>1 DEF CherryPick, TypeOK
  <2>4. faults' \in 0..MaxFaults
    BY <1>9, FaultTypes DEF CherryPick
  <2>5. pc' \in [Runs -> Labels] /\ \A v \in Runs \ {w} : pc'[v] = pc[v]
    BY <1>9 DEF CherryPick, TypeOK, Labels
  <2>6. QED BY <1>9, <2>3, <2>4, <2>5 DEF CherryPick, TypeOK, TodoInv
<1>10. ASSUME NEW w \in Runs, Push(w) PROVE TypeOK' /\ TodoInv'
  <2>1. faults' \in 0..MaxFaults
    BY <1>10, FaultTypes DEF Push
  <2>2. remote' \in Branches
    BY <1>10 DEF Push, TypeOK
  <2>3. pc' \in [Runs -> Labels] /\ \A v \in Runs \ {w} : pc'[v] = pc[v]
    BY <1>10 DEF Push, TypeOK, Labels
  <2>4. QED BY <1>10, <2>1, <2>2, <2>3 DEF Push, TypeOK, TodoInv
<1>11. ASSUME NEW w \in Runs, RecordSuccess(w) PROVE TypeOK' /\ TodoInv'
  <2>1. Record(w, "done", failed[w]) /\ failed[w] \in BOOLEAN
    BY <1>11 DEF RecordSuccess, TypeOK
  <2>2. QED BY <1>11, <2>1, RecordTypes DEF RecordSuccess, RecordFailure, Statuses
<1>12. ASSUME NEW w \in Runs, RecordFailure(w) PROVE TypeOK' /\ TodoInv'
  <2>1. Record(w, "error", TRUE) /\ TRUE \in BOOLEAN
    BY <1>12 DEF RecordFailure, TypeOK
  <2>2. QED BY <1>12, <2>1, RecordTypes DEF RecordSuccess, RecordFailure, Statuses
<1>13. ASSUME NEW w \in Runs, Gate(w) PROVE TypeOK' /\ TodoInv'
  BY <1>13 DEF Gate, TypeOK, TodoInv, Labels
<1>14. ASSUME NEW w \in Runs, FetchBranch(w) PROVE TypeOK' /\ TodoInv'
  BY <1>14 DEF FetchBranch, TypeOK, TodoInv, Labels
<1>15. ASSUME NEW w \in Runs, NextRc(w) PROVE TypeOK' /\ TodoInv'
  <2>1. Len(rcTags) \in RcNums /\ body[w] \in Bodies
    BY <1>15 DEF NextRc, TypeOK
  <2>2. SetRc(body[w], Len(rcTags), "todo") \in Bodies
    BY <2>1, MarkedBodies
  <2>3. issue' \in Bodies /\ body' \in [Runs -> Bodies] /\ rcNum' \in [Runs -> RcNums]
    BY <1>15, <2>1, <2>2 DEF NextRc, TypeOK
  <2>4. pc' \in [Runs -> Labels] /\ pc'[w] \notin Picking /\ \A v \in Runs \ {w} : pc'[v] = pc[v]
    BY <1>15 DEF NextRc, TypeOK, Labels
  <2>5. QED BY <1>15, <2>3, <2>4 DEF NextRc, TypeOK, TodoInv
<1>16. ASSUME NEW w \in Runs, TagRc(w) PROVE TypeOK' /\ TodoInv'
  <2>1. [commit |-> target[w], gated |-> Backports(body[w], {"done"})] \in Tags
    BY DEF TypeOK, Tags, Backports
  <2>2. rcTags' \in Seq(Tags)
    <3>1. rcTags \in Seq(Tags)
      BY DEF TypeOK, Tags
    <3>2. QED BY <1>16, <2>1, <3>1, AppendExtends DEF TagRc
  <2>3. pc' \in [Runs -> Labels] /\ pc'[w] \notin Picking /\ \A v \in Runs \ {w} : pc'[v] = pc[v]
    BY <1>16 DEF TagRc, TypeOK, Labels
  <2>4. QED BY <1>16, <2>2, <2>3 DEF TagRc, TypeOK, TodoInv, Tags
<1>17. ASSUME NEW w \in Runs, RecordRc(w) PROVE TypeOK' /\ TodoInv'
  <2>1. issue' \in Bodies
    BY <1>17, MarkedBodies DEF RecordRc, TypeOK
  <2>2. QED BY <1>17, <2>1 DEF RecordRc, TypeOK, TodoInv, Labels
<1>18. ASSUME NEW w \in Runs, FetchTags(w) PROVE TypeOK' /\ TodoInv'
  <2>1. target' \in [Runs -> Branches]
    <3>1. rcTags # <<>> => Last(rcTags).commit \in Branches
      <4>1. rcTags \in Seq(Tags)
        BY DEF TypeOK, Tags
      <4>2. rcTags # <<>> => Last(rcTags) \in Tags
        BY <4>1 DEF Last
      <4>3. QED BY <4>2 DEF Tags
    <3>2. QED BY <1>18, <3>1 DEF FetchTags, TypeOK
  <2>2. pc' \in [Runs -> Labels] /\ pc'[w] \notin Picking /\ \A v \in Runs \ {w} : pc'[v] = pc[v]
    BY <1>18 DEF FetchTags, TypeOK, Labels
  <2>3. QED BY <1>18, <2>1, <2>2 DEF FetchTags, TypeOK, TodoInv
<1>19. ASSUME NEW w \in Runs, ReadFinal(w) PROVE TypeOK' /\ TodoInv'
  BY <1>19 DEF ReadFinal, TypeOK, TodoInv, Labels
<1>20. ASSUME NEW w \in Runs, CompareBranch(w) PROVE TypeOK' /\ TodoInv'
  <2>1. issue' \in Bodies
    BY <1>20, MarkedBodies DEF CompareBranch, TypeOK
  <2>2. target' \in [Runs -> Branches]
    BY <1>20 DEF CompareBranch, TypeOK
  <2>3. pc' \in [Runs -> Labels] /\ pc'[w] \notin Picking /\ \A v \in Runs \ {w} : pc'[v] = pc[v]
    BY <1>20 DEF CompareBranch, TypeOK, Labels
  <2>4. QED BY <1>20, <2>1, <2>2, <2>3 DEF CompareBranch, TypeOK, TodoInv
<1>21. ASSUME NEW w \in Runs, TagFinal(w) PROVE TypeOK' /\ TodoInv'
  <2>1. finalTags' \subseteq Branches
    BY <1>21 DEF TagFinal, TypeOK
  <2>2. pc' \in [Runs -> Labels] /\ pc'[w] \notin Picking /\ \A v \in Runs \ {w} : pc'[v] = pc[v]
    BY <1>21 DEF TagFinal, TypeOK, Labels
  <2>3. QED BY <1>21, <2>1, <2>2 DEF TagFinal, TypeOK, TodoInv
<1>22. ASSUME NEW w \in Runs, RecordFinal(w) PROVE TypeOK' /\ TodoInv'
  <2>1. issue' \in Bodies
    BY <1>22, MarkedBodies DEF RecordFinal, TypeOK
  <2>2. QED BY <1>22, <2>1 DEF RecordFinal, TypeOK, TodoInv, Labels
<1>23. ASSUME NEW w \in Runs, Crash(w) PROVE TypeOK' /\ TodoInv'
  <2>1. faults' \in 0..MaxFaults
    BY <1>23, FaultTypes DEF Crash
  <2>2. QED BY <1>23, <2>1 DEF Crash, TypeOK, TodoInv, Labels
<1>24. CASE UNCHANGED vars
  BY <1>24 DEF vars, TypeOK, TodoInv
<1>25. QED
  BY <1>1, <1>2, <1>3, <1>4, <1>5, <1>6, <1>7, <1>8, <1>9, <1>10, <1>11, <1>12, <1>13, <1>14, <1>15, <1>16, <1>17, <1>18, <1>19, <1>20, <1>21, <1>22, <1>23, <1>24 DEF Next, Environment, Step

-----------------------------------------------------------------------------
(* What is published stays *)

Grows == /\ IsPrefix(remote, remote')
         /\ IsPrefix(rcTags, rcTags')
         /\ finalTags # {} => finalTags' = finalTags

\* A push is a fast-forward, a tag is new: whatever a run believes, the remote
\* checks it.
LEMMA NextGrows == TypeOK /\ [Next]_vars => Grows
<1>. SUFFICES ASSUME TypeOK, [Next]_vars PROVE Grows
  OBVIOUS
<1>1. IsPrefix(remote, remote) /\ IsPrefix(rcTags, rcTags)
  BY PrefixItself DEF TypeOK, Branches
<1>2. UNCHANGED <<remote, rcTags, finalTags>> => Grows
  BY <1>1 DEF Grows
<1>3. ASSUME NEW p \in PRs, ResolveByHand(p) PROVE Grows
  <2>1. [pr |-> p, by |-> Maintainer] \in Commits
    BY DEF Commits
  <2>2. IsPrefix(remote, Append(remote, [pr |-> p, by |-> Maintainer]))
    BY <2>1, AppendExtends DEF TypeOK, Branches
  <2>3. /\ remote' = remote \/ remote' = Append(remote, [pr |-> p, by |-> Maintainer])
        /\ UNCHANGED <<rcTags, finalTags>>
    BY <1>3 DEF ResolveByHand
  <2>4. QED BY <1>1, <2>2, <2>3 DEF Grows
<1>4. ASSUME NEW w \in Runs, Push(w) PROVE Grows
  BY <1>1, <1>4 DEF Push, Grows
<1>5. ASSUME NEW w \in Runs, TagRc(w) PROVE Grows
  <2>1. [commit |-> target[w], gated |-> Backports(body[w], {"done"})] \in Tags
    BY DEF TypeOK, Tags, Backports
  <2>2. rcTags \in Seq(Tags)
    BY DEF TypeOK, Tags
  <2>3. IsPrefix(rcTags, Append(rcTags, [commit |-> target[w],
                                         gated |-> Backports(body[w], {"done"})]))
    BY <2>1, <2>2, AppendExtends
  <2>4. QED BY <1>1, <1>5, <2>3 DEF TagRc, Grows
<1>6. ASSUME NEW w \in Runs, TagFinal(w) PROVE Grows
  BY <1>1, <1>6 DEF TagFinal, Grows
<1>7. ASSUME NEW w \in Runs,
             \/ ReadBody(w) \/ WriteAdded(w) \/ ResolvePrs(w) \/ Checkout(w) \/ CherryPick(w)
             \/ RecordSuccess(w) \/ RecordFailure(w)
      PROVE  UNCHANGED <<remote, rcTags, finalTags>>
  BY <1>7 DEF ReadBody, WriteAdded, ResolvePrs, Checkout, CherryPick, RecordSuccess,
              RecordFailure, Record, sharedVars
<1>8. ASSUME NEW w \in Runs,
             \/ Gate(w) \/ FetchBranch(w) \/ NextRc(w) \/ RecordRc(w)
             \/ FetchTags(w) \/ ReadFinal(w) \/ CompareBranch(w) \/ RecordFinal(w) \/ Crash(w)
      PROVE  UNCHANGED <<remote, rcTags, finalTags>>
  BY <1>8 DEF Gate, FetchBranch, NextRc, RecordRc, FetchTags, ReadFinal, CompareBranch,
              RecordFinal, Crash, sharedVars
<1>9. ASSUME NEW p \in PRs, ChangePr(p, "merged") \/ ChangePr(p, "closed") \/ IgnoreBackport(p)
      PROVE  UNCHANGED <<remote, rcTags, finalTags>>
  BY <1>9 DEF ChangePr, IgnoreBackport
<1>10. ASSUME NEW w \in Runs, NEW k \in Commands, NEW prs \in SUBSET PRs, Launch(w, k, prs)
       PROVE  UNCHANGED <<remote, rcTags, finalTags>>
  BY <1>10 DEF Launch, sharedVars
<1>11. CASE UNCHANGED vars
  BY <1>2, <1>11 DEF vars, sharedVars
<1>12. QED
  BY <1>2, <1>3, <1>4, <1>5, <1>6, <1>7, <1>8, <1>9, <1>10, <1>11 DEF Next, Environment, Step

LEMMA GrowthKeeps ==
    ASSUME TypeOK, TypeOK', Grows
    PROVE  /\ PicksOf(remote) \subseteq PicksOf(remote')
           /\ Len(rcTags) <= Len(rcTags')
           /\ \A i \in DOMAIN rcTags : i \in DOMAIN rcTags' /\ rcTags'[i] = rcTags[i]
           /\ finalTags # {} => finalTags' # {}
<1>1. remote \in Seq(Commits) /\ remote' \in Seq(Commits)
  BY DEF TypeOK, Branches
<1>2. rcTags \in Seq(Tags) /\ rcTags' \in Seq(Tags)
  BY DEF TypeOK, Tags
<1>3. QED BY <1>1, <1>2, PrefixKeeps DEF Grows

\* What a body says stays true.
LEMMA TruthStays ==
    ASSUME TypeOK, TypeOK', Grows, NEW b, Truthful(b)
    PROVE  TruthfulOf(b, remote', rcTags', finalTags')
<1>1. rcTags \in Seq(Tags) /\ rcTags' \in Seq(Tags)
  BY DEF TypeOK, Tags
<1>2. Len(rcTags) \in Nat /\ Len(rcTags') \in Nat /\ RcNums \subseteq Nat
  BY <1>1 DEF RcNums
<1>3. /\ PicksOf(remote) \subseteq PicksOf(remote') /\ Len(rcTags) <= Len(rcTags')
      /\ finalTags # {} => finalTags' # {}
  BY GrowthKeeps
<1>4. \A p \in PRs : b.backports[p] = "done" => p \in PicksOf(remote')
  BY <1>3 DEF Truthful, TruthfulOf
<1>5. \A n \in RcNums : b.rc[n] = "done" => n < Len(rcTags')
  BY <1>2, <1>3 DEF Truthful, TruthfulOf
<1>6. b.final = "done" => finalTags' # {}
  BY <1>3 DEF Truthful, TruthfulOf
<1>7. QED BY <1>4, <1>5, <1>6 DEF TruthfulOf

\* Marking a line keeps a body truthful, if it is not marked as done or what it
\* says has happened.
LEMMA MarkedTruth ==
    ASSUME NEW b \in Bodies, NEW branch, NEW tags, NEW finals,
           TruthfulOf(b, branch, tags, finals)
    PROVE  /\ \A p \in PRs, s \in Statuses :
                s # "done" \/ p \in PicksOf(branch) =>
                    TruthfulOf(SetBackport(b, p, s), branch, tags, finals)
           /\ \A n \in RcNums, s \in {"todo", "done"} :
                s # "done" \/ n < Len(tags) => TruthfulOf(SetRc(b, n, s), branch, tags, finals)
           /\ \A s \in {"todo", "done", "error"} :
                s # "done" \/ finals # {} => TruthfulOf(SetFinal(b, s), branch, tags, finals)
           /\ \A f \in [PRs -> Statuses] :
                (\A p \in PRs : f[p] = "done" => b.backports[p] = "done") =>
                    TruthfulOf([b EXCEPT !.backports = f], branch, tags, finals)
<1>1. ASSUME NEW p \in PRs, NEW s \in Statuses, s # "done" \/ p \in PicksOf(branch)
      PROVE  TruthfulOf(SetBackport(b, p, s), branch, tags, finals)
  <2>1. /\ SetBackport(b, p, s).rc = b.rc /\ SetBackport(b, p, s).final = b.final
        /\ \A q \in PRs : SetBackport(b, p, s).backports[q] = IF q = p THEN s ELSE b.backports[q]
    BY DEF SetBackport, Bodies
  <2>2. QED BY <1>1, <2>1 DEF TruthfulOf
<1>2. ASSUME NEW n \in RcNums, NEW s \in {"todo", "done"}, s # "done" \/ n < Len(tags)
      PROVE  TruthfulOf(SetRc(b, n, s), branch, tags, finals)
  <2>1. /\ SetRc(b, n, s).backports = b.backports /\ SetRc(b, n, s).final = b.final
        /\ \A m \in RcNums : SetRc(b, n, s).rc[m] = IF m = n THEN s ELSE b.rc[m]
    BY DEF SetRc, Bodies
  <2>2. QED BY <1>2, <2>1 DEF TruthfulOf
<1>3. ASSUME NEW s \in {"todo", "done", "error"}, s # "done" \/ finals # {}
      PROVE  TruthfulOf(SetFinal(b, s), branch, tags, finals)
  <2>1. /\ SetFinal(b, s).backports = b.backports /\ SetFinal(b, s).rc = b.rc
        /\ SetFinal(b, s).final = s
    BY DEF SetFinal, Bodies
  <2>2. QED BY <1>3, <2>1 DEF TruthfulOf
<1>4. ASSUME NEW f \in [PRs -> Statuses], \A p \in PRs : f[p] = "done" => b.backports[p] = "done"
      PROVE  TruthfulOf([b EXCEPT !.backports = f], branch, tags, finals)
  <2>1. /\ [b EXCEPT !.backports = f].backports = f
        /\ [b EXCEPT !.backports = f].rc = b.rc /\ [b EXCEPT !.backports = f].final = b.final
    BY DEF Bodies
  <2>2. QED BY <1>4, <2>1 DEF TruthfulOf
<1>5. QED BY <1>1, <1>2, <1>3, <1>4

\* What a run knows is not disturbed by what the others do.
LEMMA MayRecordStays ==
    ASSUME TypeOK, TypeOK', Grows, NEW w \in Runs, MayRecord(w),
           pc'[w] = pc[w], todo'[w] = todo[w], local'[w] = local[w], rcNum'[w] = rcNum[w]
    PROVE  MayRecord(w)'
<1>1. NextPick(w)' = NextPick(w)
  BY DEF NextPick
<1>2. rcTags \in Seq(Tags) /\ rcTags' \in Seq(Tags) /\ rcNum[w] \in Nat
  BY DEF TypeOK, Tags, RcNums
<1>3. rcNum[w] < Len(rcTags) => rcNum[w] < Len(rcTags')
  BY <1>2, GrowthKeeps
<1>4. QED BY <1>1, <1>3, GrowthKeeps DEF MayRecord

\* A run enters these four places only from the step before.
Recording == {"push", "recordSuccess", "recordRc", "recordFinal"}
LEMMA NotRecording == ASSUME NEW w \in Runs, pc'[w] \notin Recording PROVE MayRecord(w)'
  BY DEF MayRecord, Recording

LEMMA NextMayRecord ==
    TypeOK /\ TodoInv /\ TypeOK' /\ Grows /\ RecordInv /\ [Next]_vars => RecordInv'
<1>. SUFFICES ASSUME TypeOK, TodoInv, TypeOK', Grows, RecordInv, [Next]_vars,
                     NEW v \in Runs
              PROVE  MayRecord(v)'
  BY DEF RecordInv
<1>. USE DEF Goto, At, sharedVars, runVars
<1>1. MayRecord(v)
  BY DEF RecordInv
<1>2. \/ pc'[v] \notin Recording
      \/ UNCHANGED <<pc[v], todo[v], local[v], rcNum[v]>>
      => MayRecord(v)'
  BY <1>1, MayRecordStays, NotRecording
<1>3. ASSUME NEW w \in Runs, CherryPick(w) PROVE MayRecord(v)'
  <2>1. CASE v # w
    BY <1>2, <1>3, <2>1 DEF CherryPick, TypeOK
  <2>2. CASE v = w /\ pc'[w] # "push"
    BY <1>2, <1>3, <2>2 DEF CherryPick, TypeOK, Recording
  <2>3. CASE v = w /\ pc'[w] = "push"
    <3>. DEFINE c == [pr |-> NextPick(w), by |-> w]
    <3>1. local' = [local EXCEPT ![w] = Append(local[w], c)] /\ UNCHANGED todo
      BY <1>3, <2>3 DEF CherryPick, TypeOK
    <3>2. c \in Commits
      BY <1>3, NextPickInTodo DEF CherryPick, TypeOK, TodoInv, Picking, Commits
    <3>3. c.pr \in PicksOf(Append(local[w], c))
      BY <3>2, AppendPicks DEF TypeOK
    <3>4. NextPick(w)' = NextPick(w)
      BY <3>1 DEF NextPick
    <3>5. QED BY <2>3, <3>1, <3>3, <3>4 DEF MayRecord, TypeOK
  <2>4. QED BY <2>1, <2>2, <2>3
<1>4. ASSUME NEW w \in Runs, Push(w) PROVE MayRecord(v)'
  <2>1. CASE v # w
    BY <1>2, <1>4, <2>1 DEF Push, TypeOK
  <2>2. CASE v = w /\ pc'[w] # "recordSuccess"
    BY <1>2, <1>4, <2>2 DEF Push, TypeOK, Recording
  <2>3. CASE v = w /\ pc'[w] = "recordSuccess"
    <3>1. remote' = local[w] /\ todo' = todo /\ pc[w] = "push"
      BY <1>4, <2>3 DEF Push, TypeOK
    <3>2. NextPick(w)' = NextPick(w)
      BY <3>1 DEF NextPick
    <3>3. QED BY <1>1, <2>3, <3>1, <3>2 DEF MayRecord
  <2>4. QED BY <2>1, <2>2, <2>3
<1>5. ASSUME NEW w \in Runs, TagRc(w) PROVE MayRecord(v)'
  <2>1. CASE v # w
    BY <1>2, <1>5, <2>1 DEF TagRc, TypeOK
  <2>2. CASE v = w /\ pc'[w] # "recordRc"
    BY <1>2, <1>5, <2>2 DEF TagRc, TypeOK, Recording
  <2>3. CASE v = w /\ pc'[w] = "recordRc"
    <3>. DEFINE tag == [commit |-> target[w], gated |-> Backports(body[w], {"done"})]
    <3>1. \/ rcTags' = Append(rcTags, tag) /\ Len(rcTags) = rcNum[w]
          \/ rcTags' = rcTags /\ rcNum[w] < Len(rcTags)
      BY <1>5, <2>3 DEF TagRc, TaggedRc, TypeOK
    <3>2. tag \in Tags /\ rcTags \in Seq(Tags) /\ rcNum' = rcNum
      BY <1>5 DEF TypeOK, Tags, Backports, TagRc
    <3>3. CASE rcTags' = Append(rcTags, tag) /\ Len(rcTags) = rcNum[w]
      <4>1. Len(rcTags') = Len(rcTags) + 1 /\ Len(rcTags) \in Nat
        BY <3>2, <3>3, AppendExtends
      <4>2. QED BY <2>3, <3>2, <3>3, <4>1 DEF MayRecord
    <3>4. CASE rcTags' = rcTags /\ rcNum[w] < Len(rcTags)
      BY <2>3, <3>2, <3>4 DEF MayRecord
    <3>5. QED BY <3>1, <3>3, <3>4
  <2>4. QED BY <2>1, <2>2, <2>3
<1>6. ASSUME NEW w \in Runs, TagFinal(w) PROVE MayRecord(v)'
  <2>1. CASE v # w
    BY <1>2, <1>6, <2>1 DEF TagFinal, TypeOK
  <2>2. CASE v = w /\ pc'[w] # "recordFinal"
    BY <1>2, <1>6, <2>2 DEF TagFinal, TypeOK, Recording
  <2>3. CASE v = w /\ pc'[w] = "recordFinal"
    BY <1>6, <2>3 DEF TagFinal, TypeOK, MayRecord
  <2>4. QED BY <2>1, <2>2, <2>3
<1>7. ASSUME NEW w \in Runs, RecordSuccess(w) \/ RecordFailure(w) PROVE MayRecord(v)'
  <2>1. PICK status, anyFailed : Record(w, status, anyFailed)
    BY <1>7 DEF RecordSuccess, RecordFailure
  <2>2. AfterBackports(w, anyFailed) \in {"gate", "end"}
    BY DEF AfterBackports
  <2>3. pc'[w] \notin Recording /\ \A u \in Runs \ {w} : UNCHANGED <<pc[u], todo[u], local[u], rcNum[u]>>
    BY <2>1, <2>2 DEF Record, Recording, TypeOK
  <2>4. QED BY <1>2, <2>3
<1>8. ASSUME NEW w \in Runs, ResolvePrs(w) PROVE MayRecord(v)'
  <2>1. \A f : AfterBackports(w, f) \in {"gate", "end"}
    BY DEF AfterBackports
  <2>2. pc'[w] \notin Recording /\ \A u \in Runs \ {w} : UNCHANGED <<pc[u], todo[u], local[u], rcNum[u]>>
    BY <1>8, <2>1 DEF ResolvePrs, Recording, TypeOK
  <2>3. QED BY <1>2, <2>2
<1>9. ASSUME NEW w \in Runs,
             \/ ReadBody(w) \/ WriteAdded(w) \/ Checkout(w) \/ Gate(w) \/ FetchBranch(w) \/ NextRc(w)
             \/ RecordRc(w) \/ FetchTags(w) \/ ReadFinal(w) \/ CompareBranch(w) \/ RecordFinal(w)
             \/ Crash(w)
      PROVE  MayRecord(v)'
  <2>1. pc'[w] \notin Recording /\ \A u \in Runs \ {w} : UNCHANGED <<pc[u], todo[u], local[u], rcNum[u]>>
    BY <1>9 DEF ReadBody, WriteAdded, Checkout, Gate, FetchBranch, NextRc, RecordRc, FetchTags,
                ReadFinal, CompareBranch, RecordFinal, Crash, Recording, TypeOK
  <2>2. QED BY <1>2, <2>1
<1>10. ASSUME NEW w \in Runs, NEW k \in Commands, NEW prs \in SUBSET PRs, Launch(w, k, prs)
       PROVE  MayRecord(v)'
  <2>1. pc'[w] \notin Recording /\ \A u \in Runs \ {w} : UNCHANGED <<pc[u], todo[u], local[u], rcNum[u]>>
    BY <1>10 DEF Launch, Recording, TypeOK
  <2>2. QED BY <1>2, <2>1
<1>11. ASSUME NEW p \in PRs,
              ChangePr(p, "merged") \/ ChangePr(p, "closed") \/ IgnoreBackport(p) \/ ResolveByHand(p)
       PROVE  MayRecord(v)'
  BY <1>2, <1>11 DEF ChangePr, IgnoreBackport, ResolveByHand
<1>12. CASE UNCHANGED vars
  BY <1>2, <1>12 DEF vars
<1>13. QED
  BY <1>3, <1>4, <1>5, <1>6, <1>7, <1>8, <1>9, <1>10, <1>11, <1>12 DEF Next, Environment, Step

-----------------------------------------------------------------------------
(* The checklist tells the truth *)

TruthfulNext(b) == TruthfulOf(b, remote', rcTags', finalTags')

LEMMA NextTruth ==
    TypeOK /\ TodoInv /\ TypeOK' /\ Grows /\ TruthInv /\ RecordInv /\ [Next]_vars => TruthInv'
<1>. SUFFICES ASSUME TypeOK, TodoInv, TypeOK', Grows, TruthInv, RecordInv, [Next]_vars
              PROVE  TruthInv'
  OBVIOUS
<1>. USE DEF Goto, At, sharedVars, runVars
<1>1. TruthfulNext(issue) /\ \A v \in Runs : TruthfulNext(body[v])
  BY TruthStays DEF TruthInv, TruthfulNext
<1>2. issue \in Bodies /\ \A v \in Runs : body[v] \in Bodies
  BY DEF TypeOK
<1>3. TruthfulNext(issue') /\ (\A v \in Runs : TruthfulNext(body'[v])) => TruthInv'
  BY DEF TruthInv, Truthful, TruthfulNext
\* Marking a line of a body whose truth is known.
<1>4. ASSUME NEW b \in Bodies, TruthfulNext(b)
      PROVE  /\ \A p \in PRs, s \in Statuses :
                  s # "done" \/ p \in PicksOf(remote') => TruthfulNext(SetBackport(b, p, s))
             /\ \A n \in RcNums, s \in {"todo", "done"} :
                  s # "done" \/ n < Len(rcTags') => TruthfulNext(SetRc(b, n, s))
             /\ \A s \in {"todo", "done", "error"} :
                  s # "done" \/ finalTags' # {} => TruthfulNext(SetFinal(b, s))
             /\ \A f \in [PRs -> Statuses] :
                  (\A p \in PRs : f[p] = "done" => b.backports[p] = "done")
                      => TruthfulNext([b EXCEPT !.backports = f])
  BY <1>4, MarkedTruth DEF TruthfulNext
<1>5. issue' \in {issue} \cup {body[v] : v \in Runs} /\ body' = body => TruthInv'
  BY <1>1, <1>3
<1>6. ASSUME NEW p \in PRs, ChangePr(p, "merged") \/ ChangePr(p, "closed") PROVE TruthInv'
  BY <1>5, <1>6 DEF ChangePr
<1>7. ASSUME NEW p \in PRs, IgnoreBackport(p) PROVE TruthInv'
  <2>1. issue' = SetBackport(issue, p, "ignore") /\ body' = body
    BY <1>7 DEF IgnoreBackport
  <2>2. TruthfulNext(issue')
    BY <2>1, <1>1, <1>2, <1>4 DEF Statuses
  <2>3. QED BY <1>1, <1>3, <2>1, <2>2
<1>8. ASSUME NEW p \in PRs, ResolveByHand(p) PROVE TruthInv'
  <2>. DEFINE c == [pr |-> p, by |-> Maintainer]
  <2>1. issue' = SetBackport(issue, p, "done") /\ body' = body
        /\ remote' = IF p \in PicksOf(remote) THEN remote ELSE Append(remote, c)
    BY <1>8 DEF ResolveByHand
  <2>2. p \in PicksOf(remote')
    <3>1. c \in Commits /\ c.pr = p
      BY DEF Commits
    <3>2. p \in PicksOf(Append(remote, c))
      BY <3>1, AppendPicks DEF TypeOK
    <3>3. QED BY <2>1, <3>2
  <2>3. TruthfulNext(issue')
    BY <2>1, <2>2, <1>1, <1>2, <1>4 DEF Statuses
  <2>4. QED BY <1>1, <1>3, <2>1, <2>3
<1>9. ASSUME NEW w \in Runs, ReadBody(w) PROVE TruthInv'
  <2>1. issue' = issue
    BY <1>9 DEF ReadBody
  <2>2. CASE body' = [body EXCEPT ![w] = issue]
    BY <2>1, <2>2, <1>1, <1>3 DEF TypeOK
  <2>3. CASE /\ body' = [body EXCEPT ![w] = WithBackports(issue, add[w], kind[w])]
             /\ NeedsRcTask(issue, kind[w]) => NextRcTask(issue) \in RcNums
    <3>. DEFINE f == [p \in PRs |-> IF p \in add[w] /\ issue.backports[p] = "absent"
                                    THEN "pending" ELSE issue.backports[p]]
                listed == [issue EXCEPT !.backports = f]
    <3>1. f \in [PRs -> Statuses] /\ \A p \in PRs : f[p] = "done" => issue.backports[p] = "done"
      BY <1>2 DEF Bodies, Statuses
    <3>2. listed \in Bodies /\ TruthfulNext(listed)
      BY <3>1, <1>1, <1>2, <1>4, MarkedBodies
    <3>. HIDE DEF listed
    <3>3. \A n \in RcNums : TruthfulNext(SetRc(listed, n, "todo"))
      BY <3>2, <1>4
    <3>4. WithBackports(issue, add[w], kind[w]) =
            IF NeedsRcTask(issue, kind[w]) THEN SetRc(listed, NextRcTask(issue), "todo") ELSE listed
      BY DEF WithBackports, listed
    <3>5. TruthfulNext(WithBackports(issue, add[w], kind[w]))
      BY <2>3, <3>2, <3>3, <3>4
    <3>6. QED BY <2>1, <2>3, <3>5, <1>1, <1>3 DEF TypeOK
  <2>4. QED BY <1>9, <2>2, <2>3 DEF ReadBody
<1>10. ASSUME NEW w \in Runs, ResolvePrs(w) PROVE TruthInv'
  <2>. DEFINE F(prs) == [p \in PRs |-> IF p \in prs THEN "error" ELSE body[w].backports[p]]
              Marked(prs) == [body[w] EXCEPT !.backports = F(prs)]
  <2>1. ASSUME NEW prs PROVE TruthfulNext(Marked(prs))
    <3>1. F(prs) \in [PRs -> Statuses]
          /\ \A p \in PRs : F(prs)[p] = "done" => body[w].backports[p] = "done"
      BY <1>2 DEF Bodies, Statuses
    <3>2. QED BY <3>1, <1>1, <1>2, <1>4
  <2>2. /\ \E bad : body' = [body EXCEPT ![w] = Marked(bad)]
        /\ \E written : issue' = issue \/ issue' = Marked(written)
    BY <1>10 DEF ResolvePrs
  <2>. HIDE DEF Marked
  <2>3. QED BY <2>1, <2>2, <1>1, <1>3 DEF TypeOK
<1>11. ASSUME NEW w \in Runs, WriteAdded(w) PROVE TruthInv'
  BY <1>5, <1>11 DEF WriteAdded
<1>12. ASSUME NEW w \in Runs,
              \/ Checkout(w) \/ CherryPick(w) \/ Push(w) \/ FetchBranch(w) \/ TagRc(w)
              \/ FetchTags(w) \/ TagFinal(w) \/ Crash(w)
       PROVE  TruthInv'
  <2>1. issue' = issue /\ body' = body
    BY <1>12 DEF Checkout, CherryPick, Push, FetchBranch, TagRc, FetchTags, TagFinal, Crash
  <2>2. QED BY <2>1, <1>5
<1>13. ASSUME NEW w \in Runs, RecordSuccess(w) \/ RecordFailure(w) PROVE TruthInv'
  <2>1. PICK status \in Statuses, anyFailed \in BOOLEAN :
            Record(w, status, anyFailed) /\ (status = "done" => pc[w] = "recordSuccess")
    BY <1>13 DEF RecordSuccess, RecordFailure, Statuses, TypeOK
  <2>2. NextPick(w) \in PRs
    BY <1>13, NextPickInTodo DEF RecordSuccess, RecordFailure, TypeOK, TodoInv, Picking
  <2>3. status = "done" => NextPick(w) \in PicksOf(remote')
    BY <2>1, GrowthKeeps DEF RecordInv, MayRecord
  <2>4. TruthfulNext(SetBackport(body[w], NextPick(w), status))
    BY <2>2, <2>3, <1>1, <1>2, <1>4
  <2>5. /\ body' = [body EXCEPT ![w] = SetBackport(body[w], NextPick(w), status)]
        /\ issue' = issue \/ issue' = SetBackport(body[w], NextPick(w), status)
    BY <2>1 DEF Record
  <2>6. QED BY <2>4, <2>5, <1>1, <1>3 DEF TypeOK
<1>14. ASSUME NEW w \in Runs, Gate(w) \/ ReadFinal(w) PROVE TruthInv'
  <2>1. issue' = issue /\ body' = [body EXCEPT ![w] = issue]
    BY <1>14 DEF Gate, ReadFinal
  <2>2. QED BY <2>1, <1>1, <1>3 DEF TypeOK
<1>15. ASSUME NEW w \in Runs, NextRc(w) PROVE TruthInv'
  <2>1. Len(rcTags) \in RcNums
    BY <1>15 DEF NextRc
  <2>2. TruthfulNext(SetRc(body[w], Len(rcTags), "todo"))
    BY <2>1, <1>1, <1>2, <1>4
  <2>3. \/ issue' = issue /\ body' = body
        \/ /\ issue' = SetRc(body[w], Len(rcTags), "todo")
           /\ body' = [body EXCEPT ![w] = SetRc(body[w], Len(rcTags), "todo")]
    BY <1>15 DEF NextRc
  <2>4. QED BY <2>2, <2>3, <1>1, <1>3 DEF TypeOK
<1>16. ASSUME NEW w \in Runs, RecordRc(w) PROVE TruthInv'
  <2>1. issue' = SetRc(body[w], rcNum[w], "done") /\ body' = body /\ pc[w] = "recordRc"
    BY <1>16 DEF RecordRc
  <2>2. rcNum[w] \in RcNums /\ rcNum[w] < Len(rcTags')
    <3>1. rcTags \in Seq(Tags) /\ rcTags' \in Seq(Tags) /\ rcNum[w] \in RcNums
      BY DEF TypeOK, Tags
    <3>2. rcNum[w] < Len(rcTags)
      BY <2>1 DEF RecordInv, MayRecord
    <3>3. QED BY <3>1, <3>2, GrowthKeeps DEF RcNums
  <2>3. TruthfulNext(SetRc(body[w], rcNum[w], "done"))
    BY <2>2, <1>1, <1>2, <1>4
  <2>4. QED BY <2>1, <2>3, <1>1, <1>3
<1>17. ASSUME NEW w \in Runs, CompareBranch(w) PROVE TruthInv'
  <2>1. body' = body /\ (issue' = issue \/ issue' = SetFinal(body[w], "error"))
    BY <1>17 DEF CompareBranch
  <2>2. TruthfulNext(SetFinal(body[w], "error"))
    BY <1>1, <1>2, <1>4
  <2>3. QED BY <2>1, <2>2, <1>1, <1>3
<1>18. ASSUME NEW w \in Runs, RecordFinal(w) PROVE TruthInv'
  <2>1. body' = body /\ issue' = SetFinal(body[w], "done") /\ pc[w] = "recordFinal"
    BY <1>18 DEF RecordFinal
  <2>2. finalTags' # {}
    BY <2>1, GrowthKeeps DEF RecordInv, MayRecord
  <2>3. TruthfulNext(SetFinal(body[w], "done"))
    BY <2>2, <1>1, <1>2, <1>4
  <2>4. QED BY <2>1, <2>3, <1>1, <1>3
<1>19. ASSUME NEW w \in Runs, NEW k \in Commands, NEW prs \in SUBSET PRs, Launch(w, k, prs)
       PROVE  TruthInv'
  BY <1>5, <1>19 DEF Launch
<1>20. CASE UNCHANGED vars
  BY <1>5, <1>20 DEF vars
<1>21. QED
  BY <1>6, <1>7, <1>8, <1>9, <1>10, <1>11, <1>12, <1>13, <1>14, <1>15, <1>16, <1>17, <1>18,
     <1>19, <1>20 DEF Next, Environment, Step

-----------------------------------------------------------------------------
(* What the tags point to *)

TagInv == FinalWasCandidate /\ RcContainsBackports /\ TargetInv

\* What a run knows of the commit it is about to tag.
RcReady(w) ==
    pc[w] \in {"nextRc", "tagRc"} =>
        \A p \in PRs : body[w].backports[p] = "done" => p \in PicksOf(target[w])
FinalReady(w) ==
    FirstRelease /\ pc[w] \in {"readFinal", "compare", "tagFinal"} =>
        \E i \in DOMAIN rcTags : rcTags[i].commit = target[w]

LEMMA TagsStay == TypeOK /\ TypeOK' /\ Grows =>
    \A c : (\E i \in DOMAIN rcTags : rcTags[i].commit = c)
              => \E i \in DOMAIN rcTags' : rcTags'[i].commit = c
  BY GrowthKeeps

\* An RC tag is placed on the branch its run fetched after it had read the
\* checklist.
LEMMA NextRcContains ==
    TypeOK /\ TypeOK' /\ RcContainsBackports /\ TargetInv /\ [Next]_vars => RcContainsBackports'
<1>. SUFFICES ASSUME TypeOK, TypeOK', RcContainsBackports, TargetInv, [Next]_vars
              PROVE  RcContainsBackports'
  OBVIOUS
<1>1. rcTags' = rcTags => RcContainsBackports'
  BY DEF RcContainsBackports
<1>2. ASSUME NEW w \in Runs, TagRc(w) PROVE RcContainsBackports'
  <2>. DEFINE tag == [commit |-> target[w], gated |-> Backports(body[w], {"done"})]
  <2>1. CASE rcTags' = Append(rcTags, tag) /\ pc[w] = "tagRc"
    <3>1. tag \in Tags /\ rcTags \in Seq(Tags)
      BY DEF TypeOK, Tags, Backports
    <3>2. tag.gated \subseteq PicksOf(tag.commit)
      BY <2>1 DEF TargetInv, Backports
    <3>. HIDE DEF tag
    <3>3. \A i \in DOMAIN rcTags' :
            (i \in DOMAIN rcTags /\ rcTags'[i] = rcTags[i]) \/ rcTags'[i] = tag
      BY <2>1, <3>1
    <3>4. QED BY <3>2, <3>3 DEF RcContainsBackports
  <2>2. QED BY <1>1, <1>2, <2>1 DEF TagRc, At
<1>3. ASSUME NEW w \in Runs, Step(w) \/ Crash(w) PROVE rcTags' = rcTags \/ TagRc(w)
  BY <1>3 DEF Step, Crash, ReadBody, WriteAdded, ResolvePrs, Checkout, CherryPick, Push,
              RecordSuccess, RecordFailure, Record, Gate, FetchBranch, NextRc, RecordRc,
              FetchTags, ReadFinal, CompareBranch, TagFinal, RecordFinal, sharedVars
<1>4. Environment => rcTags' = rcTags
  BY DEF Environment, ChangePr, IgnoreBackport, ResolveByHand, Launch, sharedVars
<1>5. CASE UNCHANGED vars
  BY <1>1, <1>5 DEF vars, sharedVars
<1>6. QED BY <1>1, <1>2, <1>3, <1>4, <1>5 DEF Next

\* Promoting tags the commit of an RC, which stays one.
LEMMA NextFinalWas ==
    TypeOK /\ TypeOK' /\ Grows /\ FinalWasCandidate /\ TargetInv /\ [Next]_vars
        => FinalWasCandidate'
<1>. SUFFICES ASSUME TypeOK, TypeOK', Grows, FinalWasCandidate, TargetInv, [Next]_vars,
                     FirstRelease, NEW c \in finalTags'
              PROVE  \E i \in DOMAIN rcTags' : rcTags'[i].commit = c
  BY DEF FinalWasCandidate
<1>1. c \in finalTags => \E i \in DOMAIN rcTags' : rcTags'[i].commit = c
  BY TagsStay DEF FinalWasCandidate
<1>2. ASSUME NEW w \in Runs, TagFinal(w) PROVE \E i \in DOMAIN rcTags' : rcTags'[i].commit = c
  <2>1. c \in finalTags \/ c = target[w]
    BY <1>2 DEF TagFinal
  <2>2. \E i \in DOMAIN rcTags : rcTags[i].commit = target[w]
    BY <1>2 DEF TargetInv, TagFinal, At
  <2>3. QED BY <1>1, <2>1, <2>2, TagsStay
<1>3. ASSUME NEW w \in Runs, Step(w) \/ Crash(w) PROVE finalTags' = finalTags \/ TagFinal(w)
  BY <1>3 DEF Step, Crash, ReadBody, WriteAdded, ResolvePrs, Checkout, CherryPick, Push,
              RecordSuccess, RecordFailure, Record, Gate, FetchBranch, NextRc, TagRc, RecordRc,
              FetchTags, ReadFinal, CompareBranch, RecordFinal, sharedVars
<1>4. Environment => finalTags' = finalTags
  BY DEF Environment, ChangePr, IgnoreBackport, ResolveByHand, Launch, sharedVars
<1>5. UNCHANGED vars => finalTags' = finalTags
  BY DEF vars, sharedVars
<1>6. QED BY <1>1, <1>2, <1>3, <1>4, <1>5 DEF Next

\* What a run knows of its target is not disturbed by the others, nor by a
\* step that keeps the copy of the body and the target.
LEMMA ReadyStays ==
    ASSUME TypeOK, TypeOK', Grows, NEW w \in Runs, RcReady(w), FinalReady(w),
           target'[w] = target[w], body'[w] = body[w], pc'[w] = pc[w]
    PROVE  RcReady(w)' /\ FinalReady(w)'
  BY TagsStay DEF RcReady, FinalReady

Targeting == {"nextRc", "tagRc", "readFinal", "compare", "tagFinal"}

LEMMA NextTarget ==
    TypeOK /\ TypeOK' /\ Grows /\ TruthInv /\ TargetInv /\ [Next]_vars => TargetInv'
<1>. SUFFICES ASSUME TypeOK, TypeOK', Grows, TruthInv, TargetInv, [Next]_vars, NEW v \in Runs
              PROVE  RcReady(v)' /\ FinalReady(v)'
  BY DEF TargetInv, RcReady, FinalReady
<1>. USE DEF Goto, At, sharedVars, runVars
<1>1. RcReady(v) /\ FinalReady(v)
  BY DEF TargetInv, RcReady, FinalReady
<1>2. \/ UNCHANGED <<pc[v], body[v], target[v]>>
      \/ pc'[v] \notin Targeting
      => RcReady(v)' /\ FinalReady(v)'
  BY <1>1, ReadyStays DEF RcReady, FinalReady, Targeting
<1>3. ASSUME NEW w \in Runs, FetchBranch(w) PROVE RcReady(v)' /\ FinalReady(v)'
  <2>1. CASE v # w
    BY <1>2, <1>3, <2>1 DEF FetchBranch, TypeOK
  <2>2. CASE v = w
    BY <1>3, <2>2 DEF FetchBranch, TypeOK, TruthInv, Truthful, TruthfulOf, RcReady, FinalReady
  <2>3. QED BY <2>1, <2>2
<1>4. ASSUME NEW w \in Runs, NextRc(w) PROVE RcReady(v)' /\ FinalReady(v)'
  <2>1. CASE v # w
    BY <1>2, <1>4, <2>1 DEF NextRc, TypeOK
  <2>2. CASE v = w
    <3>1. body'[w].backports = body[w].backports
      BY <1>4 DEF NextRc, TypeOK, Bodies, SetRc
    <3>2. pc'[w] \in {"end", "tagRc"} /\ target' = target /\ pc[w] = "nextRc"
      BY <1>4 DEF NextRc, TypeOK
    <3>3. QED BY <1>1, <2>2, <3>1, <3>2 DEF RcReady, FinalReady
  <2>3. QED BY <2>1, <2>2
<1>5. ASSUME NEW w \in Runs, FetchTags(w) PROVE RcReady(v)' /\ FinalReady(v)'
  <2>1. CASE v # w
    BY <1>2, <1>5, <2>1 DEF FetchTags, TypeOK
  <2>2. CASE v = w /\ pc'[w] = "readFinal"
    <3>1. rcTags' = rcTags /\ (FirstRelease => rcTags # <<>> /\ target'[w] = Last(rcTags).commit)
      BY <1>5, <2>2 DEF FetchTags, TypeOK
    <3>2. rcTags # <<>> => Len(rcTags) \in DOMAIN rcTags /\ Last(rcTags) = rcTags[Len(rcTags)]
      <4>1. rcTags \in Seq(Tags)
        BY DEF TypeOK, Tags
      <4>2. QED BY <4>1 DEF Last
    <3>3. QED BY <2>2, <3>1, <3>2 DEF RcReady, FinalReady
  <2>3. CASE v = w /\ pc'[w] # "readFinal"
    BY <1>2, <1>5, <2>3 DEF FetchTags, TypeOK, Targeting
  <2>4. QED BY <2>1, <2>2, <2>3
<1>6. ASSUME NEW w \in Runs, ReadFinal(w) \/ CompareBranch(w) PROVE RcReady(v)' /\ FinalReady(v)'
  <2>1. CASE v # w
    BY <1>2, <1>6, <2>1 DEF ReadFinal, CompareBranch, TypeOK
  <2>2. CASE v = w
    <3>1. /\ pc[w] \in {"readFinal", "compare"} /\ pc'[w] \in {"compare", "tagFinal", "end"}
          /\ rcTags' = rcTags /\ (FirstRelease => target'[w] = target[w])
      BY <1>6 DEF ReadFinal, CompareBranch, TypeOK
    <3>2. QED BY <1>1, <2>2, <3>1 DEF RcReady, FinalReady
  <2>3. QED BY <2>1, <2>2
<1>7. ASSUME NEW w \in Runs,
             \/ ReadBody(w) \/ WriteAdded(w) \/ Checkout(w) \/ CherryPick(w) \/ Push(w)
             \/ Gate(w) \/ TagRc(w) \/ RecordRc(w) \/ TagFinal(w) \/ RecordFinal(w) \/ Crash(w)
      PROVE  RcReady(v)' /\ FinalReady(v)'
  <2>1. pc'[w] \notin Targeting /\ \A u \in Runs \ {w} : UNCHANGED <<pc[u], body[u], target[u]>>
    BY <1>7 DEF ReadBody, WriteAdded, Checkout, CherryPick, Push, Gate, TagRc, RecordRc, TagFinal,
                RecordFinal, Crash, Targeting, TypeOK
  <2>2. QED BY <1>2, <2>1
<1>8. ASSUME NEW w \in Runs, ResolvePrs(w) \/ RecordSuccess(w) \/ RecordFailure(w)
      PROVE  RcReady(v)' /\ FinalReady(v)'
  <2>1. \A f : AfterBackports(w, f) \in {"gate", "end"}
    BY DEF AfterBackports
  <2>2. target' = target /\ pc'[w] \notin Targeting /\ \A u \in Runs \ {w} : pc'[u] = pc[u]
    <3>1. CASE ResolvePrs(w)
      BY <3>1, <2>1 DEF ResolvePrs, Targeting, TypeOK
    <3>2. CASE RecordSuccess(w) \/ RecordFailure(w)
      <4>1. PICK status, anyFailed : Record(w, status, anyFailed)
        BY <3>2 DEF RecordSuccess, RecordFailure
      <4>2. QED BY <4>1, <2>1 DEF Record, Targeting, TypeOK
    <3>3. QED BY <1>8, <3>1, <3>2
  <2>3. \E b : body' = [body EXCEPT ![w] = b]
    BY <1>8 DEF ResolvePrs, RecordSuccess, RecordFailure, Record
  <2>4. \A u \in Runs \ {w} : body'[u] = body[u]
    BY <2>3 DEF TypeOK
  <2>5. QED BY <1>2, <2>2, <2>4
<1>9. ASSUME NEW w \in Runs, NEW k \in Commands, NEW prs \in SUBSET PRs, Launch(w, k, prs)
      PROVE  RcReady(v)' /\ FinalReady(v)'
  <2>1. CASE v # w
    BY <1>2, <1>9, <2>1 DEF Launch, TypeOK
  <2>2. CASE v = w
    BY <1>2, <1>9, <2>2 DEF Launch, TypeOK, Targeting
  <2>3. QED BY <2>1, <2>2
<1>10. ASSUME NEW p \in PRs,
              ChangePr(p, "merged") \/ ChangePr(p, "closed") \/ IgnoreBackport(p) \/ ResolveByHand(p)
       PROVE  RcReady(v)' /\ FinalReady(v)'
  BY <1>2, <1>10 DEF ChangePr, IgnoreBackport, ResolveByHand
<1>11. CASE UNCHANGED vars
  BY <1>2, <1>11 DEF vars
<1>12. QED
  BY <1>3, <1>4, <1>5, <1>6, <1>7, <1>8, <1>9, <1>10, <1>11 DEF Next, Environment, Step

-----------------------------------------------------------------------------
(* Runs that do not overlap, while no command fails *)

\* What is on the branch is marked in b; not yet what the run is about to record.
Recorded(b, w) ==
    \A p \in PicksOf(remote) :
        b.backports[p] = "done" \/ (pc[w] = "recordSuccess" /\ p = NextPick(w))

\* A failed pick, without failing commands: the pull request was closed.
ErrorsAreClosed(b) == \A p \in PRs : b.backports[p] = "error" => prState[p] = "closed"

\* The places where a run is going to write its copy of the body.
Writing == Picking \cup {"writeAdded", "resolve", "fetch", "nextRc", "tagRc", "recordRc",
                         "compare", "tagFinal", "recordFinal"}

\* What a run that runs alone knows of the branch and of the checklist.
AloneAt(w) ==
    /\ pc[w] \in {"checkout", "pick", "push"} => todo[w] \cap PicksOf(remote) = {}
    /\ pc[w] \in {"pick", "recordSuccess"} => local[w] = remote
    /\ pc[w] = "push" => local[w] = Append(remote, [pr |-> NextPick(w), by |-> w])
    /\ pc[w] = "recordSuccess" => (todo[w] \ {NextPick(w)}) \cap PicksOf(remote) = {}
    /\ pc[w] # "recordFailure"
    /\ Active(w) => Recorded(issue, w)
    /\ pc[w] \in Writing => Recorded(body[w], w)

NoRepeat(branch) == \A i, j \in DOMAIN branch : branch[i].pr = branch[j].pr => i = j
BetweenRuns == (\A w \in Runs : ~Active(w)) => \A p \in PicksOf(remote) : issue.backports[p] = "done"

Calm == ~overlapped /\ faults = 0
CalmInv ==
    /\ \A v, w \in Runs : Active(v) /\ Active(w) => v = w
    /\ NoRepeat(remote)
    /\ BetweenRuns
    /\ ErrorsAreClosed(issue) /\ \A w \in Runs : ErrorsAreClosed(body[w])
    /\ \A w \in Runs : AloneAt(w)
OnceInv == Calm => CalmInv

LEMMA PicksArePRs == ASSUME NEW branch \in Branches PROVE PicksOf(branch) \subseteq PRs
<1>1. \A i \in DOMAIN branch : branch[i] \in Commits
  BY DEF Branches
<1>2. QED BY <1>1 DEF PicksOf, Commits

LEMMA NextPicked == ASSUME NEW w \in Runs, TypeOK, TodoInv, pc[w] \in Picking
                    PROVE  NextPick(w) \in todo[w] /\ NextPick(w) \in PRs
  BY NextPickInTodo DEF TypeOK, TodoInv

\* A branch without repetitions that gets a pull request it has not.
LEMMA AppendNoRepeat ==
    ASSUME NEW s \in Branches, NEW c \in Commits, NoRepeat(s), c.pr \notin PicksOf(s)
    PROVE  NoRepeat(Append(s, c))
<1>1. /\ DOMAIN Append(s, c) = DOMAIN s \cup {Len(s) + 1}
      /\ Append(s, c)[Len(s) + 1] = c
      /\ \A i \in DOMAIN s : Append(s, c)[i] = s[i]
  BY DEF Branches
<1>2. QED BY <1>1 DEF PicksOf, NoRepeat

\* Marking a line touches no other line, and no mark of another kind does.
LEMMA MarkedLines ==
    ASSUME NEW b \in Bodies
    PROVE  /\ \A p, q \in PRs : \A s : SetBackport(b, p, s).backports[q] =
                                       IF q = p THEN s ELSE b.backports[q]
           /\ \A n, s : SetRc(b, n, s).backports = b.backports
           /\ \A s : SetFinal(b, s).backports = b.backports
  BY DEF Bodies, SetBackport, SetRc, SetFinal

\* Only a fault makes the counter of faults grow, and nobody forgets an overlap.
LEMMA CalmBefore ==
    TypeOK /\ [Next]_vars /\ Calm' => Calm /\ ~Fault
<1>. SUFFICES ASSUME TypeOK, [Next]_vars, Calm' PROVE Calm /\ ~Fault
  OBVIOUS
<1>1. faults \in Nat /\ faults' = 0
  BY BoundsAssumption DEF TypeOK, Calm
<1>2. ~Fault
  BY <1>1 DEF Fault
<1>3. faults' = faults \/ Fault
  <2>. USE DEF NoFault, sharedVars, runVars
  <2>1. Environment => faults' = faults
    BY DEF Environment, ChangePr, IgnoreBackport, ResolveByHand, Launch
  <2>2. ASSUME NEW w \in Runs, Step(w) \/ Crash(w) PROVE faults' = faults \/ Fault
    BY <2>2 DEF Step, Crash, ReadBody, WriteAdded, ResolvePrs, Checkout, CherryPick, Push,
                RecordSuccess, RecordFailure, Record, Gate, FetchBranch, NextRc, TagRc, RecordRc,
                FetchTags, ReadFinal, CompareBranch, TagFinal, RecordFinal
  <2>3. QED BY <2>1, <2>2 DEF Next, vars
<1>4. overlapped => overlapped'
  <2>. USE DEF sharedVars, runVars
  <2>1. Environment => (overlapped => overlapped')
    BY DEF Environment, ChangePr, IgnoreBackport, ResolveByHand, Launch
  <2>2. ASSUME NEW w \in Runs, Step(w) \/ Crash(w) PROVE overlapped' = overlapped
    BY <2>2 DEF Step, Crash, ReadBody, WriteAdded, ResolvePrs, Checkout, CherryPick, Push,
                RecordSuccess, RecordFailure, Record, Gate, FetchBranch, NextRc, TagRc, RecordRc,
                FetchTags, ReadFinal, CompareBranch, TagFinal, RecordFinal
  <2>3. QED BY <2>1, <2>2 DEF Next, vars
<1>5. QED BY <1>1, <1>2, <1>3, <1>4 DEF Calm

\* The only run that is active takes a step.
LEMMA AloneSteps ==
    ASSUME CalmInv, NEW w \in Runs, Active(w), \A v \in Runs \ {w} : pc'[v] = pc[v],
           NoRepeat(remote'), ErrorsAreClosed(issue)', \A v \in Runs : ErrorsAreClosed(body[v])',
           AloneAt(w)', Recorded(issue, w)'
    PROVE  CalmInv'
<1>1. \A v \in Runs \ {w} : pc'[v] \in {"off", "end"}
  BY DEF CalmInv, Active
<1>2. \A v \in Runs \ {w} : AloneAt(v)'
  BY <1>1 DEF AloneAt, Active, Writing, Picking
<1>3. BetweenRuns'
  BY DEF BetweenRuns, Recorded, Active
<1>4. QED BY <1>1, <1>2, <1>3 DEF CalmInv, Active, NoRepeat

LEMMA RecordCalm ==
    ASSUME TypeOK, TodoInv, CalmInv, NEW w \in Runs, ~Fault, pc[w] = "recordSuccess",
           Record(w, "done", failed[w])
    PROVE  CalmInv'
<1>. DEFINE p == NextPick(w)
            marked == SetBackport(body[w], p, "done")
<1>1. p \in todo[w] /\ p \in PRs /\ body[w] \in Bodies
  BY NextPicked DEF TypeOK, Picking
<1>2. AloneAt(w) /\ Active(w)
  BY DEF CalmInv, Active
<1>3. /\ issue' = marked /\ body' = [body EXCEPT ![w] = marked]
      /\ todo' = [todo EXCEPT ![w] = todo[w] \ {p}]
      /\ UNCHANGED <<remote, local, prState>>
      /\ pc' = [pc EXCEPT ![w] = IF todo[w] \ {p} = {} THEN AfterBackports(w, failed[w]) ELSE "pick"]
  BY DEF Record, Goto
<1>4. AfterBackports(w, failed[w]) \in {"gate", "end"}
  BY DEF AfterBackports
<1>5. pc'[w] \in {"gate", "end", "pick"} /\ \A v \in Runs \ {w} : pc'[v] = pc[v]
  BY <1>3, <1>4 DEF TypeOK
<1>6. \A q \in PRs : marked.backports[q] = IF q = p THEN "done" ELSE body[w].backports[q]
  BY <1>1, MarkedLines
<1>7. body'[w] = marked /\ \A v \in Runs \ {w} : body'[v] = body[v]
  BY <1>3 DEF TypeOK
<1>8. ErrorsAreClosed(issue)' /\ \A v \in Runs : ErrorsAreClosed(body[v])'
  BY <1>3, <1>6, <1>7 DEF CalmInv, ErrorsAreClosed
<1>9. PicksOf(remote) \subseteq PRs
  BY PicksArePRs DEF TypeOK
<1>10. \A q \in PicksOf(remote) : marked.backports[q] = "done"
  BY <1>2, <1>6, <1>9 DEF AloneAt, Recorded, Writing, Picking
<1>11. todo'[w] \cap PicksOf(remote) = {} /\ local[w] = remote
  BY <1>2, <1>3 DEF AloneAt, TypeOK
<1>. HIDE DEF marked, p
<1>12. Recorded(issue, w)' /\ Recorded(body[w], w)'
  BY <1>3, <1>7, <1>10 DEF Recorded
<1>13. AloneAt(w)'
  BY <1>3, <1>5, <1>11, <1>12 DEF AloneAt
<1>14. NoRepeat(remote')
  BY <1>3 DEF CalmInv
<1>15. QED BY <1>2, <1>5, <1>8, <1>12, <1>13, <1>14, AloneSteps

\* What is marked as an error was closed before the run looked.
LEMMA ResolveCalm ==
    ASSUME TypeOK, CalmInv, NEW w \in Runs, ~Fault, ResolvePrs(w)
    PROVE  CalmInv'
<1>. DEFINE pending == Backports(body[w], {"pending", "ignore"})
            bad == {p \in pending : prState[p] = "closed"}
            picks == {p \in pending \ bad : prState[p] = "merged"}
            f == [p \in PRs |-> IF p \in bad THEN "error" ELSE body[w].backports[p]]
            marked == [body[w] EXCEPT !.backports = f]
<1>1. body[w] \in Bodies
  BY DEF TypeOK
<1>2. PICK unresolved \in {{}} \cup {{p} : p \in PRs} :
        LET b == {p \in pending : prState[p] = "closed"} \cup (pending \cap unresolved)
            ps == {p \in pending \ b : prState[p] = "merged"}
            M(prs) == [body[w] EXCEPT !.backports = [p \in PRs |->
                        IF p \in prs THEN "error" ELSE body[w].backports[p]]]
        IN  /\ \E written \in SUBSET b :
                /\ issue' = IF written = {} THEN issue ELSE M(written)
                /\ IF unresolved = {} /\ written = b THEN NoFault ELSE Fault
            /\ body' = [body EXCEPT ![w] = M(b)]
            /\ todo' = [todo EXCEPT ![w] = ps]
            /\ Goto(w, IF ps = {} THEN AfterBackports(w, b # {}) ELSE "checkout")
  BY DEF ResolvePrs
<1>3. unresolved = {}
  BY <1>2
<1>4. bad = {p \in pending : prState[p] = "closed"} \cup (pending \cap unresolved)
  BY <1>3
<1>5. /\ issue' = IF bad = {} THEN issue ELSE marked
      /\ body' = [body EXCEPT ![w] = marked] /\ todo' = [todo EXCEPT ![w] = picks]
      /\ pc' = [pc EXCEPT ![w] = IF picks = {} THEN AfterBackports(w, bad # {}) ELSE "checkout"]
      /\ UNCHANGED <<prState, remote, local>> /\ pc[w] = "resolve"
  <2>. HIDE DEF pending, bad
  <2>1. QED BY <1>2, <1>4 DEF ResolvePrs, Goto, At
<1>6. marked.backports = f
  BY <1>1 DEF Bodies
<1>7. /\ \A p \in picks : p \in PRs /\ body[w].backports[p] \in {"pending", "ignore"}
      /\ \A p \in bad : p \in PRs /\ prState[p] = "closed"
                        /\ body[w].backports[p] \in {"pending", "ignore"}
  BY DEF Backports
<1>8. PicksOf(remote) \subseteq PRs
  BY PicksArePRs DEF TypeOK
<1>9. AloneAt(w) /\ Active(w)
  BY <1>5 DEF CalmInv, Active
<1>10. \A p \in PicksOf(remote) : /\ body[w].backports[p] = "done" /\ marked.backports[p] = "done"
                                  /\ issue.backports[p] = "done"
  <2>1. \A p \in PicksOf(remote) : body[w].backports[p] = "done" /\ issue.backports[p] = "done"
    BY <1>5, <1>9 DEF AloneAt, Recorded, Writing
  <2>2. QED BY <2>1, <1>6, <1>7, <1>8
<1>11. picks \cap PicksOf(remote) = {}
  BY <1>7, <1>10
<1>12. \A p \in PRs : marked.backports[p] = "error" =>
            p \in bad \/ body[w].backports[p] = "error"
  BY <1>6
<1>13. ErrorsAreClosed(marked) /\ ErrorsAreClosed(issue)
  BY <1>7, <1>12 DEF CalmInv, ErrorsAreClosed
<1>. HIDE DEF marked, picks, bad, pending
<1>14. AfterBackports(w, bad # {}) \in {"gate", "end"}
  BY DEF AfterBackports
<1>15. /\ pc'[w] \in {"gate", "end", "checkout"} /\ \A v \in Runs \ {w} : pc'[v] = pc[v]
       /\ todo'[w] = picks /\ body'[w] = marked /\ \A v \in Runs \ {w} : body'[v] = body[v]
  BY <1>5, <1>14 DEF TypeOK
<1>16. ErrorsAreClosed(issue)' /\ \A v \in Runs : ErrorsAreClosed(body[v])'
  BY <1>5, <1>13, <1>15 DEF CalmInv, ErrorsAreClosed
<1>17. Recorded(issue, w)' /\ Recorded(body[w], w)'
  BY <1>5, <1>10, <1>15 DEF Recorded
<1>18. AloneAt(w)'
  BY <1>5, <1>11, <1>15, <1>17 DEF AloneAt
<1>19. NoRepeat(remote')
  BY <1>5 DEF CalmInv
<1>20. QED BY <1>9, <1>15, <1>16, <1>17, <1>18, <1>19, AloneSteps

\* The run's own push is a fast-forward and adds what was not there.
LEMMA PushCalm ==
    ASSUME TypeOK, TodoInv, CalmInv, NEW w \in Runs, ~Fault, Push(w)
    PROVE  CalmInv'
<1>. DEFINE c == [pr |-> NextPick(w), by |-> w]
<1>1. pc[w] = "push" /\ AloneAt(w) /\ Active(w)
  BY DEF Push, At, CalmInv, Active
<1>2. NextPick(w) \in todo[w] /\ c \in Commits /\ c.pr = NextPick(w)
  BY <1>1, NextPicked DEF Picking, Commits
<1>3. IsPrefix(remote, local[w])
  <2>1. local[w] = Append(remote, c) /\ remote \in Seq(Commits)
    BY <1>1 DEF AloneAt, TypeOK, Branches
  <2>. HIDE DEF c
  <2>2. QED BY <1>2, <2>1, AppendExtends
<1>4. /\ remote' = Append(remote, c) /\ local[w] = Append(remote, c)
      /\ pc' = [pc EXCEPT ![w] = "recordSuccess"]
      /\ UNCHANGED <<issue, prState, body, todo, local>>
  BY <1>1, <1>3 DEF Push, Goto, AloneAt, runVars
<1>5. /\ PicksOf(remote') = PicksOf(remote) \cup {NextPick(w)}
      /\ c.pr \notin PicksOf(remote) /\ todo[w] \cap PicksOf(remote) = {}
  BY <1>1, <1>2, <1>4, AppendPicks DEF TypeOK, AloneAt
<1>6. NoRepeat(remote')
  BY <1>2, <1>4, <1>5, AppendNoRepeat DEF TypeOK, CalmInv
<1>7. NextPick(w)' = NextPick(w)
  BY <1>4 DEF NextPick
<1>8. pc'[w] = "recordSuccess" /\ \A v \in Runs \ {w} : pc'[v] = pc[v]
  BY <1>4 DEF TypeOK
<1>9. Recorded(issue, w)' /\ Recorded(body[w], w)'
  <2>1. Recorded(issue, w) /\ Recorded(body[w], w)
    BY <1>1 DEF AloneAt, Writing, Picking
  <2>2. QED BY <2>1, <1>1, <1>4, <1>5, <1>7, <1>8 DEF Recorded
<1>10. AloneAt(w)'
  <2>1. (todo'[w] \ {NextPick(w)'}) \cap PicksOf(remote') = {}
    BY <1>4, <1>5, <1>7
  <2>2. local'[w] = remote'
    BY <1>4
  <2>3. QED BY <2>1, <2>2, <1>8, <1>9 DEF AloneAt
<1>11. ErrorsAreClosed(issue)' /\ \A v \in Runs : ErrorsAreClosed(body[v])'
  BY <1>4 DEF CalmInv, ErrorsAreClosed
<1>12. QED BY <1>1, <1>6, <1>8, <1>9, <1>10, <1>11, AloneSteps

\* A pick that fails without a fault is of a pull request that is there already.
LEMMA CherryPickCalm ==
    ASSUME TypeOK, TodoInv, CalmInv, NEW w \in Runs, ~Fault, CherryPick(w)
    PROVE  CalmInv'
<1>1. pc[w] = "pick" /\ AloneAt(w) /\ Active(w)
  BY DEF CherryPick, At, CalmInv, Active
<1>2. NextPick(w) \in todo[w] /\ NextPick(w) \notin PicksOf(local[w]) /\ local[w] = remote
  BY <1>1, NextPicked DEF Picking, AloneAt
<1>3. /\ local' = [local EXCEPT ![w] = Append(remote, [pr |-> NextPick(w), by |-> w])]
      /\ pc' = [pc EXCEPT ![w] = "push"]
      /\ UNCHANGED <<issue, prState, remote, body, todo>>
  BY <1>2 DEF CherryPick, Goto, sharedVars
<1>4. NextPick(w)' = NextPick(w)
  BY <1>3 DEF NextPick
<1>5. pc'[w] = "push" /\ local'[w] = Append(remote, [pr |-> NextPick(w), by |-> w])
      /\ \A v \in Runs \ {w} : pc'[v] = pc[v]
  BY <1>3 DEF TypeOK
<1>6. Recorded(issue, w)' /\ Recorded(body[w], w)'
  BY <1>1, <1>3, <1>5 DEF AloneAt, Writing, Picking, Recorded
<1>7. AloneAt(w)'
  BY <1>1, <1>3, <1>4, <1>5, <1>6 DEF AloneAt
<1>8. ErrorsAreClosed(issue)' /\ \A v \in Runs : ErrorsAreClosed(body[v])' /\ NoRepeat(remote')
  BY <1>3 DEF CalmInv, ErrorsAreClosed
<1>9. QED BY <1>1, <1>5, <1>6, <1>7, <1>8, AloneSteps

\* The other steps neither pick nor push: what they write to the issue, and what
\* they read from it, has the same backports marked as done or as an error.
SameMarks(b, c) ==
    \A p \in PRs : \A s \in {"done", "error"} : b.backports[p] = s <=> c.backports[p] = s

LEMMA QuietCalm ==
    ASSUME TypeOK, CalmInv, NEW w \in Runs, Active(w), pc[w] # "recordSuccess",
           \A v \in Runs \ {w} : pc'[v] = pc[v] /\ body'[v] = body[v],
           pc'[w] \notin Picking \ {"pick"}, UNCHANGED <<prState, remote, todo>>,
           pc'[w] = "pick" => pc[w] = "checkout" /\ local'[w] = remote,
           \/ SameMarks(issue', issue)
           \/ pc[w] \in Writing /\ SameMarks(issue', body[w]),
           \/ SameMarks(body'[w], issue)
           \/ SameMarks(body'[w], body[w]) /\ (pc'[w] \in Writing => pc[w] \in Writing)
    PROVE  CalmInv'
<1>1. PicksOf(remote) \subseteq PRs
  BY PicksArePRs DEF TypeOK
<1>2. AloneAt(w) /\ ErrorsAreClosed(issue) /\ ErrorsAreClosed(body[w])
  BY DEF CalmInv
<1>3. /\ \A p \in PicksOf(remote) : issue.backports[p] = "done"
      /\ pc[w] \in Writing => \A p \in PicksOf(remote) : body[w].backports[p] = "done"
  BY <1>2 DEF AloneAt, Recorded
<1>4. \A p \in PicksOf(remote) : issue'.backports[p] = "done"
  BY <1>1, <1>3 DEF SameMarks
<1>5. pc'[w] \in Writing => \A p \in PicksOf(remote) : body'[w].backports[p] = "done"
  BY <1>1, <1>3 DEF SameMarks
<1>6. ErrorsAreClosed(issue)' /\ ErrorsAreClosed(body[w])'
  BY <1>2 DEF SameMarks, ErrorsAreClosed
<1>7. \A v \in Runs : ErrorsAreClosed(body[v])'
  BY <1>6 DEF CalmInv, ErrorsAreClosed
<1>8. Recorded(issue, w)' /\ (pc'[w] \in Writing => Recorded(body[w], w)')
  BY <1>4, <1>5 DEF Recorded
<1>9. AloneAt(w)'
  BY <1>2, <1>8 DEF AloneAt, Picking
<1>10. NoRepeat(remote')
  BY DEF CalmInv
<1>11. \A v \in Runs \ {w} : pc'[v] = pc[v]
  OBVIOUS
<1>12. QED BY <1>6, <1>7, <1>8, <1>9, <1>10, <1>11, AloneSteps

LEMMA StepCalm ==
    ASSUME TypeOK, TodoInv, CalmInv, NEW w \in Runs, Step(w), ~Fault
    PROVE  CalmInv'
<1>. USE DEF Goto, At, Active, sharedVars, runVars
<1>1. issue \in Bodies /\ body[w] \in Bodies /\ \A b : SameMarks(b, b)
  BY DEF TypeOK, SameMarks
<1>2. ASSUME NEW b \in Bodies
      PROVE  /\ \A n, s : SameMarks(SetRc(b, n, s), b)
             /\ \A s : SameMarks(SetFinal(b, s), b)
  BY MarkedLines DEF SameMarks
<1>3. \A v \in Runs \ {w} : body'[v] = body[v]
  BY DEF Step, TypeOK, ReadBody, WriteAdded, ResolvePrs, Checkout, CherryPick, Push,
         RecordSuccess, RecordFailure, Record, Gate, FetchBranch, NextRc, TagRc, RecordRc,
         FetchTags, ReadFinal, CompareBranch, TagFinal, RecordFinal
<1>4. CASE ReadBody(w)
  <2>1. SameMarks(body'[w], issue)
    <3>1. CASE body' = [body EXCEPT ![w] = issue]
      BY <3>1, <1>1 DEF TypeOK
    <3>2. CASE body' = [body EXCEPT ![w] = WithBackports(issue, add[w], kind[w])]
      <4>. DEFINE f == [p \in PRs |-> IF p \in add[w] /\ issue.backports[p] = "absent"
                                      THEN "pending" ELSE issue.backports[p]]
                  listed == [issue EXCEPT !.backports = f]
      <4>1. f \in [PRs -> Statuses]
        BY <1>1 DEF Bodies, Statuses
      <4>2. listed \in Bodies /\ listed.backports = f
        BY <4>1, <1>1, MarkedBodies DEF Bodies
      <4>3. SameMarks(listed, issue)
        BY <4>2 DEF SameMarks
      <4>. HIDE DEF listed
      <4>4. WithBackports(issue, add[w], kind[w]) =
                IF NeedsRcTask(issue, kind[w]) THEN SetRc(listed, NextRcTask(issue), "todo") ELSE listed
        BY DEF WithBackports, listed
      <4>5. \A n, s : SetRc(listed, n, s).backports = listed.backports
        BY <4>2, MarkedLines
      <4>6. QED BY <3>2, <4>3, <4>4, <4>5 DEF TypeOK, SameMarks
    <3>3. QED BY <1>4, <3>1, <3>2 DEF ReadBody
  <2>2. /\ pc[w] = "read" /\ pc'[w] \in {"resolve", "writeAdded"}
        /\ \A v \in Runs \ {w} : pc'[v] = pc[v]
        /\ UNCHANGED <<issue, prState, remote, todo>>
    BY <1>4 DEF ReadBody, TypeOK
  <2>3. QED BY <2>1, <2>2, <1>1, <1>3, QuietCalm DEF Picking
<1>5. CASE WriteAdded(w)
  <2>1. /\ pc[w] = "writeAdded" /\ pc'[w] \in {"end", "resolve"}
        /\ \A v \in Runs \ {w} : pc'[v] = pc[v]
        /\ issue' = body[w] /\ UNCHANGED <<body, prState, remote, todo>>
    BY <1>5 DEF WriteAdded, TypeOK
  <2>2. QED BY <2>1, <1>1, <1>3, QuietCalm DEF Picking, Writing
<1>6. CASE Checkout(w)
  <2>1. /\ pc[w] = "checkout" /\ pc'[w] = "pick" /\ local'[w] = remote
        /\ \A v \in Runs \ {w} : pc'[v] = pc[v]
        /\ UNCHANGED <<issue, body, prState, remote, todo>>
    BY <1>6 DEF Checkout, TypeOK
  <2>2. QED BY <2>1, <1>1, <1>3, QuietCalm DEF Picking, Writing
<1>7. CASE Gate(w) \/ ReadFinal(w)
  <2>1. /\ pc[w] \in {"gate", "readFinal"} /\ pc'[w] \in {"fetch", "end", "compare"}
        /\ \A v \in Runs \ {w} : pc'[v] = pc[v]
        /\ body'[w] = issue /\ UNCHANGED <<issue, prState, remote, todo>>
    BY <1>7 DEF Gate, ReadFinal, TypeOK
  <2>2. QED BY <2>1, <1>1, <1>3, QuietCalm DEF Picking
<1>8. CASE FetchBranch(w) \/ TagRc(w) \/ TagFinal(w)
  <2>1. /\ pc[w] \in {"fetch", "tagRc", "tagFinal"}
        /\ pc'[w] \in {"nextRc", "recordRc", "recordFinal", "end"}
        /\ \A v \in Runs \ {w} : pc'[v] = pc[v]
        /\ UNCHANGED <<issue, body, prState, remote, todo>>
    BY <1>8 DEF FetchBranch, TagRc, TagFinal, TypeOK
  <2>2. QED BY <2>1, <1>1, <1>3, QuietCalm DEF Picking, Writing
<1>9. CASE FetchTags(w)
  <2>1. /\ pc[w] = "fetchTags" /\ pc'[w] \in {"readFinal", "end"}
        /\ \A v \in Runs \ {w} : pc'[v] = pc[v]
        /\ UNCHANGED <<issue, body, prState, remote, todo>>
    BY <1>9 DEF FetchTags, TypeOK
  <2>2. QED BY <2>1, <1>1, <1>3, QuietCalm DEF Picking, Writing
<1>10. CASE NextRc(w)
  <2>1. /\ pc[w] = "nextRc" /\ pc'[w] \in {"tagRc", "end"}
        /\ \A v \in Runs \ {w} : pc'[v] = pc[v]
        /\ UNCHANGED <<prState, remote, todo>>
    BY <1>10 DEF NextRc, TypeOK
  <2>2. \/ issue' = issue /\ body'[w] = body[w]
        \/ \E n, s : issue' = SetRc(body[w], n, s) /\ body'[w] = SetRc(body[w], n, s)
    BY <1>10 DEF NextRc, TypeOK
  <2>3. \/ issue' = issue /\ SameMarks(body'[w], body[w])
        \/ SameMarks(issue', body[w]) /\ SameMarks(body'[w], body[w])
    BY <2>2, <1>1, <1>2
  <2>4. QED BY <2>1, <2>3, <1>1, <1>3, QuietCalm DEF Picking, Writing
<1>11. CASE RecordRc(w) \/ CompareBranch(w) \/ RecordFinal(w)
  <2>1. /\ pc[w] \in {"recordRc", "compare", "recordFinal"} /\ pc'[w] \in {"end", "tagFinal"}
        /\ \A v \in Runs \ {w} : pc'[v] = pc[v]
        /\ UNCHANGED <<body, prState, remote, todo>>
    BY <1>11 DEF RecordRc, CompareBranch, RecordFinal, TypeOK
  <2>2. \/ issue' = issue
        \/ \E n, s : issue' = SetRc(body[w], n, s)
        \/ \E s : issue' = SetFinal(body[w], s)
    BY <1>11 DEF RecordRc, CompareBranch, RecordFinal
  <2>3. SameMarks(issue', issue) \/ SameMarks(issue', body[w])
    BY <2>2, <1>1, <1>2
  <2>4. QED BY <2>1, <2>3, <1>1, <1>3, QuietCalm DEF Picking, Writing
<1>12. CASE RecordSuccess(w)
  BY <1>12, RecordCalm DEF RecordSuccess
<1>13. ~RecordFailure(w)
  BY DEF RecordFailure, CalmInv, AloneAt
<1>14. QED
  BY <1>4, <1>5, <1>6, <1>7, <1>8, <1>9, <1>10, <1>11, <1>12, <1>13,
     ResolveCalm, PushCalm, CherryPickCalm DEF Step

\* Maintainers, and the start of a run.  What is marked as an error cannot be
\* resolved by hand, because its pull request was closed.
LEMMA EnvironmentCalm ==
    ASSUME TypeOK, TypeOK', TodoInv, CalmInv, Environment, ~overlapped'
    PROVE  CalmInv'
<1>. USE DEF sharedVars, runVars
<1>1. ASSUME NEW p \in PRs, NEW s \in {"merged", "closed"}, ChangePr(p, s) PROVE CalmInv'
  <2>1. \A b : ErrorsAreClosed(b) =>
            \A q \in PRs : b.backports[q] = "error" => prState'[q] = "closed"
    BY <1>1 DEF ChangePr, ErrorsAreClosed, TypeOK
  <2>2. UNCHANGED <<issue, remote, body, todo, local, pc>>
    BY <1>1 DEF ChangePr
  <2>3. \A w \in Runs : AloneAt(w)'
    BY <2>2 DEF CalmInv, AloneAt, Recorded, NextPick, Active
  <2>4. ErrorsAreClosed(issue)' /\ \A w \in Runs : ErrorsAreClosed(body[w])'
    BY <2>1, <2>2 DEF CalmInv, ErrorsAreClosed
  <2>5. QED BY <2>2, <2>3, <2>4 DEF CalmInv, Active, BetweenRuns, NoRepeat
<1>2. ASSUME NEW p \in PRs, IgnoreBackport(p) PROVE CalmInv'
  <2>1. /\ issue' = SetBackport(issue, p, "ignore") /\ issue \in Bodies
        /\ issue.backports[p] # "done"
        /\ UNCHANGED <<prState, remote, body, todo, local, pc>>
    BY <1>2 DEF IgnoreBackport, TypeOK
  <2>2. \A q \in PRs : issue'.backports[q] = IF q = p THEN "ignore" ELSE issue.backports[q]
    BY <2>1, MarkedLines
  <2>3. PicksOf(remote) \subseteq PRs
    BY PicksArePRs DEF TypeOK
  <2>4. \A w \in Runs : Active(w) => Recorded(issue, w)'
    <3>1. SUFFICES ASSUME NEW w \in Runs, Active(w) PROVE Recorded(issue, w)'
      OBVIOUS
    <3>2. Recorded(issue, w)
      BY <3>1 DEF CalmInv, AloneAt
    <3>3. NextPick(w)' = NextPick(w)
      BY <2>1 DEF NextPick
    <3>4. QED BY <2>1, <2>2, <2>3, <3>2, <3>3 DEF Recorded
  <2>5. \A w \in Runs : AloneAt(w)'
    BY <2>1, <2>4 DEF CalmInv, AloneAt, Recorded, NextPick, Active
  <2>6. ErrorsAreClosed(issue)' /\ \A w \in Runs : ErrorsAreClosed(body[w])'
    BY <2>1, <2>2 DEF CalmInv, ErrorsAreClosed
  <2>7. BetweenRuns'
    BY <2>1, <2>2, <2>3 DEF CalmInv, BetweenRuns, Active
  <2>8. QED BY <2>1, <2>5, <2>6, <2>7 DEF CalmInv, Active, NoRepeat
<1>3. ASSUME NEW p \in PRs, ResolveByHand(p) PROVE FALSE
  BY <1>3 DEF ResolveByHand, CalmInv, ErrorsAreClosed
<1>4. ASSUME NEW w \in Runs, NEW k \in Commands, NEW prs \in SUBSET PRs, Launch(w, k, prs)
      PROVE  CalmInv'
  <2>1. \A v \in Runs : ~Active(v)
    BY <1>4 DEF Launch
  <2>2. /\ pc'[w] \in {"fetchTags", "read"} /\ \A v \in Runs \ {w} : pc'[v] = pc[v]
        /\ UNCHANGED <<issue, prState, remote, body, todo, local>>
    BY <1>4 DEF Launch, Goto, TypeOK
  <2>3. \A v \in Runs \ {w} : pc'[v] \in {"off", "end"}
    BY <2>1, <2>2 DEF Active
  <2>4. Recorded(issue, w)'
    BY <2>1, <2>2 DEF CalmInv, BetweenRuns, Recorded
  <2>5. \A v \in Runs : AloneAt(v)'
    BY <2>2, <2>3, <2>4 DEF AloneAt, Writing, Picking, Active
  <2>6. ErrorsAreClosed(issue)' /\ \A v \in Runs : ErrorsAreClosed(body[v])'
    BY <2>2 DEF CalmInv, ErrorsAreClosed
  <2>7. BetweenRuns'
    BY <2>2 DEF BetweenRuns, Active
  <2>8. QED BY <2>2, <2>3, <2>5, <2>6, <2>7 DEF CalmInv, Active, NoRepeat
<1>5. QED BY <1>1, <1>2, <1>3, <1>4 DEF Environment

LEMMA NextOnce == TypeOK /\ TypeOK' /\ TodoInv /\ OnceInv /\ [Next]_vars => OnceInv'
<1>. SUFFICES ASSUME TypeOK, TypeOK', TodoInv, OnceInv, [Next]_vars, Calm' PROVE CalmInv'
  BY DEF OnceInv
<1>1. CalmInv /\ ~Fault /\ ~overlapped'
  BY CalmBefore DEF OnceInv, Calm
<1>2. CASE Environment
  BY <1>1, <1>2, EnvironmentCalm
<1>3. ASSUME NEW w \in Runs, Step(w) PROVE CalmInv'
  BY <1>1, <1>3, StepCalm
<1>4. ASSUME NEW w \in Runs, Crash(w) PROVE FALSE
  BY <1>1, <1>4 DEF Crash
<1>5. CASE UNCHANGED vars
  <2>1. UNCHANGED <<issue, prState, remote, pc, body, todo, local>>
    BY <1>5 DEF vars, sharedVars, runVars
  <2>2. \A w \in Runs : AloneAt(w)'
    BY <1>1, <2>1 DEF CalmInv, AloneAt, Recorded, NextPick, Active
  <2>3. QED BY <1>1, <2>1, <2>2 DEF CalmInv, Active, BetweenRuns, NoRepeat, ErrorsAreClosed
<1>6. QED BY <1>2, <1>3, <1>4, <1>5 DEF Next

-----------------------------------------------------------------------------
(* The theorems *)

IInv == TypeOK /\ TodoInv /\ RecordInv /\ TruthInv /\ TagInv /\ OnceInv

LEMMA InitInvariant == Init => IInv
<1>. SUFFICES ASSUME Init PROVE IInv
  OBVIOUS
<1>1. TypeOK /\ TodoInv
  BY InitTypes
<1>2. RecordInv /\ TargetInv
  BY DEF Init, RecordInv, MayRecord, TargetInv
<1>3. PICK prs \in Listed : issue = NewBody(prs) /\ body = [w \in Runs |-> issue]
  BY DEF Init
<1>4. TruthInv
  <2>1. \A p \in PRs : NewBody(prs).backports[p] # "done"
    BY DEF NewBody
  <2>2. \A n \in RcNums : NewBody(prs).rc[n] # "done"
    BY DEF NewBody
  <2>3. NewBody(prs).final # "done"
    BY DEF NewBody
  <2>4. Truthful(NewBody(prs))
    BY <2>1, <2>2, <2>3 DEF Truthful, TruthfulOf
  <2>5. QED BY <1>3, <2>4 DEF TruthInv
<1>5. FinalWasCandidate /\ RcContainsBackports
  BY DEF Init, FinalWasCandidate, RcContainsBackports
<1>6. OnceInv
  <2>1. \A w \in Runs : pc[w] = "off" /\ body[w] = NewBody(prs)
    BY <1>3 DEF Init
  <2>2. DOMAIN remote = {}
    BY DEF Init
  <2>3. \A p \in PRs : NewBody(prs).backports[p] # "error"
    BY DEF NewBody
  <2>4. \A w \in Runs : AloneAt(w)
    BY <2>1 DEF AloneAt, Active, Writing, Picking
  <2>5. ErrorsAreClosed(issue) /\ \A w \in Runs : ErrorsAreClosed(body[w])
    BY <1>3, <2>1, <2>3 DEF ErrorsAreClosed
  <2>6. QED
    BY <2>1, <2>2, <2>4, <2>5 DEF OnceInv, CalmInv, Active, NoRepeat, BetweenRuns, PicksOf
<1>7. QED BY <1>1, <1>2, <1>4, <1>5, <1>6 DEF IInv, TagInv

LEMMA NextInvariant == IInv /\ [Next]_vars => IInv' /\ Grows
<1>. SUFFICES ASSUME IInv, [Next]_vars PROVE IInv' /\ Grows
  OBVIOUS
<1>1. TypeOK' /\ TodoInv' /\ Grows
  BY NextTypes, NextGrows DEF IInv
<1>2. RecordInv' /\ TruthInv'
  BY <1>1, NextMayRecord, NextTruth DEF IInv
<1>3. TagInv'
  BY <1>1, NextRcContains, NextFinalWas, NextTarget DEF IInv, TagInv
<1>4. OnceInv'
  BY <1>1, NextOnce DEF IInv
<1>5. QED BY <1>1, <1>2, <1>3, <1>4 DEF IInv

LEMMA Invariant == Spec => []IInv
<1>1. IInv /\ [Next]_vars => IInv'
  BY NextInvariant
<1>2. QED BY <1>1, InitInvariant, PTL DEF Spec

\* Type correctness of the release workflow runs, for any number of them.
THEOREM TypeCorrect == Spec => []TypeOK
<1>1. IInv => TypeOK
  BY DEF IInv
<1>2. QED BY <1>1, Invariant, PTL

\* However many runs overlap, overwrite each other's edits, fail or are lost,
\* nothing is on the checklist as done that has not happened.
THEOREM ChecklistIsTrue == Spec => []ChecklistTellsTheTruth
<1>1. IInv => ChecklistTellsTheTruth
  BY DEF IInv, TruthInv, Truthful, TruthfulOf, ChecklistTellsTheTruth, Backports
<1>2. QED BY <1>1, Invariant, PTL

\* The final X.Y.0 tag is on a commit that was tagged as a release candidate.
THEOREM FinalIsCandidate == Spec => []FinalWasCandidate
<1>1. IInv => FinalWasCandidate
  BY DEF IInv, TagInv
<1>2. QED BY <1>1, Invariant, PTL

\* An RC contains the backports its run had read as done.
THEOREM RcIsComplete == Spec => []RcContainsBackports
<1>1. IInv => RcContainsBackports
  BY DEF IInv, TagInv
<1>2. QED BY <1>1, Invariant, PTL

\* Runs that follow each other, and whose commands work, pick a pull request at
\* most once and leave none of the picked unmarked, for any commands, pull
\* requests and edits of the maintainers.
THEOREM BackportsOnce == Spec => []EachBackportOnce
<1>1. IInv => EachBackportOnce
  BY DEF IInv, OnceInv, Calm, CalmInv, NoRepeat, BetweenRuns, EachBackportOnce
<1>2. QED BY <1>1, Invariant, PTL

\* No run takes back a pushed commit or moves a tag.
THEOREM PublishedIsKept == Spec => PublishedStays
<1>1. IInv /\ [Next]_vars => [Grows]_vars
  BY NextInvariant
<1>2. [Grows]_vars => [ /\ IsPrefix(remote, remote')
                        /\ IsPrefix(rcTags, rcTags')
                        /\ finalTags # {} => finalTags' = finalTags ]_vars
  BY DEF Grows
<1>3. QED BY <1>1, <1>2, Invariant, PTL DEF Spec, PublishedStays
=============================================================================

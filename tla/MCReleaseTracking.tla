------------------------- MODULE MCReleaseTracking -------------------------
(* Release 2.0 is out (minor 0), 2.1 (minor 1) is next.  Change 1 is a feature *)
(* that is on main, change 2 a fix.                                           *)
EXTENDS ReleaseTracking, TLC

MCVersions == {<<0, 0>>, <<0, 1>>, <<1, 0>>, <<1, 1>>}
Unlisted == [v \in MCVersions |-> [p \in PRs |-> 0]]
OnMain(changes, sections) ==
    [sections |-> sections, listed |-> Unlisted, news |-> changes, markers |-> changes]

Branch(base) == [base |-> base, picked |-> FALSE]
NoBackport == [pr |-> 0, from |-> 0, to |-> 0, body |-> NoTrack]

\* Nothing has been done for the next release.
Idle == [main |-> <<OnMain({1}, {<<0, 0>>})>>,
         branches |-> [m \in Minors |-> Branch(IF m = 0 THEN 1 ELSE 0)],
         tags |-> {<<0, 0>>}, issues |-> <<>>, prs |-> <<>>, pushed |-> {},
         backport |-> NoBackport, client |-> "mock", launches |-> 0, faults |-> 1]

\* 2.1.0 has been prepared and its branch cut; both changes came after that,
\* and change 1 is to be in it.
Prepared1 == Line(TRUE, "done", 1, 2)
WithChange1 == WithPrs([Template(<<1, 0>>) EXCEPT !.prepare = Prepared1,
                                                  !.branch = Line(TRUE, "done", 0, 2)], {1})
Cut == [main |-> <<OnMain({}, {<<0, 0>>}), OnMain({}, {<<0, 0>>, <<1, 0>>}),
                   OnMain(PRs, {<<0, 0>>, <<1, 0>>})>>,
        branches |-> [m \in Minors |-> Branch(m + 1)], tags |-> {<<0, 0>>},
        issues |-> <<[version |-> <<1, 0>>, open |-> TRUE, body |-> WithChange1]>>,
        prs |-> <<[name |-> PrepareBranch(<<1, 0>>), issue |-> 1, state |-> "merged",
                   commit |-> 2]>>,
        pushed |-> {[name |-> PrepareBranch(<<1, 0>>), base |-> OnMain({}, {<<0, 0>>}),
                     head |-> OnMain({}, {<<0, 0>>, <<1, 0>>})]},
        backport |-> NoBackport, client |-> "mock", launches |-> 0, faults |-> 1]

\* 2.0.0 and 2.1.0 are out, and change 1 is to go into patches of both.
Out == [main |-> <<OnMain({}, {<<0, 0>>, <<1, 0>>}), OnMain({1}, {<<0, 0>>, <<1, 0>>})>>,
        branches |-> [m \in Minors |-> Branch(1)],
        tags |-> {<<0, 0>>, <<1, 0>>}, issues |-> <<>>, prs |-> <<>>, pushed |-> {},
        backport |-> [pr |-> 1, from |-> 0, to |-> 1, body |-> NoTrack],
        client |-> "gh", launches |-> 0, faults |-> 0]

\* 2.1.0 was opened for change 1, which then went into 2.0.1 with its marker:
\* main is to be prepared as 2.0.1 again, now for the issue of 2.1.0.
Moved == [main |-> <<[OnMain({2}, {<<0, 0>>, <<0, 1>>}) EXCEPT !.listed[<<0, 1>>][1] = 1]>>,
          branches |-> [m \in Minors |-> Branch(IF m = 0 THEN 1 ELSE 0)],
          tags |-> {<<0, 0>>}, prs |-> <<>>, pushed |-> {},
          issues |-> <<[version |-> <<1, 0>>, open |-> TRUE, body |-> Template(<<1, 0>>)]>>,
          backport |-> NoBackport, client |-> "mock", launches |-> 1, faults |-> 1]

\* The same with fewer jobs, one of which may be cut off.
Shorter(c, world) ==
    [world EXCEPT !.client = c, !.launches = 1, !.faults = 0]

MCWorlds == {Idle, Cut, Out, Moved} \cup
    {Shorter(c, w) : c \in {"gh", "mock"}, w \in {Idle, Cut}}
JobSymmetry == Permutations(Jobs)
=============================================================================

-------------------------- MODULE MCReleasePipeline --------------------------
(* Two runs of any commands for one pull request, with one fault; or three    *)
(* that race for the tags with two pull requests, create-rc (which begins     *)
(* with the backports) and promote, when nothing fails, no pull request is    *)
(* closed without being merged and a maintainer has one of them ignored.      *)
EXTENDS ReleasePipeline, FiniteSets, TLC

\* Runs are interchangeable: no liveness is checked.
RunSymmetry == Permutations(Runs)

Started == {w \in Runs : ~At(w, "off")}
OnePr ==
    /\ Cardinality(Started) <= 2
    /\ issue.backports[2] = "absent" /\ prState[2] = "open"
    /\ \A w \in Runs : 2 \notin add[w]
Racing ==
    /\ \A w \in Started : kind[w] \in {"createRc", "promote"}
    /\ faults = 0 /\ \A p \in PRs : prState[p] # "closed"
    /\ Cardinality(Backports(issue, {"ignore"})) <= 1
OneOrRacing == OnePr \/ Racing
=============================================================================

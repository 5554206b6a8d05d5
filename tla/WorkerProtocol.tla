--------------------------- MODULE WorkerProtocol ---------------------------
(* What Bazel expects of a persistent worker that declares                 *)
(* supports-worker-cancellation: every work request is answered by at most *)
(* one response, and "wasCancelled" is a possible response only to a       *)
(* request that Bazel asked to cancel.  The protocol itself lives in Bazel; *)
(* the workers in tools/precompiler rely on it.                            *)

CONSTANT Requests

VARIABLES
    asked,        \* requests Bazel has written to the worker
    cancelling,   \* requests Bazel has asked to cancel
    responses     \* [Requests -> sequence of the responses written for each]

protocolVars == <<asked, cancelling, responses>>

\* "exit0" is a success, "exit3" an error caught by the worker.
ResponseKinds == {"exit0", "exit3", "wasCancelled"}

Init ==
    /\ asked = {}
    /\ cancelling = {}
    /\ responses = [r \in Requests |-> <<>>]

Ask(r) ==
    /\ r \notin asked
    /\ asked' = asked \cup {r}
    /\ UNCHANGED <<cancelling, responses>>

\* A cancel request may race with the response: it may come after it.
AskCancel(r) ==
    /\ r \in asked \ cancelling
    /\ cancelling' = cancelling \cup {r}
    /\ UNCHANGED <<asked, responses>>

Respond(r, kind) ==
    /\ r \in asked
    /\ responses[r] = <<>>
    /\ kind = "wasCancelled" => r \in cancelling
    /\ responses' = [responses EXCEPT ![r] = <<kind>>]
    /\ UNCHANGED <<asked, cancelling>>

Next ==
    \E r \in Requests :
        \/ Ask(r)
        \/ AskCancel(r)
        \/ \E kind \in ResponseKinds : Respond(r, kind)

Spec == Init /\ [][Next]_protocolVars
=============================================================================

--------------------------- MODULE MCSphinxWorker ---------------------------
(* Documents "a" and "b" and an index that names both; "a" has a toctree with *)
(* a pattern that matches "b".  Two providers of "a" have a field x; its       *)
(* second version makes one of them a rule and has taken the function m from   *)
(* "b"; its third has dropped the second provider.                             *)
EXTENDS SphinxWorker

MCDocOrder == <<"a", "b", "index">>
MCVersions == {"v1", "v2", "v3"}

File == CurrentFile(<<>>, <<"pkg", "f.bzl">>)
ProviderP == <<Object("provider", "P"), Object("provider-field", "x"), EndObject, EndObject>>
ProviderQ == <<Object("provider", "Q"), Object("provider-field", "x"), EndObject, EndObject>>
RuleP == <<Object("rule", "P"), Field("attr", "x"), EndObject>>
FunctionM == <<Object("function", "m"), EndObject>>

MCContent(d, v) ==
    CASE d = "index" -> <<CurrentFile(<<"@r">>, <<"pkg", "BUILD">>),
                          Target("target", <<"pkg", "t">>), Target("flag", <<"f">>)>>
      [] d = "b" -> IF v = "v1" THEN <<File>> \o FunctionM ELSE <<>>
      [] d = "a" -> CASE v = "v1" -> <<CurrentFile(<<>>, <<"pkg", "g.bzl">>)>> \o ProviderP \o ProviderQ
                      [] v = "v2" -> <<File>> \o FunctionM
                                     \o <<CurrentFile(<<>>, <<"pkg", "g.bzl">>)>> \o RuleP
                      [] v = "v3" -> <<CurrentFile(<<>>, <<"pkg", "g.bzl">>)>> \o ProviderP

\* The index names both, the toctree of "a" matches "b".
MCLists(d) == CASE d = "index" -> {"a", "b"} [] d = "a" -> {"b"} [] OTHER -> {}
MCGlobToctrees == {"a"}
MCNameLength(id) == Len(id.path)

\* The documents of a request never declare an object twice.
MCSources ==
    {s \in [{"a", "b", "index"} -> MCVersions \cup {"absent"}] :
        /\ s["index"] = "v1" /\ s["b"] # "v3"
        /\ ~(s["a"] = "v2" /\ s["b"] = "v1")}
=============================================================================

----------------------------- MODULE MCBootstrap -----------------------------
(* Two builds of one zipapp, app1 and app2: both hold pip_a/data and, in app1, *)
(* an explicit symlink to it takes the place of a file of pip_b.  tool is a    *)
(* binary with a tree of its own and a data dependency of app1 and of outer;   *)
(* app2 only has outer's main file, as a library.                              *)
EXTENDS Bootstrap

MCSymmetry == Permutations(Processes)

Line(type, isSymlink, path, src) ==
    [type |-> type, isSymlink |-> isSymlink, path |-> path, src |-> src, to |-> <<>>]
Explicit(path, to) ==
    [type |-> "symlink", isSymlink |-> "2", path |-> path, src |-> "none", to |-> to]

MCLines == [b \in {"app1", "app2"} |->
    <<Line("regular", "0", <<"__main__.py">>, "zip_main"),
      Line("rf-file", "0", <<"..", "pip_a", "data">>, "data"),
      Line("rf-file", "0", <<"app.py">>, "app")>>
    \o IF b = "app2" THEN <<Line("rf-symlink", "1", <<"outer.py">>, "link"),
                               Line("rf-empty", "0", <<"__init__.py">>, "link")>>
       ELSE <<Line("rf-file", "-1", <<"..", "pip_b", "data">>, "dangling"),
              Line("rf-symlink", "0", <<"tool.py">>, "tool"),
              Explicit(<<"pip_b", "data">>, <<"pip_a", "data">>),
              Line("rf-root-symlink", "0", <<"_repo_mapping">>, "mapping")>>]

MCPathOrder ==
    <<<<"__main__.py">>, <<"runfiles", "_main", "__init__.py">>,
      <<"runfiles", "_main", "app.py">>, <<"runfiles", "_main", "outer.py">>,
      <<"runfiles", "_main", "tool.py">>, <<"runfiles", "_repo_mapping">>,
      <<"runfiles", "pip_a", "data">>, <<"runfiles", "pip_b", "data">>>>

OnDisk(data) == [kind |-> "file", data |-> data, to |-> <<>>, resolves |-> TRUE]
MCDisk == [s \in {"zip_main", "data", "app", "tool", "mapping", "dangling", "link"} |->
    IF s \in {"dangling", "link"}
    THEN [kind |-> "link", data |-> "", to |-> <<"runfiles", "_main", "app.py">>,
          resolves |-> s = "link"]
    ELSE OnDisk(s)]

ToolFiles == {<<"_main", "tool.py">>, <<"_repo_mapping">>, <<"pip_a", "data">>, <<"pip_a", "dir", "f">>}
OuterFiles == {<<"_main", "outer.py">>, <<"_main", "outer_stage2.py">>, <<"_main", "outer_site.py">>}
MCDeployed == [b \in {"tool", "outer"} |->
    [path \in ToolFiles \cup IF b = "outer" THEN OuterFiles ELSE {} |->
        File(IF path = <<"_repo_mapping">> THEN "mapping" ELSE "file")]]
MCTreeArtifacts == {<<"pip_a", "dir">>}

\* Of a repository named pip_*, "a" is the repository pip_b; of main, pip_a.
Maps(source, prefix, canonical) ==
    [source |-> source, prefix |-> prefix, apparent |-> "a", canonical |-> canonical]
MCMapping == [data \in {"mapping"} |->
    <<Maps("pip_", TRUE, "pip_b"), Maps("", TRUE, "_main"), Maps("", FALSE, "pip_a")>>]
MCStartsWith(name, prefix) ==
    prefix = "" \/ name = prefix \/ (prefix = "pip_" /\ name \in {"pip_a", "pip_b"})

MCPrograms == {"app1", "app2", "tool", "outer"}
InMain(name) == <<"_main", name>>
MCMain == [b \in MCPrograms |->
    InMain(CASE b = "tool" -> "tool.py" [] b = "outer" -> "outer.py" [] OTHER -> "app.py")]
MCStage2 == [b \in MCPrograms |->
    IF b = "outer" THEN InMain("outer_stage2.py") ELSE MCMain[b]]
MCSelfPath == [b \in MCPrograms |->
    IF b = "outer" THEN InMain("outer_site.py") ELSE MCMain[b]]
MCImports == [b \in MCPrograms |-> <<<<"pip_a">>, <<"_main">>>>]

MCVenvPython == <<"venv", "bin", "python3">>
MCPythonActual == <<"usr", "bin", "python3">>
MCPyvenvCfg == <<"venv", "pyvenv.cfg">>

Ask(caller, path, file) == [caller |-> caller, path |-> path, file |-> file]
MCAsks == [b \in MCPrograms |->
    CASE b = "app1" -> {Ask(InMain("app.py"), <<"a", "data">>, <<"pip_a", "data">>),
                        Ask(<<"pip_a", "lib.py">>, <<"a", "data">>, <<"pip_b", "data">>)}
      [] b = "app2" -> {Ask(InMain("app.py"), <<"pip_a", "data">>, <<"pip_a", "data">>)}
      [] b = "tool" -> {Ask(InMain("tool.py"), <<"a", "data">>, <<"pip_a", "data">>)}
      [] b = "outer" -> {Ask(InMain("outer.py"), <<"a", "dir", "f">>, <<"pip_a", "dir", "f">>)}]
=============================================================================

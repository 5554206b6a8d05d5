------------------------------- MODULE Runfiles -------------------------------
(* python/runfiles/runfiles.py: how a program finds a data file from the      *)
(* environment, the runfiles tree or manifest, and the repository mapping of  *)
(* the code that asks.  A root is a directory that may hold a runfiles tree;  *)
(* a path relative to it is a sequence of components, the first of which is   *)
(* the name of a repository; a location is a root and a path.                 *)
EXTENDS Sequences, SequencesExt, FiniteSetsExt, Integers

CONSTANTS
    None,                \* no value, of a root or of a lookup
    StartsWith(_, _)     \* str.startswith, on the names of repositories

NoWhere == <<None, <<>>>>
RepoMappingPath == <<"_repo_mapping">>

-----------------------------------------------------------------------------
(* _RepositoryMapping: the lines of the file, [source, prefix, apparent,      *)
(* canonical], where prefix says that the line has a "*" after the source.    *)

\* A key that occurs twice keeps its place and takes the last value.
ValueOf(lines, k) ==
    LET same == {i \in DOMAIN lines :
                    /\ lines[i].prefix = lines[k].prefix
                    /\ lines[i].source = lines[k].source
                    /\ lines[i].apparent = lines[k].apparent}
    IN  lines[Max(same)].canonical

\* Exact lines first, then the prefixes in their order; None if nothing maps.
LookupRepo(lines, source, target) ==
    LET exact == {i \in DOMAIN lines : /\ ~lines[i].prefix
                                       /\ lines[i].source = source
                                       /\ lines[i].apparent = target}
        prefixed == {i \in DOMAIN lines : /\ lines[i].prefix
                                          /\ StartsWith(source, lines[i].source)
                                          /\ lines[i].apparent = target}
    IN  CASE source = None -> None
          [] source # None /\ exact # {} -> ValueOf(lines, Min(exact))
          [] source # None /\ exact = {} /\ prefixed # {} -> ValueOf(lines, Min(prefixed))
          [] OTHER -> None

-----------------------------------------------------------------------------
(* The two strategies.  A manifest is a function from the paths it lists to   *)
(* locations; the path of an empty file has no target and stands for itself.  *)

LoadRunfiles(manifest) ==
    [path \in DOMAIN manifest |->
        IF manifest[path] = NoWhere THEN <<None, path>> ELSE manifest[path]]

ManifestBased(root, manifest) ==
    [kind |-> "manifest", root |-> root, table |-> LoadRunfiles(manifest)]
DirectoryBased(root) == [kind |-> "directory", root |-> root, table |-> <<>>]

\* The longest listed prefix decides: a manifest lists a directory as one line.
ManifestLocation(table, path) ==
    LET listed == {n \in 1..Len(path) : SubSeq(path, 1, n) \in DOMAIN table}
        n == Max(listed)
        found == table[SubSeq(path, 1, n)]
    IN  IF listed = {} THEN NoWhere
        ELSE <<found[1], found[2] \o SubSeq(path, n + 1, Len(path))>>

RlocationChecked(strategy, path) ==
    IF strategy.kind = "manifest" THEN ManifestLocation(strategy.table, path)
    ELSE <<strategy.root, path>>

-----------------------------------------------------------------------------
(* Runfiles.  env.manifest is the root of the manifest that                   *)
(* RUNFILES_MANIFEST_FILE names, env.dir is RUNFILES_DIR.                     *)

\* manifest is what the file says, if there is one.
Create(env, manifest) ==
    CASE env.manifest # None -> ManifestBased(env.manifest, manifest)
      [] env.manifest = None /\ env.dir # None -> DirectoryBased(env.dir)
      [] OTHER -> None

\* mapping: the lines at RlocationChecked(strategy, RepoMappingPath), if any.
Runfiles(strategy, mapping) == [strategy |-> strategy, mapping |-> mapping]

\* For the environment of a subprocess.
EnvVars(env, r) ==
    IF r.strategy.kind = "manifest"
    THEN [env EXCEPT !.manifest = r.strategy.root, !.dir = r.strategy.root]
    ELSE [env EXCEPT !.dir = r.strategy.root]

\* None where the code raises: the caller is not below the root.
CurrentRepository(r, caller) ==
    IF caller[1] # r.strategy.root THEN None
    ELSE IF Head(caller[2]) = "_main" THEN "" ELSE Head(caller[2])

\* The caller's repository is only asked for when there is a mapping.
Rlocation(r, path, source) ==
    LET canonical == LookupRepo(r.mapping, source, Head(path))
    IN  IF Tail(path) = <<>> \/ canonical = None
        THEN RlocationChecked(r.strategy, path)
        ELSE RlocationChecked(r.strategy, <<canonical>> \o Tail(path))

-----------------------------------------------------------------------------
(* Path: a path that remembers the Runfiles and the repository it was made    *)
(* for; every path derived from it remembers the same.                        *)

RootPath(r, caller) ==
    [runfiles |-> r, path |-> <<>>,
     source |-> IF r.mapping = <<>> THEN None ELSE CurrentRepository(r, caller)]
WithSegments(p, segments) == [p EXCEPT !.path = segments]
Join(p, segments) == WithSegments(p, p.path \o segments)
PathStr(p) ==
    IF p.path = <<>> THEN <<p.runfiles.strategy.root, <<>>>>
    ELSE LET resolved == Rlocation(p.runfiles, p.path, p.source)
         IN  IF resolved # NoWhere THEN resolved ELSE <<p.runfiles.strategy.root, p.path>>
=============================================================================

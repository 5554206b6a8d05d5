------------------------------ MODULE Bootstrap ------------------------------
(* From launching a Python program to its running code: a zipapp extracts     *)
(* itself and starts stage 2 (zipapp/zip_main_template.py or, as an           *)
(* executable, zipapp/zip_shell_template.sh); a binary with a runfiles tree   *)
(* starts it through stage1_bootstrap_template.sh; stage 2                    *)
(* (stage2_bootstrap_template.py) and site_init_template.py find the runfiles *)
(* and set the environment that the program's code, and the programs it       *)
(* starts, look files up with (Runfiles).  Processes share the file system    *)
(* below RULES_PYTHON_EXTRACT_ROOT and pass their environment on.             *)
EXTENDS Zipper, Runfiles

CONSTANTS
    Processes,
    Zipapps, Binaries,   \* the programs
    Lines,               \* [Zipapps -> manifest that the archive is made from]
    Deployed,            \* [Binaries -> paths of its runfiles tree, and what is there]
    HasManifest,         \* the binaries whose tree comes with a manifest
    Mapping,             \* [data of a _repo_mapping file -> its lines]
    Main, Stage2, SelfPath,   \* [Programs -> path of the file below runfiles/]
    Modules,             \* programs started with a main module, found by import
    Imports,             \* [Programs -> the directories of its import path]
    TreeArtifacts,       \* directories that a manifest lists as one line
    VenvPython, PythonActual, PyvenvCfg,   \* paths: the venv of a zipapp and the
                         \* interpreter it leads to
    Asks,                \* [Programs -> what its code asks Runfiles for:
                         \*  [caller, path, file], files below runfiles/]
    Earlier,             \* zipapps that may have extracted themselves before
    MaxUserLaunches, MaxLaunches, MaxKills   \* bounds

Programs == Zipapps \cup Binaries
Runfile(path) == <<"runfiles">> \o path
ASSUME ProgramsAssumption ==
    /\ Zipapps \cap Binaries = {} /\ Earlier \subseteq Zipapps
    /\ Modules \subseteq Programs
    /\ {MaxUserLaunches, MaxLaunches, MaxKills} \subseteq Nat
    /\ Runfile(VenvPython) # Runfile(PyvenvCfg)

MainPy == <<"__main__.py">>
Archive == [b \in Zipapps |-> CreateZip(Lines[b])]

\* py_zipapp_rule.bzl writes the line of __main__.py.
ASSUME LinesAssumption ==
    \A b \in Zipapps :
        /\ {l.path : l \in {l \in ToSet(Lines[b]) : l.type = "regular"}} = {MainPy}
        /\ DOMAIN Archive[b] \subseteq ToSet(PathOrder)

\* Directories are named by EXTRACT_DIR, which the programs here share, and by
\* the hash: APP_HASH for __main__.py, ZIP_HASH for the preamble.
HashOf(b, how) ==
    IF how = "main" THEN ComputeInputsHash(Lines[b]) ELSE ZipHash(Lines[b])
SharedRoot ==
    [how \in {"main", "preamble"} |-> [b \in Zipapps |->
        <<how, CHOOSE c \in Zipapps : HashOf(c, how) = HashOf(b, how)>>]]
TreeRoot(b) == <<"tree", b>>

\* The hash leaves the type of a line out, and the type says where the file goes:
\* the directories that builds share although their archives have other paths.
Ambiguous ==
    {SharedRoot["main"][b] : b \in {b \in Zipapps : \E c \in Zipapps :
        /\ HashOf(b, "main") = HashOf(c, "main")
        /\ DOMAIN Archive[b] # DOMAIN Archive[c]}}

VARIABLES
    fs,         \* [directories extracted to -> [paths there -> nodes]]
    proc,       \* [Processes -> state of the process]
    cut,        \* history: directories where an interrupted step, or a link that
                \* leads out of the archive, left a file that no launch replaces
    disturbed,  \* history: processes whose tree another process has changed
    launches, kills

vars == <<fs, proc, cut, disturbed, launches, kills>>

NoVars == [dir |-> None, manifest |-> None, extractRoot |-> FALSE]
Unused == [pc |-> "unused", launch |-> 0, prog |-> None, how |-> "tree", env |-> NoVars,
           root |-> None, left |-> {}, own |-> None, sysPath |-> {}]

\* f with y for x.
With(f, x, y) == [z \in DOMAIN f \cup {x} |-> IF z = x THEN y ELSE f[z]]

\* What a program that runs alone in its directory has before it.
FullTree(b, how) ==
    LET zip == Archive[b]
    IN  IF how = "preamble" THEN zip
        ELSE [path \in DOMAIN zip \cup {Runfile(VenvPython), Runfile(PyvenvCfg)} |->
                CASE path \in DOMAIN zip -> zip[path]
                  [] path \notin DOMAIN zip /\ path = Runfile(VenvPython) ->
                        Link(PythonActual)
                  [] OTHER -> File("home")]

\* Nothing was extracted, or one archive by an earlier launch of its __main__.py.
Init ==
    /\ fs \in {<<>>} \cup
            {[root \in {SharedRoot["main"][b]} |-> FullTree(b, "main")] : b \in Earlier}
    /\ proc = [p \in Processes |-> Unused]
    /\ cut = {} /\ disturbed = {} /\ launches = 0 /\ kills = 0

Set(p, state) == proc' = [proc EXCEPT ![p] = state]
Goto(p, pc) == Set(p, [proc[p] EXCEPT !.pc = pc])
\* The end, of whatever kind; Processes are reused.
End(p) == Set(p, Unused)

Extracting(p) == proc[p].pc \in {"look", "unlink", "write", "replace", "unzip",
                                 "venv", "link", "cfg", "home"}

\* What p does in root is seen by the others that run from it.
Disturb(p, root) ==
    disturbed' = disturbed \cup
        {q \in Processes \ {p} : root \in {proc[q].root, proc[q].own}}
\* p begins to use root, perhaps while another process works there.
Enters(p, root) ==
    disturbed' = disturbed \cup
        {q \in {p} : \E o \in Processes \ {p} : Extracting(o) /\ proc[o].root = root}

-----------------------------------------------------------------------------
(* The file system                                                          *)

\* To open a path is to open what the link leads to that is there.
Through(tree, path) ==
    IF path \in DOMAIN tree /\ tree[path].kind = "link" THEN tree[path].to ELSE path
Opens(tree, path) == path \in DOMAIN tree /\ Through(tree, path) \in DOMAIN tree

\* A root is a tree that Bazel made, or a directory with one below runfiles/.
Tree(root) ==
    CASE root[1] = "tree" -> Deployed[root[2]]
      [] root[1] # "tree" /\ root \in DOMAIN fs -> fs[root]
      [] OTHER -> <<>>
Place(root) == IF root[1] = "tree" THEN <<>> ELSE <<"runfiles">>
Has(root, path) == Opens(Tree(root), Place(root) \o path)

Put(root, path, node) == fs' = [fs EXCEPT ![root] = With(@, path, node)]
Drop(root, path) ==
    fs' = [fs EXCEPT ![root] = [q \in DOMAIN @ \ {path} |-> @[q]]]

-----------------------------------------------------------------------------
(* Launching: by a user, whose shell may have RULES_PYTHON_EXTRACT_ROOT, by    *)
(* Bazel, which sets the runfiles variables of the binary it runs, or by a    *)
(* program, which passes on its environment or that of Runfiles.EnvVars().    *)

Launch(p, b, how, env) ==
    /\ proc[p].pc = "unused" /\ launches < MaxLaunches
    /\ (b \in Binaries) = (how = "tree")
    /\ Set(p, [Unused EXCEPT !.pc = IF how = "tree" THEN "stage1" ELSE "open",
                             !.launch = launches + 1, !.prog = b,
                             !.how = how, !.env = env])
    /\ launches' = launches + 1 /\ disturbed' = disturbed \ {p}
    /\ UNCHANGED <<fs, cut, kills>>

UserLaunch(p) ==
    /\ launches < MaxUserLaunches
    /\ \E b \in Programs, how \in {"tree", "main", "preamble"} :
        \E env \in {[NoVars EXCEPT !.extractRoot = x] : x \in BOOLEAN} \cup
                   {[dir |-> TreeRoot(b), manifest |-> m, extractRoot |-> FALSE] :
                        m \in IF b \in HasManifest THEN {TreeRoot(b), None} ELSE {None}} :
            /\ env.dir # None => b \in Binaries
            /\ env.extractRoot => b \in Zipapps
            /\ Launch(p, b, how, env)

ManifestAt(root) ==
    LET paths == DOMAIN Deployed[root[2]]
        Line(path) == {t \in TreeArtifacts : IsPrefix(t, path)} \cup {path}
    IN  [line \in {CHOOSE l \in Line(path) : \A m \in Line(path) : Len(l) <= Len(m)
                    : path \in paths} |-> <<root, line>>]
MappingIn(tree, path) ==
    IF Opens(tree, path) THEN Mapping[tree[Through(tree, path)].data] ELSE <<>>
MappingAt(location) ==
    IF location = NoWhere THEN <<>>
    ELSE MappingIn(Tree(location[1]), Place(location[1]) \o location[2])
RunfilesOf(p) ==
    LET env == proc[p].env
        strategy == Create(env, ManifestAt(env.manifest))
    IN  Runfiles(strategy, MappingAt(RlocationChecked(strategy, RepoMappingPath)))

Spawn(p, q) ==
    /\ proc[p].pc = "run"
    /\ \E b \in Programs, how \in {"tree", "main", "preamble"} :
        \E env \in {proc[p].env, EnvVars(proc[p].env, RunfilesOf(p))} :
            Launch(q, b, how, env)

-----------------------------------------------------------------------------
(* What a build puts into a runfiles tree for the code of b to find: all that *)
(* it asks for, and a mapping that has what its repository calls them.        *)

Applies(line, source, target) ==
    /\ line.apparent = target
    /\ IF line.prefix THEN StartsWith(source, line.source) ELSE line.source = source

\* An exact line for source says canonical, or else the first prefix of it.
Says(lines, source, target, canonical) ==
    \E i \in DOMAIN lines :
        /\ Applies(lines[i], source, target)
        /\ \A j \in DOMAIN lines :
            /\ /\ lines[j].prefix = lines[i].prefix /\ lines[j].source = lines[i].source
               /\ lines[j].apparent = target
               => lines[j].canonical = canonical
            /\ lines[i].prefix /\ Applies(lines[j], source, target)
               => lines[j].prefix /\ i <= j

Provides(tree, place, b) ==
    LET lines == MappingIn(tree, place \o RepoMappingPath)
    IN  /\ lines \in Seq([source : STRING, prefix : BOOLEAN,
                          apparent : STRING, canonical : STRING])
        /\ \A a \in Asks[b] :
            LET source == IF Head(a.caller) = "_main" THEN "" ELSE Head(a.caller)
            IN  /\ Opens(tree, place \o a.file)
                /\ \/ /\ a.file = a.path
                      /\ \/ Tail(a.path) = <<>>
                         \/ \A i \in DOMAIN lines : ~Applies(lines[i], source, Head(a.path))
                   \/ /\ a.file = <<Head(a.file)>> \o Tail(a.path) /\ Tail(a.path) # <<>>
                      /\ Says(lines, source, Head(a.path), Head(a.file))

\* What the provers do not know of strings.
ASSUME StringsAssumption == "" \in STRING /\ "_repo_mapping" \in STRING

\* A tree that has stage 2 of a binary was made with the binary as a data dependency;
\* stage 1 relies on it.
ASSUME RunfilesAssumption ==
    /\ None \notin STRING \cup ({"main", "preamble"} \X Zipapps)
                   \cup ({"temp"} \X Nat) \cup ({"tree"} \X Binaries)
    /\ <<>> \notin TreeArtifacts
    /\ TreeArtifacts \subseteq Seq(STRING)
    /\ \A c \in Binaries : DOMAIN Deployed[c] \subseteq Seq(STRING) \ {<<>>}
    /\ \A b \in Programs : \A a \in Asks[b] :
        {a.caller, a.path, a.file} \subseteq Seq(STRING) \ {<<>>}
    /\ \A b \in Zipapps, how \in {"main", "preamble"} :
        Provides(FullTree(b, how), <<"runfiles">>, b)
    /\ \A b \in Binaries :
        /\ Opens(Deployed[b], <<>> \o Stage2[b])
        /\ \A c \in Binaries : Opens(Deployed[c], <<>> \o Stage2[b])
                => Provides(Deployed[c], <<>>, b)
        /\ \A c \in Zipapps, how \in {"main", "preamble"} :
            LET tree == FullTree(c, how)
            IN  Opens(tree, Runfile(Stage2[b])) => Provides(tree, <<"runfiles">>, b)

-----------------------------------------------------------------------------
(* A zipapp extracts itself                                                 *)

\* tempfile.mkdtemp, mktemp -d: a name that nobody has.
TempRoot(p) == <<"temp", proc[p].launch>>
RootOf(p) ==
    IF proc[p].env.extractRoot THEN SharedRoot[proc[p].how][proc[p].prog] ELSE TempRoot(p)

\* __main__.py always extracts; the preamble does not when there is already a
\* __main__.py, the first file that an extraction writes.
Open(p) ==
    LET root == RootOf(p)
        fresh == root \notin DOMAIN fs
        there == ~fresh /\ MainPy \in DOMAIN fs[root]
    IN  /\ proc[p].pc = "open"
        /\ fs' = IF fresh THEN With(fs, root, <<>>) ELSE fs
        /\ Set(p, [proc[p] EXCEPT !.root = root, !.left = DOMAIN Archive[proc[p].prog],
                                  !.pc = CASE proc[p].how = "main" -> "look"
                                           [] proc[p].how # "main" /\ there -> "check"
                                           [] OTHER -> "unzip"])
        /\ Enters(p, root)
        /\ UNCHANGED <<cut, launches, kills>>

EntryPath(p) == FirstOf(proc[p].left)
Node(p) == Archive[proc[p].prog][EntryPath(p)]
\* Where the code goes after an entry.
Advance(p, first, last) ==
    Set(p, [proc[p] EXCEPT !.left = @ \ {EntryPath(p)},
                           !.pc = IF proc[p].left = {EntryPath(p)} THEN last ELSE first])

\* Mutant: extracts over what is there, as ZipFile.extractall would.
LookWithoutUnlink(p) ==
    /\ proc[p].pc = "look" /\ Goto(p, "write")
    /\ UNCHANGED <<fs, cut, disturbed, launches, kills>>

\* if os.path.lexists(file_path) and not os.path.isdir(file_path)
Look(p) ==
    /\ proc[p].pc = "look"
    /\ Goto(p, IF EntryPath(p) \in DOMAIN fs[proc[p].root] THEN "unlink" ELSE "write")
    /\ UNCHANGED <<fs, cut, disturbed, launches, kills>>

\* os.unlink; when the file is gone by now, so is chmod's.
Unlink(p) ==
    /\ proc[p].pc = "unlink"
    /\ IF EntryPath(p) \in DOMAIN fs[proc[p].root]
       THEN Drop(proc[p].root, EntryPath(p)) /\ Goto(p, "write")
       ELSE fs' = fs /\ End(p)
    /\ Disturb(p, proc[p].root)
    /\ UNCHANGED <<cut, launches, kills>>

\* zf.extract opens the path for writing, and through a link when there is one.
\* A link is first written as a file that holds its target.
Write(p) ==
    LET root == proc[p].root
        path == EntryPath(p)
        at == Through(fs[root], path)
    IN  /\ proc[p].pc = "write"
        /\ Put(root, at, [Node(p) EXCEPT !.kind = "file"])
        /\ IF Node(p).kind = "link"
           THEN Goto(p, "replace") ELSE Advance(p, "look", "check")
        /\ Disturb(p, root)
        /\ cut' = IF at \in DOMAIN Archive[proc[p].prog] THEN cut ELSE cut \cup {root}
        /\ UNCHANGED <<launches, kills>>

\* Reads the target from the file, removes it and makes the link.
Replace(p) ==
    LET root == proc[p].root
        path == EntryPath(p)
        tree == fs[root]
        at == Through(tree, path)
    IN  /\ proc[p].pc = "replace"
        /\ IF at \in DOMAIN tree
           THEN Put(root, path, Link(tree[at].to)) /\ Advance(p, "look", "check")
           ELSE fs' = fs /\ End(p)
        /\ Disturb(p, root)
        /\ UNCHANGED <<cut, launches, kills>>

\* One file of unzip -q, which leaves alone what is there.
Unzip(p) ==
    LET root == proc[p].root
    IN  /\ proc[p].pc = "unzip"
        /\ IF EntryPath(p) \in DOMAIN fs[root] THEN fs' = fs
           ELSE Put(root, EntryPath(p), Node(p))
        /\ Advance(p, "unzip", "check")
        /\ Disturb(p, root)
        /\ UNCHANGED <<cut, launches, kills>>

-----------------------------------------------------------------------------
(* Starting stage 2; before, finish_venv_setup makes what no archive holds    *)

\* Both __main__.py and the preamble start stage 2 from the directory, wherever
\* it came from; it must be there.  The preamble has no venv to finish.
Start(p) ==
    LET root == proc[p].root
    IN  /\ proc[p].pc = "check"
        /\ IF Has(root, Stage2[proc[p].prog])
           THEN Set(p, [proc[p] EXCEPT
                            !.pc = IF proc[p].how = "main" THEN "venv" ELSE "stage2",
                            !.env = [@ EXCEPT !.dir = root]])
           ELSE End(p)
        /\ UNCHANGED <<fs, cut, disturbed, launches, kills>>

\* Every zipapp here has a venv, and the interpreter that a link leads to exists:
\* os.path.exists is as good as os.path.lexists, and no dangling link is removed.
LookForPython(p) ==
    /\ proc[p].pc = "venv"
    /\ Goto(p, IF Runfile(VenvPython) \in DOMAIN fs[proc[p].root] THEN "cfg" ELSE "link")
    /\ UNCHANGED <<fs, cut, disturbed, launches, kills>>

\* os.symlink fails when another process was first.
LinkPython(p) ==
    LET root == proc[p].root
    IN  /\ proc[p].pc = "link"
        /\ IF Runfile(VenvPython) \in DOMAIN fs[root]
           THEN fs' = fs /\ End(p)
           ELSE Put(root, Runfile(VenvPython), Link(PythonActual)) /\ Goto(p, "cfg")
        /\ Disturb(p, root)
        /\ UNCHANGED <<cut, launches, kills>>

\* Opening pyvenv.cfg for writing makes it; what is written comes with the close.
OpenPyvenvCfg(p) ==
    LET root == proc[p].root
    IN  /\ proc[p].pc = "cfg"
        /\ IF Runfile(PyvenvCfg) \in DOMAIN fs[root]
           THEN fs' = fs /\ Goto(p, "stage2") /\ UNCHANGED disturbed
           ELSE /\ Put(root, Runfile(PyvenvCfg), File(""))
                /\ Goto(p, "home")
                /\ Disturb(p, root)
        /\ UNCHANGED <<cut, launches, kills>>

WriteHome(p) ==
    /\ proc[p].pc = "home"
    /\ Put(proc[p].root, Runfile(PyvenvCfg), File("home"))
    /\ Goto(p, "stage2")
    /\ Disturb(p, proc[p].root)
    /\ UNCHANGED <<cut, launches, kills>>

-----------------------------------------------------------------------------
(* Stages 1 and 2                                                           *)

\* The runfiles directory that the environment names.
NamedRoot(env) == IF env.dir # None THEN env.dir ELSE env.manifest

\* Mutant: trusts the environment.
FromEnvUnchecked(env, path) == NamedRoot(env)

\* ... if it holds path.
FromEnv(env, path) ==
    LET root == NamedRoot(env)
    IN  IF root # None /\ Has(root, path) THEN root ELSE None

\* Of a binary: RUNFILES_DIR et al. may be those of an outer binary.
Stage1(p) ==
    LET b == proc[p].prog
        found == FromEnv(proc[p].env, Stage2[b])
        root == IF found # None THEN found ELSE TreeRoot(b)
    IN  /\ proc[p].pc = "stage1"
        /\ Set(p, [proc[p] EXCEPT !.pc = "stage2", !.root = root,
                                  !.env = [@ EXCEPT !.dir = root]])
        /\ UNCHANGED <<fs, cut, disturbed, launches, kills>>

\* _setup_sys_path, when the interpreter starts, with the root that holds the
\* module itself; otherwise the root it was imported from.
SetupSysPath(p) ==
    LET b == proc[p].prog
        found == FromEnv(proc[p].env, SelfPath[b])
        root == IF found # None THEN found ELSE proc[p].root
    IN  {<<root, dir>> : dir \in ToSet(Imports[b]) \cup {<<WorkspaceName>>}}

\* Stage 2 looks for the main file; to start a module it looks for "", which is
\* in any directory that exists.
MainFromEnv(env, b) ==
    LET root == NamedRoot(env)
        exists == \E path \in DOMAIN Tree(root) : IsPrefix(Place(root), path)
    IN  IF b \notin Modules THEN FromEnv(env, Main[b])
        ELSE IF root # None /\ exists THEN root ELSE None

\* find_runfiles_root of stage 2: from the environment, or else from argv[0],
\* which only tells in a directory named *.runfiles.
FindRunfilesRoot(env, b, root) ==
    LET found == MainFromEnv(env, b)
    IN  CASE found # None -> found
          [] found = None /\ root[1] = "tree" -> root
          [] OTHER -> None

\* ... which clears the variables when they were not right, and runfiles_envvar,
\* which sets one if none is set.
RunfilesEnvvar(env, b, root) ==
    LET kept == IF MainFromEnv(env, b) # None THEN env
                ELSE [env EXCEPT !.dir = None, !.manifest = None]
    IN  CASE kept.manifest # None \/ kept.dir # None -> kept
          [] OTHER -> IF root[1] = "tree" /\ root[2] \in HasManifest
                      THEN [kept EXCEPT !.manifest = root] ELSE [kept EXCEPT !.dir = root]

RemoveTemp(p) ==
    fs' = [root \in DOMAIN fs \ {TempRoot(p)} |-> fs[root]]

\* The main file is asserted to be in own, a module is imported.
MainFound(p, own) ==
    LET b == proc[p].prog
        roots == IF b \in Modules THEN {dir[1] : dir \in SetupSysPath(p)} ELSE {own}
    IN  \E root \in roots : Has(root, Main[b])

RunStage2(p) ==
    LET b == proc[p].prog
        env == proc[p].env
        own == FindRunfilesRoot(env, b, proc[p].root)
    IN  /\ proc[p].pc = "stage2"
        /\ IF own # None /\ MainFound(p, own)
           THEN /\ Set(p, [proc[p] EXCEPT !.pc = "run", !.own = own,
                                          !.sysPath = SetupSysPath(p),
                                          !.env = RunfilesEnvvar(env, b, own)])
                /\ Enters(p, own)
                /\ UNCHANGED fs
           ELSE /\ End(p)
                /\ RemoveTemp(p)
                /\ Disturb(p, TempRoot(p))
        /\ UNCHANGED <<cut, launches, kills>>

\* The program ends, whether or not those it started have; a temporary directory
\* goes with it.
Finish(p) ==
    /\ proc[p].pc = "run"
    /\ End(p)
    /\ RemoveTemp(p)
    /\ Disturb(p, TempRoot(p))
    /\ UNCHANGED <<cut, launches, kills>>

\* SIGKILL.  Extraction by __main__.py is repeated by the next launch; unzip is
\* not once __main__.py is there, nor is pyvenv.cfg once it was opened.
Kill(p) ==
    /\ proc[p].pc # "unused" /\ kills < MaxKills
    /\ End(p)
    /\ kills' = kills + 1
    /\ cut' = IF \/ proc[p].pc = "home"
                 \/ proc[p].pc = "unzip" /\ proc[p].left # DOMAIN Archive[proc[p].prog]
              THEN cut \cup {proc[p].root} ELSE cut
    /\ UNCHANGED <<fs, disturbed, launches>>

Next ==
    \E p \in Processes :
        \/ UserLaunch(p) \/ \E q \in Processes : Spawn(p, q)
        \/ Open(p) \/ Look(p) \/ Unlink(p) \/ Write(p) \/ Replace(p) \/ Unzip(p)
        \/ LookForPython(p) \/ LinkPython(p) \/ OpenPyvenvCfg(p) \/ WriteHome(p)
        \/ Start(p) \/ Stage1(p) \/ RunStage2(p) \/ Finish(p) \/ Kill(p)

Spec == Init /\ [][Next]_vars

-----------------------------------------------------------------------------

\* A zipapp runs with exactly the files that it was made from, whatever ran,
\* failed or was killed in its directory before; except while another process
\* works there, where unzip or the writing of pyvenv.cfg was cut short, and in a
\* directory that it shares with a build of equal hash and other paths.
WholeTree ==
    \A p \in Processes :
        /\ proc[p].pc = "run" /\ proc[p].prog \in Zipapps
        /\ p \notin disturbed /\ proc[p].root \notin cut \cup Ambiguous
        => fs[proc[p].root] = FullTree(proc[p].prog, proc[p].how)

\* Main, import path and every runfile that the code of a program asks for come
\* from one tree, which holds them all, whatever runfiles variables the program
\* inherited; unless it was given the RUNFILES_MANIFEST_FILE of another tree,
\* which neither a zipapp nor stage 1 clears when they set RUNFILES_DIR.  A tree
\* that was extracted is there as long as a zipapp runs undisturbed in it, and
\* is that of the zipapp where WholeTree says so.
OwnRunfiles ==
    \A p \in Processes :
        LET own == proc[p].own
            r == RunfilesOf(p)
            Asked(a) == PathStr(Join(RootPath(r, <<own, a.caller>>), a.path))
            Kept == \/ own[1] = "tree"
                    \/ /\ own \notin cut \cup Ambiguous
                       /\ \E q \in Processes \ disturbed :
                            /\ proc[q].pc = "run" /\ proc[q].prog \in Zipapps
                            /\ proc[q].root = own
        IN  proc[p].pc = "run" /\ p \notin disturbed /\ Kept
            /\ proc[p].env.manifest \in {None, own}
            => /\ \A a \in Asks[proc[p].prog] :
                    Asked(a) = <<own, a.file>> /\ Has(own, a.file)
               /\ \A dir \in proc[p].sysPath : dir[1] = own
=============================================================================

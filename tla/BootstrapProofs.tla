---------------------------- MODULE BootstrapProofs ----------------------------
(* Proofs about Bootstrap, for any programs, archives, processes and bounds.  *)
EXTENDS Bootstrap, TLAPS, WellFoundedInduction, SequenceTheorems

-----------------------------------------------------------------------------
(* Archives and directories                                                 *)

\* Every non-empty set of natural numbers has a least element.
LEMMA NatMinimum ==
    ASSUME NEW S \in SUBSET Nat, S # {}
    PROVE  Min(S) \in S /\ \A n \in S : Min(S) <= n
<1>1. PICK m \in S : \A n \in S : ~ (<<n, m>> \in OpToRel(<, Nat))
  BY NatLessThanWellFounded, WFMin
<1>2. \A n \in S : ~ (n < m)
  BY <1>1 DEF OpToRel
<1>3. m \in S /\ \A n \in S : m <= n
  BY <1>2
<1>. QED BY <1>3 DEF Min

IsFcn(f) == f = [x \in DOMAIN f |-> f[x]]

LEMMA FirstOfPaths ==
    ASSUME NEW paths, paths # {}, paths \subseteq ToSet(PathOrder)
    PROVE  FirstOf(paths) \in paths
<1>. DEFINE places == {i \in DOMAIN PathOrder : PathOrder[i] \in paths}
<1>1. DOMAIN PathOrder \subseteq Nat
  BY PathOrderAssumption
<1>2. places \in SUBSET Nat /\ places # {}
  BY <1>1 DEF ToSet
<1>3. Min(places) \in places
  BY <1>2, NatMinimum
<1>. QED BY <1>3 DEF FirstOf

\* A file or a link, and a link says no more than where it leads.
Plain(node) ==
    /\ node.kind \in {"file", "link"}
    /\ node.kind = "link" => node = Link(node.to)
    /\ node.kind = "file" => [node EXCEPT !.kind = "file"] = node
    /\ [node EXCEPT !.kind = "file"].kind = "file"
    /\ [node EXCEPT !.kind = "file"].to = node.to

LEMMA NodesArePlain == ASSUME NEW entry PROVE Plain(NodeOf(entry))
<1>1. ASSUME NEW d PROVE Plain(File(d))
  BY DEF Plain, File
<1>2. ASSUME NEW d PROVE Plain(Link(d))
  BY DEF Plain, Link
<1>. QED BY <1>1, <1>2 DEF NodeOf

LEMMA ArchiveFacts ==
    ASSUME NEW b \in Zipapps
    PROVE  /\ DOMAIN Archive[b] = {ParseEntry(l).path : l \in ToSet(Lines[b])}
           /\ IsFcn(Archive[b])
           /\ MainPy \in DOMAIN Archive[b]
           /\ \A path \in DOMAIN Archive[b] : Plain(Archive[b][path])
<1>. DEFINE entries == ReadManifest(Lines[b])
<1>1. Archive[b] = [path \in {entries[i].path : i \in DOMAIN entries} |->
                        WriteEntry(entries, path)]
  BY DEF Archive, CreateZip
<1>2. {entries[i].path : i \in DOMAIN entries}
        = {ParseEntry(l).path : l \in ToSet(Lines[b])}
  BY DEF ReadManifest, ToSet
<1>3. MainPy \in DOMAIN Archive[b]
  <2>1. PICK l \in ToSet(Lines[b]) : l.type = "regular" /\ l.path = MainPy
    BY LinesAssumption
  <2>2. ParseEntry(l).path = MainPy
    BY <2>1 DEF ParseEntry, ZipPath
  <2>. QED BY <1>1, <1>2, <2>2
<1>4. \A path \in DOMAIN Archive[b] : Plain(Archive[b][path])
  BY <1>1, NodesArePlain DEF WriteEntry
<1>5. IsFcn(Archive[b])
  BY <1>1 DEF IsFcn
<1>. QED BY <1>1, <1>2, <1>3, <1>4, <1>5

LEMMA SharedFacts ==
    ASSUME NEW b \in Zipapps, NEW how \in {"main", "preamble"}
    PROVE  /\ SharedRoot[how][b][1] = how
           /\ SharedRoot[how][b] \in {"main", "preamble"} \X Zipapps
           /\ \A c \in Zipapps : SharedRoot[how][b] = SharedRoot[how][c] =>
                  /\ how = "main" /\ SharedRoot[how][b] \notin Ambiguous
                        => DOMAIN Archive[b] = DOMAIN Archive[c]
                  /\ how = "preamble" => Archive[b] = Archive[c]
<1>. DEFINE First(x) == CHOOSE c \in Zipapps : HashOf(c, how) = HashOf(x, how)
<1>1. \A x \in Zipapps : SharedRoot[how][x] = <<how, First(x)>>
  BY DEF SharedRoot
<1>2. \A x \in Zipapps : First(x) \in Zipapps /\ HashOf(First(x), how) = HashOf(x, how)
  OBVIOUS
<1>. HIDE DEF First
<1>3. ASSUME NEW c \in Zipapps, SharedRoot[how][b] = SharedRoot[how][c]
      PROVE  HashOf(b, how) = HashOf(c, how)
  BY <1>1, <1>2, <1>3
<1>4. ASSUME NEW c \in Zipapps, HashOf(b, how) = HashOf(c, how)
      PROVE  /\ how = "main" /\ SharedRoot[how][b] \notin Ambiguous
                    => DOMAIN Archive[b] = DOMAIN Archive[c]
             /\ how = "preamble" => Archive[b] = Archive[c]
  <2>1. how = "main" /\ DOMAIN Archive[b] # DOMAIN Archive[c]
            => SharedRoot["main"][b] \in Ambiguous
    BY <1>4 DEF Ambiguous
  <2>2. how = "preamble" => Archive[b] = Archive[c]
    BY <1>4 DEF HashOf, ZipHash, Archive
  <2>. QED BY <2>1, <2>2
<1>5. SharedRoot[how][b] = <<how, First(b)>> /\ First(b) \in Zipapps
  BY <1>1, <1>2
<1>6. /\ SharedRoot[how][b][1] = how
      /\ SharedRoot[how][b] \in {"main", "preamble"} \X Zipapps
  BY <1>5
<1>. QED BY <1>3, <1>4, <1>6

-----------------------------------------------------------------------------
(* Types                                                                    *)

SharedRoots == {"main", "preamble"} \X Zipapps
Roots == SharedRoots \cup ({"temp"} \X Nat) \cup ({"tree"} \X Binaries)
Trees == {"tree"} \X Binaries
Envs == [dir : Roots \cup {None}, manifest : Trees \cup {None}, extractRoot : BOOLEAN]
Paths == UNION {DOMAIN Archive[b] : b \in Zipapps}
Dirs == (UNION {ToSet(Imports[b]) : b \in Programs}) \cup {<<WorkspaceName>>}

Setup == {"venv", "link", "cfg", "home"}
Copying == {"look", "unlink", "write", "replace"}
PCs == {"unused", "open", "stage1", "unzip", "check", "stage2", "run"}
       \cup Copying \cup Setup
Hows == {"tree", "main", "preamble"}
States == [pc : PCs, launch : Nat, prog : Programs \cup {None}, how : Hows, env : Envs,
           root : Roots \cup {None}, left : SUBSET Paths, own : Roots \cup {None},
           sysPath : SUBSET ((Roots \cup {None}) \X Dirs)]

FsOK == IsFcn(fs) /\ DOMAIN fs \subseteq Roots /\ \A root \in DOMAIN fs : IsFcn(fs[root])
TypeOK ==
    /\ FsOK
    /\ proc \in [Processes -> States]
    /\ cut \subseteq Roots /\ disturbed \subseteq Processes
    /\ launches \in Nat /\ kills \in Nat

-----------------------------------------------------------------------------
(* Who is where                                                             *)

\* A zipapp that has its directory.
InTree(p) == proc[p].prog \in Zipapps /\ proc[p].pc \notin {"unused", "open"}

Stages(how) ==
    CASE how = "tree" -> {"stage1", "stage2", "run"}
      [] how = "main" -> {"open", "check", "stage2", "run"} \cup Copying \cup Setup
      [] how = "preamble" -> {"open", "unzip", "check", "stage2", "run"}

Located(p) ==
    IF proc[p].pc = "unused" THEN proc[p] = Unused
    ELSE /\ proc[p].prog \in Programs
         /\ proc[p].prog \in Binaries <=> proc[p].how = "tree"
         /\ proc[p].pc \in Stages(proc[p].how)
         /\ proc[p].launch \in 1..launches
         /\ proc[p].pc \in {"open", "stage1"} => proc[p].root = None
         /\ proc[p].pc # "run" => proc[p].own = None
         /\ InTree(p) => proc[p].root = RootOf(p) /\ proc[p].root \in DOMAIN fs
         /\ proc[p].pc \in {"stage2", "run"} => proc[p].root \in Roots
         /\ proc[p].pc \in {"stage2"} \cup Setup => proc[p].env.dir = proc[p].root
         /\ proc[p].pc = "run" => /\ proc[p].own # None
                                  /\ \/ proc[p].env.dir = proc[p].own
                                     \/ proc[p].env.manifest = proc[p].own

\* The names of temporary directories are those of launches.
PlaceInv ==
    /\ \A p \in Processes : Located(p)
    /\ \A p, q \in Processes :
        proc[p].pc # "unused" /\ proc[p].launch = proc[q].launch => p = q
    /\ \A root \in DOMAIN fs : root[1] = "temp" =>
        /\ root[2] <= launches
        /\ \A p \in Processes : proc[p].pc = "open" => proc[p].launch # root[2]

-----------------------------------------------------------------------------
(* What is in a directory                                                   *)

\* The directory root is one that b extracts to in the way how.
Uses(b, how, root) ==
    \/ root = SharedRoot[how][b]
    \/ \E p \in Processes : /\ InTree(p) /\ proc[p].root = root
                            /\ proc[p].prog = b /\ proc[p].how = how

AtHome(root) == {o \in Processes : proc[o].pc = "home" /\ proc[o].root = root}
\* In the middle of an extraction by unzip that has written something.
Unzipping(root) ==
    {o \in Processes : /\ proc[o].pc = "unzip" /\ proc[o].root = root
                       /\ proc[o].left # DOMAIN Archive[proc[o].prog]}

MainTree(b, tree, root) ==
    /\ DOMAIN tree \subseteq DOMAIN FullTree(b, "main")
    /\ Runfile(VenvPython) \in DOMAIN tree \ DOMAIN Archive[b]
        => tree[Runfile(VenvPython)] = Link(PythonActual)
    /\ Runfile(PyvenvCfg) \in DOMAIN tree \ DOMAIN Archive[b]
        => tree[Runfile(PyvenvCfg)] = File("home") \/ AtHome(root) # {}
PreambleTree(b, tree, root) ==
    /\ \A path \in DOMAIN tree : path \in DOMAIN Archive[b] /\ tree[path] = Archive[b][path]
    /\ DOMAIN tree \in {{}, DOMAIN Archive[b]} \/ Unzipping(root) # {}

TreeOK(b, root) ==
    /\ Uses(b, "main", root) /\ root \notin Ambiguous => MainTree(b, fs[root], root)
    /\ Uses(b, "preamble", root) => PreambleTree(b, fs[root], root)
TreeInv == \A b \in Zipapps, root \in DOMAIN fs \ cut : TreeOK(b, root)

-----------------------------------------------------------------------------
(* What a program that nobody disturbs knows of its directory               *)

Extracted(p, paths) ==
    \A path \in paths : /\ path \in DOMAIN fs[proc[p].root]
                        /\ fs[proc[p].root][path] = Archive[proc[p].prog][path]

MainOwn(p) ==
    LET tree == fs[proc[p].root]
        archive == Archive[proc[p].prog]
        pc == proc[p].pc
    IN  /\ Extracted(p, IF pc \in Copying THEN DOMAIN archive \ proc[p].left
                        ELSE DOMAIN archive)
        /\ pc = "write" => EntryPath(p) \notin DOMAIN tree
        /\ pc = "replace" => /\ EntryPath(p) \in DOMAIN tree /\ Node(p).kind = "link"
                             /\ tree[EntryPath(p)] = [Node(p) EXCEPT !.kind = "file"]
        /\ pc \in {"cfg", "home", "stage2", "run"} => Runfile(VenvPython) \in DOMAIN tree
        /\ pc \in {"home", "stage2", "run"} => Runfile(PyvenvCfg) \in DOMAIN tree
        /\ pc = "home" => Runfile(PyvenvCfg) \notin DOMAIN archive
        /\ AtHome(proc[p].root) \subseteq {p}

PreambleOwn(p) ==
    proc[p].pc \in {"check", "stage2", "run"} /\ proc[p].root \notin cut
    => DOMAIN Archive[proc[p].prog] \subseteq DOMAIN fs[proc[p].root]

LeftInv(p) ==
    /\ proc[p].pc \in Copying \cup {"unzip"}
        => proc[p].left # {} /\ proc[p].left \subseteq DOMAIN Archive[proc[p].prog]
    /\ proc[p].pc = "unzip"
        => DOMAIN Archive[proc[p].prog] \ proc[p].left \subseteq DOMAIN fs[proc[p].root]

OwnOK(p) ==
    /\ LeftInv(p)
    /\ InTree(p) /\ p \notin disturbed /\ proc[p].how = "main" => MainOwn(p)
    /\ InTree(p) /\ p \notin disturbed /\ proc[p].how = "preamble" => PreambleOwn(p)
OwnInv == \A p \in Processes : OwnOK(p)

TreesInv == TypeOK /\ PlaceInv /\ TreeInv /\ OwnInv

-----------------------------------------------------------------------------
(* What the steps do to processes                                           *)

Others(p) == \A q \in Processes \ {p} : proc'[q] = proc[q]
Typed == proc' \in [Processes -> States]

\* All but the program counter and what is left to extract.
SameButPlace(p) ==
    /\ proc'[p].prog = proc[p].prog /\ proc'[p].how = proc[p].how
    /\ proc'[p].launch = proc[p].launch /\ proc'[p].root = proc[p].root
    /\ proc'[p].env = proc[p].env /\ proc'[p].own = proc[p].own

LEMMA OneChanges ==
    ASSUME TypeOK, NEW p \in Processes, NEW new \in States, Set(p, new)
    PROVE  Typed /\ Others(p) /\ proc'[p] = new
<1>1. proc \in [Processes -> States]
  BY DEF TypeOK
<1>. HIDE DEF States
<1>. QED BY <1>1 DEF Set, Typed, Others

LEMMA UnusedIsTyped == Unused \in States
  BY DEF Unused, States, PCs, Hows, Envs, NoVars

LEMMA EndFacts ==
    ASSUME TypeOK, NEW p \in Processes, End(p)
    PROVE  Typed /\ Others(p) /\ proc'[p] = Unused
  BY UnusedIsTyped, OneChanges DEF End

LEMMA GotoFacts ==
    ASSUME TypeOK, NEW p \in Processes, NEW pc \in PCs, Goto(p, pc)
    PROVE  /\ Typed /\ Others(p) /\ SameButPlace(p)
           /\ proc'[p].left = proc[p].left /\ proc'[p].pc = pc
<1>. DEFINE new == [proc[p] EXCEPT !.pc = pc]
<1>1. proc[p] \in States
  BY DEF TypeOK
<1>2. new \in States /\ new.pc = pc /\ new.left = proc[p].left
      /\ new.prog = proc[p].prog /\ new.how = proc[p].how /\ new.launch = proc[p].launch
      /\ new.root = proc[p].root /\ new.env = proc[p].env /\ new.own = proc[p].own
  BY <1>1 DEF States
<1>3. Typed /\ Others(p) /\ proc'[p] = new
  BY <1>2, OneChanges DEF Goto
<1>. QED BY <1>2, <1>3 DEF SameButPlace

LEMMA AdvanceFacts ==
    ASSUME TypeOK, NEW p \in Processes, NEW first \in PCs, NEW last \in PCs,
           Advance(p, first, last)
    PROVE  /\ Typed /\ Others(p) /\ SameButPlace(p)
           /\ proc'[p].left = proc[p].left \ {EntryPath(p)}
           /\ proc'[p].pc = IF proc[p].left = {EntryPath(p)} THEN last ELSE first
<1>. DEFINE pc == IF proc[p].left = {EntryPath(p)} THEN last ELSE first
            new == [proc[p] EXCEPT !.left = @ \ {EntryPath(p)}, !.pc = pc]
<1>1. proc[p] \in States
  BY DEF TypeOK
<1>2. new \in States /\ new.pc = pc /\ new.left = proc[p].left \ {EntryPath(p)}
      /\ new.prog = proc[p].prog /\ new.how = proc[p].how /\ new.launch = proc[p].launch
      /\ new.root = proc[p].root /\ new.env = proc[p].env /\ new.own = proc[p].own
  BY <1>1 DEF States
<1>3. Typed /\ Others(p) /\ proc'[p] = new
  BY <1>2, OneChanges DEF Advance
<1>. QED BY <1>2, <1>3 DEF SameButPlace

-----------------------------------------------------------------------------
(* What the steps do to directories                                         *)

\* Only root changes, from tree to new.
Becomes(root, new) ==
    /\ FsOK' /\ DOMAIN fs' = DOMAIN fs
    /\ fs'[root] = new
    /\ \A other \in DOMAIN fs \ {root} : fs'[other] = fs[other]

LEMMA WithFacts ==
    ASSUME NEW f, NEW x, NEW y
    PROVE  /\ DOMAIN With(f, x, y) = DOMAIN f \cup {x}
           /\ IsFcn(With(f, x, y))
           /\ With(f, x, y)[x] = y
           /\ \A z \in DOMAIN f \ {x} : With(f, x, y)[z] = f[z]
  BY DEF With, IsFcn

LEMMA ChangeFacts ==
    ASSUME FsOK, NEW root \in DOMAIN fs, NEW new,
           IsFcn(new),
           fs' = [fs EXCEPT ![root] = new]
    PROVE  Becomes(root, new)
<1>1. /\ DOMAIN fs' = DOMAIN fs /\ fs'[root] = new
      /\ \A other \in DOMAIN fs \ {root} : fs'[other] = fs[other]
  OBVIOUS
<1>2. IsFcn(fs')
  BY DEF IsFcn
<1>3. \A r \in DOMAIN fs' : IsFcn(fs'[r])
  BY <1>1 DEF FsOK
<1>. QED BY <1>1, <1>2, <1>3 DEF FsOK, Becomes

LEMMA PutFacts ==
    ASSUME FsOK, NEW root \in DOMAIN fs, NEW path, NEW node, Put(root, path, node)
    PROVE  Becomes(root, With(fs[root], path, node))
<1>. DEFINE new == With(fs[root], path, node)
<1>1. IsFcn(new)
  BY WithFacts
<1>2. fs' = [fs EXCEPT ![root] = new]
  BY DEF Put
<1>. HIDE DEF new
<1>3. Becomes(root, new)
  BY <1>1, <1>2, ChangeFacts
<1>. QED BY <1>3 DEF new

Without(tree, path) == [q \in DOMAIN tree \ {path} |-> tree[q]]
LEMMA DropFacts ==
    ASSUME FsOK, NEW root \in DOMAIN fs, NEW path, Drop(root, path)
    PROVE  Becomes(root, Without(fs[root], path))
<1>. DEFINE new == Without(fs[root], path)
<1>1. IsFcn(new)
  BY DEF Without, IsFcn
<1>2. fs' = [fs EXCEPT ![root] = new]
  BY DEF Drop, Without
<1>. HIDE DEF new
<1>3. Becomes(root, new)
  BY <1>1, <1>2, ChangeFacts
<1>. QED BY <1>3 DEF new

LEMMA RemoveFacts ==
    ASSUME FsOK, NEW p, RemoveTemp(p)
    PROVE  /\ FsOK' /\ DOMAIN fs' = DOMAIN fs \ {TempRoot(p)}
           /\ \A root \in DOMAIN fs' : fs'[root] = fs[root]
  BY DEF FsOK, RemoveTemp, IsFcn

-----------------------------------------------------------------------------
(* Who shares a directory                                                   *)

LEMMA RootFacts ==
    ASSUME TypeOK, NEW p \in Processes, Located(p),
           proc[p].pc # "unused", proc[p].prog \in Zipapps
    PROVE  /\ RootOf(p) \in Roots
           /\ RootOf(p) = TempRoot(p) \/ RootOf(p) = SharedRoot[proc[p].how][proc[p].prog]
           /\ RootOf(p)[1] \in {"temp", proc[p].how}
           /\ RootOf(p)[1] = "temp" => RootOf(p) = TempRoot(p)
           /\ proc[p].how \in {"main", "preamble"}
<1>1. proc[p].how \in {"main", "preamble"} /\ proc[p].launch \in Nat
  BY ProgramsAssumption DEF TypeOK, States, Hows, Located
<1>2. SharedRoot[proc[p].how][proc[p].prog] \in Roots
      /\ SharedRoot[proc[p].how][proc[p].prog][1] = proc[p].how
  BY <1>1, SharedFacts DEF Roots, SharedRoots
<1>3. TempRoot(p) \in Roots /\ TempRoot(p)[1] = "temp"
  BY <1>1 DEF Roots, TempRoot
<1>. QED BY <1>1, <1>2, <1>3 DEF RootOf

\* Nobody has the temporary directory of another.
LEMMA TempIsOwn ==
    ASSUME TypeOK, PlaceInv, NEW p \in Processes, proc[p].pc # "unused",
           NEW q \in Processes \ {p}, InTree(q)
    PROVE  proc[q].root # TempRoot(p)
<1>1. proc[q].root = RootOf(q) /\ Located(q) /\ proc[q].pc # "unused"
  BY DEF PlaceInv, Located, InTree
<1>2. TempRoot(p)[1] = "temp" /\ TempRoot(p)[2] = proc[p].launch
      /\ TempRoot(q)[2] = proc[q].launch
  BY DEF TempRoot
<1>3. proc[q].launch # proc[p].launch
  BY DEF PlaceInv
<1>. QED BY <1>1, <1>2, <1>3, RootFacts DEF InTree

\* All that extract to a directory extract the same paths to it, or it is ambiguous.
LEMMA SameTree ==
    ASSUME TypeOK, PlaceInv, NEW p \in Processes, InTree(p),
           NEW b \in Zipapps, NEW how \in {"main", "preamble"}, Uses(b, how, proc[p].root)
    PROVE  /\ how = proc[p].how
           /\ proc[p].root \notin Ambiguous
                => DOMAIN Archive[b] = DOMAIN Archive[proc[p].prog]
           /\ how = "preamble" => Archive[b] = Archive[proc[p].prog]
<1>1. /\ proc[p].root = RootOf(p) /\ Located(p)
      /\ proc[p].pc # "unused" /\ proc[p].prog \in Zipapps
  BY DEF PlaceInv, Located, InTree
<1>2. CASE proc[p].root = SharedRoot[how][b]
  <2>1. SharedRoot[how][b][1] = how
    BY SharedFacts
  <2>2. TempRoot(p)[1] = "temp"
    BY DEF TempRoot
  <2>3. how = proc[p].how /\ proc[p].root = SharedRoot[proc[p].how][proc[p].prog]
    BY <1>1, <1>2, <2>1, <2>2, RootFacts
  <2>. QED BY <1>1, <1>2, <2>3, SharedFacts
<1>3. CASE \E q \in Processes : /\ InTree(q) /\ proc[q].root = proc[p].root
                               /\ proc[q].prog = b /\ proc[q].how = how
  <2>1. PICK q \in Processes : /\ InTree(q) /\ proc[q].root = proc[p].root
                               /\ proc[q].prog = b /\ proc[q].how = how
    BY <1>3
  <2>2. CASE q = p
    BY <2>1, <2>2
  <2>3. CASE q # p
    <3>1. proc[q].root = RootOf(q) /\ Located(q) /\ proc[q].pc # "unused"
      BY <2>1 DEF PlaceInv, Located, InTree
    <3>2. proc[q].root # TempRoot(p) /\ proc[p].root # TempRoot(q)
      BY <1>1, <2>1, <2>3, <3>1, TempIsOwn
    <3>3. RootOf(p) = SharedRoot[proc[p].how][proc[p].prog] /\ RootOf(p)[1] = proc[p].how
      BY <1>1, <2>1, <3>2, RootFacts, SharedFacts
    <3>4. RootOf(q) = SharedRoot[how][b] /\ RootOf(q)[1] = how
      BY <1>1, <2>1, <3>1, <3>2, RootFacts, SharedFacts
    <3>5. /\ how = proc[p].how /\ proc[p].root = SharedRoot[how][b]
          /\ SharedRoot[how][b] = SharedRoot[how][proc[p].prog]
      BY <1>1, <2>1, <3>1, <3>3, <3>4
    <3>. QED BY <1>1, <3>5, SharedFacts
  <2>. QED BY <2>2, <2>3
<1>. QED BY <1>2, <1>3 DEF Uses

-----------------------------------------------------------------------------
(* What a step of one process leaves to the others                          *)

Frame(p) ==
    /\ FsOK' /\ Typed /\ Others(p)
    /\ cut \subseteq cut' /\ cut' \subseteq Roots
    /\ disturbed \subseteq disturbed' /\ disturbed' \subseteq Processes
    /\ launches' = launches /\ kills' \in Nat
    /\ proc[p].pc # "unused"
    /\ \A root \in DOMAIN fs : root # TempRoot(p) => root \in DOMAIN fs'
    /\ \A root \in DOMAIN fs' :
        root \in DOMAIN fs /\ root # proc[p].root => fs'[root] = fs[root]
    /\ \A root \in DOMAIN fs' \ DOMAIN fs :
        proc[p].pc = "open" /\ root = RootOf(p) /\ DOMAIN fs'[root] = {}
    /\ \A q \in Processes \ {p} : q \notin disturbed' /\ proc[q].root = proc[p].root =>
        /\ proc'[p].pc # "home"
        /\ \A root \in DOMAIN fs \cap DOMAIN fs' :
            root = proc[q].root => fs'[root] = fs[root]
    /\ \A q \in Processes \ {p} :
        proc[q].root \in DOMAIN fs \ DOMAIN fs' => q \in disturbed'
    /\ proc[p].how # "main" \/ proc[p].pc = "open" =>
        \A root \in DOMAIN fs \cap DOMAIN fs' : DOMAIN fs[root] \subseteq DOMAIN fs'[root]

\* Steps that change no directory.
LEMMA SameFsFrame ==
    ASSUME TypeOK, NEW p \in Processes, Typed, Others(p), proc[p].pc # "unused",
           fs' = fs, cut \subseteq cut', cut' \subseteq Roots,
           disturbed \subseteq disturbed', disturbed' \subseteq Processes,
           launches' = launches, kills' \in Nat,
           proc'[p].pc # "home"
    PROVE  Frame(p)
  BY DEF Frame, TypeOK, FsOK

\* Steps that change the directory that the process extracts to.
LEMMA BecomesFrame ==
    ASSUME TypeOK, NEW p \in Processes, Typed, Others(p),
           proc[p].pc \notin {"unused", "open"},
           NEW new, proc[p].root \in DOMAIN fs, Becomes(proc[p].root, new),
           Disturb(p, proc[p].root),
           cut \subseteq cut', cut' \subseteq Roots, launches' = launches, kills' \in Nat,
           proc[p].how # "main" => DOMAIN fs[proc[p].root] \subseteq DOMAIN new
    PROVE  Frame(p)
<1>1. /\ disturbed \subseteq disturbed' /\ disturbed' \subseteq Processes
      /\ \A q \in Processes \ {p} : proc[q].root = proc[p].root => q \in disturbed'
  BY DEF Disturb, TypeOK
<1>2. \A root \in DOMAIN fs : root # proc[p].root => fs'[root] = fs[root]
  BY DEF Becomes
<1>3. FsOK' /\ DOMAIN fs' = DOMAIN fs /\ fs'[proc[p].root] = new
  BY DEF Becomes
<1>. QED BY <1>1, <1>2, <1>3 DEF Frame

\* Steps that remove the temporary directory of the process.
LEMMA RemoveFrame ==
    ASSUME TypeOK, PlaceInv, NEW p \in Processes, Typed, Others(p), proc[p].pc # "unused",
           RemoveTemp(p), Disturb(p, TempRoot(p)), UNCHANGED <<cut, launches, kills>>,
           proc'[p].pc # "home"
    PROVE  Frame(p)
<1>1. /\ disturbed \subseteq disturbed' /\ disturbed' \subseteq Processes
      /\ \A q \in Processes \ {p} : proc[q].root = TempRoot(p) => q \in disturbed'
  BY DEF Disturb, TypeOK
<1>2. /\ FsOK' /\ DOMAIN fs' = DOMAIN fs \ {TempRoot(p)}
      /\ \A root \in DOMAIN fs' : fs'[root] = fs[root]
  BY RemoveFacts DEF TypeOK
<1>. QED BY <1>1, <1>2 DEF Frame, TypeOK

-----------------------------------------------------------------------------
(* Steps of a zipapp in its directory                                       *)

LEMMA LocatedMoves ==
    ASSUME TypeOK, NEW p \in Processes, Located(p), InTree(p), proc[p].pc # "run",
           DOMAIN fs \subseteq DOMAIN fs', launches' = launches, SameButPlace(p),
           proc'[p].pc \in Stages(proc[p].how) \ {"open", "stage1", "run"},
           proc'[p].pc \in {"stage2"} \cup Setup => proc[p].env.dir = proc[p].root
    PROVE  Located(p)' /\ InTree(p)'
<1>1. RootOf(p)' = RootOf(p)
  BY DEF RootOf, TempRoot, SameButPlace
<1>2. proc[p].pc # "unused" /\ proc[p].root = RootOf(p) /\ proc[p].root \in DOMAIN fs
  BY DEF Located, InTree
<1>3. proc[p].root \in Roots
  BY <1>2, RootFacts DEF InTree
<1>4. proc'[p].pc # "unused"
  <2>1. proc[p].how \in Hows
    BY DEF TypeOK, States
  <2>2. \A how \in Hows : "unused" \notin Stages(how)
    BY DEF Hows, Stages, Copying, Setup
  <2>. QED BY <2>1, <2>2
<1>5. InTree(p)'
  BY <1>4 DEF InTree, SameButPlace
<1>. QED BY <1>1, <1>2, <1>3, <1>4, <1>5 DEF Located, SameButPlace

\* Where a process is that extracts or finishes its venv.
LEMMA HereFacts ==
    ASSUME TypeOK, NEW p \in Processes, Located(p),
           proc[p].pc \in Copying \cup Setup \cup {"unzip", "check"}
    PROVE  /\ InTree(p) /\ proc[p].prog \in Zipapps
           /\ proc[p].root \in DOMAIN fs
           /\ proc[p].root = RootOf(p) /\ proc[p].root \in Roots
           /\ proc[p].how \in {"main", "preamble"} /\ proc[p].own = None
           /\ proc[p].pc \in Copying \cup Setup => proc[p].how = "main"
           /\ proc[p].pc = "unzip" => proc[p].how = "preamble"
<1>. USE DEF Copying, Setup
<1>1. proc[p].pc \notin {"unused", "open", "stage1", "stage2", "run"}
  OBVIOUS
<1>2. proc[p].pc \in Stages(proc[p].how) /\ proc[p].how # "tree"
  BY <1>1 DEF Located, Stages
<1>3. proc[p].prog \in Zipapps
  BY <1>1, <1>2 DEF Located, Programs
<1>4. InTree(p)
  BY <1>1, <1>3 DEF InTree
<1>5. proc[p].how \in {"main", "preamble"}
  BY <1>2 DEF TypeOK, States, Hows
<1>6. /\ proc[p].pc \in Copying \cup Setup => proc[p].how = "main"
      /\ proc[p].pc = "unzip" => proc[p].how = "preamble"
  BY <1>2, <1>5 DEF Stages
<1>7. proc[p].root \in DOMAIN fs /\ proc[p].root = RootOf(p) /\ proc[p].own = None
  BY <1>1, <1>4 DEF Located
<1>. QED BY <1>1, <1>3, <1>4, <1>5, <1>6, <1>7, RootFacts

\* What a step of the extraction leaves of the process.
Moved(p) == Frame(p) /\ SameButPlace(p) /\ Located(p)' /\ InTree(p)'
Ended(p) == Frame(p) /\ proc'[p] = Unused

LEMMA FailFacts ==
    ASSUME TypeOK, NEW p \in Processes, proc[p].pc # "unused", fs' = fs, End(p),
           disturbed' = disturbed \/ \E root : Disturb(p, root),
           cut' = cut, launches' = launches, kills' = kills
    PROVE  Ended(p)
<1>1. Typed /\ Others(p) /\ proc'[p] = Unused
  BY EndFacts
<1>2. disturbed \subseteq disturbed' /\ disturbed' \subseteq Processes
  BY DEF Disturb, TypeOK
<1>. QED BY <1>1, <1>2, SameFsFrame DEF Ended, TypeOK, Unused

\* p moves and changes its directory, or only moves.
LEMMA MovedFacts ==
    ASSUME TypeOK, PlaceInv, NEW p \in Processes,
           proc[p].pc \in Copying \cup Setup \cup {"unzip"},
           Typed, Others(p), SameButPlace(p),
           proc'[p].pc \in Stages(proc[p].how) \ {"open", "stage1", "run"},
           proc'[p].pc \in {"stage2"} \cup Setup => proc[p].pc \in Setup,
           cut' \in {cut, cut \cup {proc[p].root}}, launches' = launches, kills' = kills,
           \/ fs' = fs /\ disturbed' = disturbed /\ proc'[p].pc # "home"
           \/ fs' = fs /\ Disturb(p, proc[p].root) /\ proc'[p].pc # "home"
           \/ /\ Disturb(p, proc[p].root)
              /\ \E new : /\ Becomes(proc[p].root, new)
                          /\ \/ proc[p].how = "main"
                             \/ DOMAIN fs[proc[p].root] \subseteq DOMAIN new
    PROVE  Moved(p)
<1>1. Located(p)
  BY DEF PlaceInv
<1>2. /\ InTree(p) /\ proc[p].root \in DOMAIN fs /\ proc[p].root \in Roots
  BY <1>1, HereFacts
<1>3. disturbed \subseteq disturbed' /\ disturbed' \subseteq Processes
  BY DEF Disturb, TypeOK
<1>4. cut \subseteq cut' /\ cut' \subseteq Roots /\ kills' \in Nat
  BY <1>2 DEF TypeOK
<1>5. proc[p].pc \notin {"unused", "open", "run"}
  BY DEF Copying, Setup
<1>6. Frame(p)
  BY <1>2, <1>3, <1>4, <1>5, SameFsFrame, BecomesFrame
<1>7. DOMAIN fs \subseteq DOMAIN fs'
  BY DEF Becomes
<1>8. proc[p].pc \in Setup => proc[p].env.dir = proc[p].root
  BY <1>1, <1>5 DEF Located
<1>9. Located(p)' /\ InTree(p)'
  BY <1>1, <1>2, <1>5, <1>7, <1>8, LocatedMoves
<1>. QED BY <1>6, <1>9 DEF Moved

LEMMA LookStep ==
    ASSUME TypeOK, PlaceInv, NEW p \in Processes, Look(p)
    PROVE  /\ Moved(p) /\ fs' = fs /\ cut' = cut
           /\ proc'[p].left = proc[p].left
           /\ proc'[p].pc = IF EntryPath(p) \in DOMAIN fs[proc[p].root]
                            THEN "unlink" ELSE "write"
<1>. DEFINE pc == IF EntryPath(p) \in DOMAIN fs[proc[p].root] THEN "unlink" ELSE "write"
<1>1. pc \in PCs /\ Goto(p, pc) /\ proc[p].pc = "look"
  BY DEF Look, PCs, Copying
<1>2. /\ Typed /\ Others(p) /\ SameButPlace(p) /\ proc'[p].left = proc[p].left
      /\ proc'[p].pc = pc
  BY <1>1, GotoFacts
<1>3. proc[p].how = "main"
  BY <1>1, HereFacts DEF PlaceInv, Copying
<1>4. Moved(p)
  BY <1>1, <1>2, <1>3, MovedFacts DEF Look, Stages, Copying, Setup
<1>. QED BY <1>2, <1>4 DEF Look

LEMMA UnlinkStep ==
    ASSUME TypeOK, PlaceInv, NEW p \in Processes, Unlink(p)
    PROVE  /\ cut' = cut
           /\ \/ /\ Moved(p) /\ proc'[p].left = proc[p].left /\ proc'[p].pc = "write"
                 /\ Becomes(proc[p].root, Without(fs[proc[p].root], EntryPath(p)))
              \/ Ended(p) /\ fs' = fs
<1>1. /\ proc[p].pc = "unlink" /\ Disturb(p, proc[p].root)
      /\ cut' = cut /\ launches' = launches /\ kills' = kills
  BY DEF Unlink
<1>2. proc[p].root \in DOMAIN fs /\ proc[p].how = "main"
  BY <1>1, HereFacts DEF PlaceInv, Copying
<1>3. CASE Drop(proc[p].root, EntryPath(p)) /\ Goto(p, "write")
  <2>1. Becomes(proc[p].root, Without(fs[proc[p].root], EntryPath(p)))
    BY <1>2, <1>3, DropFacts DEF TypeOK
  <2>2. /\ Typed /\ Others(p) /\ SameButPlace(p) /\ proc'[p].left = proc[p].left
        /\ proc'[p].pc = "write"
    BY <1>3, GotoFacts DEF PCs, Copying
  <2>3. Moved(p)
    BY <1>1, <1>2, <2>1, <2>2, MovedFacts DEF Stages, Copying, Setup
  <2>. QED BY <1>1, <2>1, <2>2, <2>3
<1>4. CASE fs' = fs /\ End(p)
  BY <1>1, <1>4, FailFacts
<1>. QED BY <1>1, <1>3, <1>4 DEF Unlink

Written(p) == [Node(p) EXCEPT !.kind = "file"]
Opened(p) == Through(fs[proc[p].root], EntryPath(p))
Advanced(p, first, last) ==
    /\ proc'[p].left = proc[p].left \ {EntryPath(p)}
    /\ proc'[p].pc = IF proc[p].left = {EntryPath(p)} THEN last ELSE first

LEMMA WriteStep ==
    ASSUME TypeOK, PlaceInv, NEW p \in Processes, Write(p)
    PROVE  /\ Moved(p)
           /\ Becomes(proc[p].root, With(fs[proc[p].root], Opened(p), Written(p)))
           /\ cut' = IF Opened(p) \in DOMAIN Archive[proc[p].prog]
                     THEN cut ELSE cut \cup {proc[p].root}
           /\ \/ /\ Node(p).kind = "link" /\ proc'[p].left = proc[p].left
                 /\ proc'[p].pc = "replace"
              \/ Node(p).kind # "link" /\ Advanced(p, "look", "check")
<1>1. /\ proc[p].pc = "write" /\ Disturb(p, proc[p].root)
      /\ Put(proc[p].root, Opened(p), Written(p))
      /\ cut' = IF Opened(p) \in DOMAIN Archive[proc[p].prog]
                THEN cut ELSE cut \cup {proc[p].root}
      /\ launches' = launches /\ kills' = kills
      /\ IF Node(p).kind = "link" THEN Goto(p, "replace") ELSE Advance(p, "look", "check")
  BY DEF Write, Opened, Written
<1>2. proc[p].root \in DOMAIN fs /\ proc[p].how = "main"
  BY <1>1, HereFacts DEF PlaceInv, Copying
<1>3. Becomes(proc[p].root, With(fs[proc[p].root], Opened(p), Written(p)))
  BY <1>1, <1>2, PutFacts DEF TypeOK
<1>4. /\ Typed /\ Others(p) /\ SameButPlace(p)
      /\ \/ /\ Node(p).kind = "link" /\ proc'[p].left = proc[p].left
            /\ proc'[p].pc = "replace"
         \/ Node(p).kind # "link" /\ Advanced(p, "look", "check")
  BY <1>1, GotoFacts, AdvanceFacts DEF PCs, Copying, Advanced
<1>5. proc'[p].pc \in {"replace", "look", "check"}
  BY <1>4 DEF Advanced
<1>6. Moved(p)
  BY <1>1, <1>2, <1>3, <1>4, <1>5, MovedFacts DEF Stages, Copying, Setup
<1>. QED BY <1>1, <1>3, <1>4, <1>6

LEMMA ReplaceStep ==
    ASSUME TypeOK, PlaceInv, NEW p \in Processes, Replace(p)
    PROVE  /\ cut' = cut
           /\ \/ /\ Moved(p) /\ Advanced(p, "look", "check")
                 /\ Opened(p) \in DOMAIN fs[proc[p].root]
                 /\ Becomes(proc[p].root, With(fs[proc[p].root], EntryPath(p),
                                               Link(fs[proc[p].root][Opened(p)].to)))
              \/ Ended(p) /\ fs' = fs
<1>. DEFINE new == Link(fs[proc[p].root][Opened(p)].to)
<1>1. /\ proc[p].pc = "replace" /\ Disturb(p, proc[p].root)
      /\ cut' = cut /\ launches' = launches /\ kills' = kills
  BY DEF Replace
<1>2. proc[p].root \in DOMAIN fs /\ proc[p].how = "main"
  BY <1>1, HereFacts DEF PlaceInv, Copying
<1>3. CASE /\ Opened(p) \in DOMAIN fs[proc[p].root]
           /\ Put(proc[p].root, EntryPath(p), new) /\ Advance(p, "look", "check")
  <2>1. Becomes(proc[p].root, With(fs[proc[p].root], EntryPath(p), new))
    BY <1>2, <1>3, PutFacts DEF TypeOK
  <2>2. Typed /\ Others(p) /\ SameButPlace(p) /\ Advanced(p, "look", "check")
    BY <1>3, AdvanceFacts DEF PCs, Copying, Advanced
  <2>3. proc'[p].pc \in {"look", "check"}
    BY <2>2 DEF Advanced
  <2>4. Moved(p)
    BY <1>1, <1>2, <2>1, <2>2, <2>3, MovedFacts DEF Stages, Copying, Setup
  <2>. QED BY <1>1, <1>3, <2>1, <2>2, <2>4
<1>4. CASE fs' = fs /\ End(p)
  BY <1>1, <1>4, FailFacts
<1>. QED BY <1>1, <1>3, <1>4 DEF Replace, Opened

LEMMA UnzipStep ==
    ASSUME TypeOK, PlaceInv, NEW p \in Processes, Unzip(p)
    PROVE  /\ Moved(p) /\ Advanced(p, "unzip", "check") /\ cut' = cut
           /\ \/ EntryPath(p) \in DOMAIN fs[proc[p].root] /\ fs' = fs
              \/ /\ EntryPath(p) \notin DOMAIN fs[proc[p].root]
                 /\ Becomes(proc[p].root, With(fs[proc[p].root], EntryPath(p), Node(p)))
<1>1. /\ proc[p].pc = "unzip" /\ Disturb(p, proc[p].root) /\ Advance(p, "unzip", "check")
      /\ cut' = cut /\ launches' = launches /\ kills' = kills
  BY DEF Unzip
<1>2. proc[p].root \in DOMAIN fs /\ proc[p].how = "preamble"
  BY <1>1, HereFacts DEF PlaceInv, Copying
<1>3. Typed /\ Others(p) /\ SameButPlace(p) /\ Advanced(p, "unzip", "check")
  BY <1>1, AdvanceFacts DEF PCs, Advanced
<1>4. proc'[p].pc \in {"unzip", "check"}
  BY <1>3 DEF Advanced
<1>5. \/ EntryPath(p) \in DOMAIN fs[proc[p].root] /\ fs' = fs
      \/ /\ EntryPath(p) \notin DOMAIN fs[proc[p].root]
         /\ Becomes(proc[p].root, With(fs[proc[p].root], EntryPath(p), Node(p)))
  BY <1>2, PutFacts DEF Unzip, TypeOK
<1>6. DOMAIN fs[proc[p].root] \subseteq DOMAIN With(fs[proc[p].root], EntryPath(p), Node(p))
  BY DEF With
<1>7. Moved(p)
  BY <1>1, <1>2, <1>3, <1>4, <1>5, <1>6, MovedFacts DEF Stages, Copying, Setup
<1>. QED BY <1>1, <1>3, <1>5, <1>7

LEMMA LookForPythonStep ==
    ASSUME TypeOK, PlaceInv, NEW p \in Processes, LookForPython(p)
    PROVE  /\ Moved(p) /\ fs' = fs /\ cut' = cut
           /\ proc'[p].pc = IF Runfile(VenvPython) \in DOMAIN fs[proc[p].root]
                            THEN "cfg" ELSE "link"
<1>. DEFINE pc == IF Runfile(VenvPython) \in DOMAIN fs[proc[p].root] THEN "cfg" ELSE "link"
<1>1. pc \in PCs /\ Goto(p, pc) /\ proc[p].pc = "venv" /\ pc \in Setup /\ pc # "home"
  BY DEF LookForPython, PCs, Setup
<1>2. Typed /\ Others(p) /\ SameButPlace(p) /\ proc'[p].pc = pc
  BY <1>1, GotoFacts
<1>3. proc[p].how = "main"
  BY <1>1, HereFacts DEF PlaceInv, Setup
<1>. HIDE DEF pc
<1>4. Moved(p)
  BY <1>1, <1>2, <1>3, MovedFacts DEF LookForPython, Stages, Copying, Setup
<1>. QED BY <1>2, <1>4 DEF LookForPython, pc

LEMMA LinkPythonStep ==
    ASSUME TypeOK, PlaceInv, NEW p \in Processes, LinkPython(p)
    PROVE  /\ cut' = cut
           /\ \/ /\ Moved(p) /\ proc'[p].pc = "cfg"
                 /\ Runfile(VenvPython) \notin DOMAIN fs[proc[p].root]
                 /\ Becomes(proc[p].root, With(fs[proc[p].root], Runfile(VenvPython),
                                               Link(PythonActual)))
              \/ Ended(p) /\ fs' = fs
<1>1. /\ proc[p].pc = "link" /\ Disturb(p, proc[p].root)
      /\ cut' = cut /\ launches' = launches /\ kills' = kills
  BY DEF LinkPython
<1>2. proc[p].root \in DOMAIN fs /\ proc[p].how = "main"
  BY <1>1, HereFacts DEF PlaceInv, Setup
<1>3. CASE /\ Runfile(VenvPython) \notin DOMAIN fs[proc[p].root]
           /\ Put(proc[p].root, Runfile(VenvPython), Link(PythonActual)) /\ Goto(p, "cfg")
  <2>1. Becomes(proc[p].root,
                With(fs[proc[p].root], Runfile(VenvPython), Link(PythonActual)))
    BY <1>2, <1>3, PutFacts DEF TypeOK
  <2>2. Typed /\ Others(p) /\ SameButPlace(p) /\ proc'[p].pc = "cfg"
    BY <1>3, GotoFacts DEF PCs, Setup
  <2>3. Moved(p)
    BY <1>1, <1>2, <2>1, <2>2, MovedFacts DEF Stages, Copying, Setup
  <2>. QED BY <1>1, <1>3, <2>1, <2>2, <2>3
<1>4. CASE fs' = fs /\ End(p)
  BY <1>1, <1>4, FailFacts
<1>. QED BY <1>1, <1>3, <1>4 DEF LinkPython

LEMMA OpenPyvenvCfgStep ==
    ASSUME TypeOK, PlaceInv, NEW p \in Processes, OpenPyvenvCfg(p)
    PROVE  /\ Moved(p) /\ cut' = cut
           /\ \/ /\ Runfile(PyvenvCfg) \in DOMAIN fs[proc[p].root]
                 /\ fs' = fs /\ proc'[p].pc = "stage2"
              \/ /\ Runfile(PyvenvCfg) \notin DOMAIN fs[proc[p].root]
                 /\ Becomes(proc[p].root,
                            With(fs[proc[p].root], Runfile(PyvenvCfg), File("")))
                 /\ proc'[p].pc = "home"
<1>1. /\ proc[p].pc = "cfg" /\ cut' = cut /\ launches' = launches /\ kills' = kills
  BY DEF OpenPyvenvCfg
<1>2. proc[p].root \in DOMAIN fs /\ proc[p].how = "main"
  BY <1>1, HereFacts DEF PlaceInv, Setup
<1>3. CASE /\ Runfile(PyvenvCfg) \in DOMAIN fs[proc[p].root]
           /\ fs' = fs /\ Goto(p, "stage2") /\ UNCHANGED disturbed
  <2>1. Typed /\ Others(p) /\ SameButPlace(p) /\ proc'[p].pc = "stage2"
    BY <1>3, GotoFacts DEF PCs
  <2>2. Moved(p)
    BY <1>1, <1>2, <1>3, <2>1, MovedFacts DEF Stages, Copying, Setup
  <2>. QED BY <1>1, <1>3, <2>1, <2>2
<1>4. CASE /\ Runfile(PyvenvCfg) \notin DOMAIN fs[proc[p].root]
           /\ Put(proc[p].root, Runfile(PyvenvCfg), File("")) /\ Goto(p, "home")
           /\ Disturb(p, proc[p].root)
  <2>1. Becomes(proc[p].root, With(fs[proc[p].root], Runfile(PyvenvCfg), File("")))
    BY <1>2, <1>4, PutFacts DEF TypeOK
  <2>2. Typed /\ Others(p) /\ SameButPlace(p) /\ proc'[p].pc = "home"
    BY <1>4, GotoFacts DEF PCs, Setup
  <2>3. Moved(p)
    BY <1>1, <1>2, <1>4, <2>1, <2>2, MovedFacts DEF Stages, Copying, Setup
  <2>. QED BY <1>1, <1>4, <2>1, <2>2, <2>3
<1>. QED BY <1>3, <1>4 DEF OpenPyvenvCfg

LEMMA WriteHomeStep ==
    ASSUME TypeOK, PlaceInv, NEW p \in Processes, WriteHome(p)
    PROVE  /\ Moved(p) /\ cut' = cut /\ proc'[p].pc = "stage2"
           /\ Becomes(proc[p].root,
                      With(fs[proc[p].root], Runfile(PyvenvCfg), File("home")))
<1>1. /\ proc[p].pc = "home" /\ Disturb(p, proc[p].root)
      /\ cut' = cut /\ launches' = launches /\ kills' = kills
      /\ Put(proc[p].root, Runfile(PyvenvCfg), File("home")) /\ Goto(p, "stage2")
  BY DEF WriteHome
<1>2. proc[p].root \in DOMAIN fs /\ proc[p].how = "main"
  BY <1>1, HereFacts DEF PlaceInv, Setup
<1>3. Becomes(proc[p].root, With(fs[proc[p].root], Runfile(PyvenvCfg), File("home")))
  BY <1>1, <1>2, PutFacts DEF TypeOK
<1>4. Typed /\ Others(p) /\ SameButPlace(p) /\ proc'[p].pc = "stage2"
  BY <1>1, GotoFacts DEF PCs
<1>5. Moved(p)
  BY <1>1, <1>2, <1>3, <1>4, MovedFacts DEF Stages, Copying, Setup
<1>. QED BY <1>1, <1>3, <1>4, <1>5

-----------------------------------------------------------------------------
(* The other steps                                                          *)

\* The program, and where it is.
SameProgram(p) ==
    /\ proc'[p].prog = proc[p].prog /\ proc'[p].how = proc[p].how
    /\ proc'[p].launch = proc[p].launch /\ proc'[p].root = proc[p].root
Stays(p) == Frame(p) /\ SameProgram(p) /\ Located(p)' /\ InTree(p)'
Away(p) ==
    /\ Frame(p) /\ Located(p)' /\ ~InTree(p)'
    /\ proc'[p].pc \in {"unused", "stage2", "run"}
    /\ proc'[p].pc # "unused" => proc'[p].launch = proc[p].launch
SameTrees == \A root \in DOMAIN fs' : root \in DOMAIN fs /\ fs'[root] = fs[root]

LEMMA MovedStays == ASSUME NEW p, Moved(p) PROVE Stays(p)
  BY DEF Moved, Stays, SameButPlace, SameProgram

LEMMA EndedIsAway == ASSUME NEW p, Ended(p) PROVE Away(p)
  BY DEF Ended, Away, Located, InTree, Unused

LEMMA EnvChanges ==
    ASSUME NEW env \in Envs, NEW root \in Roots
    PROVE  /\ [env EXCEPT !.dir = root] \in Envs
           /\ [env EXCEPT !.dir = root].dir = root
           /\ [env EXCEPT !.dir = root].extractRoot = env.extractRoot
<1>. HIDE DEF Roots, Trees
<1>. QED BY DEF Envs

LEMMA StartStep ==
    ASSUME TypeOK, PlaceInv, NEW p \in Processes, Start(p)
    PROVE  /\ fs' = fs /\ cut' = cut /\ disturbed' = disturbed
           /\ \/ /\ Stays(p)
                 /\ proc'[p].pc = IF proc[p].how = "main" THEN "venv" ELSE "stage2"
              \/ Ended(p)
<1>. DEFINE pc == IF proc[p].how = "main" THEN "venv" ELSE "stage2"
            env == [proc[p].env EXCEPT !.dir = proc[p].root]
            new == [proc[p] EXCEPT !.pc = pc, !.env = env]
<1>1. /\ proc[p].pc = "check" /\ fs' = fs /\ cut' = cut /\ disturbed' = disturbed
      /\ launches' = launches /\ kills' = kills
      /\ Set(p, new) \/ End(p)
  BY DEF Start
<1>2. /\ InTree(p) /\ proc[p].root \in DOMAIN fs /\ proc[p].root = RootOf(p)
      /\ proc[p].root \in Roots /\ proc[p].how \in {"main", "preamble"}
      /\ proc[p].own = None /\ Located(p)
  BY <1>1, HereFacts DEF PlaceInv
<1>3. proc[p] \in States /\ proc[p].env \in Envs
  BY DEF TypeOK, States
<1>4. env \in Envs /\ env.dir = proc[p].root /\ env.extractRoot = proc[p].env.extractRoot
  BY <1>2, <1>3, EnvChanges
<1>5. pc \in PCs
  BY DEF PCs, Setup
<1>6. CASE Set(p, new)
  <2>. HIDE DEF env, pc
  <2>1. /\ new \in States /\ new.pc = pc /\ new.env = env
        /\ new.prog = proc[p].prog /\ new.how = proc[p].how /\ new.launch = proc[p].launch
        /\ new.root = proc[p].root /\ new.own = proc[p].own
    <3>. HIDE DEF PCs, Envs
    <3>. QED BY <1>3, <1>4, <1>5 DEF States
  <2>. HIDE DEF new
  <2>2. Typed /\ Others(p) /\ proc'[p] = new
    BY <1>6, <2>1, OneChanges
  <2>3. SameProgram(p) /\ RootOf(p)' = RootOf(p)
    BY <1>4, <2>1, <2>2 DEF SameProgram, RootOf, TempRoot
  <2>4. pc \in {"venv", "stage2"} /\ pc \in Stages(proc[p].how)
    BY <1>2 DEF pc, Stages, Setup
  <2>5. Frame(p)
    BY <1>1, <2>1, <2>2, <2>4, SameFsFrame DEF TypeOK
  <2>6. Located(p)' /\ InTree(p)'
    <3>1. InTree(p)'
      BY <1>2, <2>1, <2>2, <2>4 DEF InTree
    <3>. QED BY <1>1, <1>2, <1>4, <2>1, <2>2, <2>3, <2>4, <3>1 DEF Located
  <2>. QED BY <1>1, <2>1, <2>2, <2>3, <2>5, <2>6 DEF Stays, pc
<1>7. CASE End(p)
  BY <1>1, <1>7, FailFacts
<1>. QED BY <1>1, <1>6, <1>7

LEMMA Stage1Step ==
    ASSUME TypeOK, PlaceInv, NEW p \in Processes, Stage1(p)
    PROVE  Away(p) /\ fs' = fs /\ cut' = cut /\ disturbed' = disturbed
<1>. DEFINE found == FromEnv(proc[p].env, Stage2[proc[p].prog])
            root == IF found # None THEN found ELSE TreeRoot(proc[p].prog)
            env == [proc[p].env EXCEPT !.dir = root]
            new == [proc[p] EXCEPT !.pc = "stage2", !.root = root, !.env = env]
<1>1. /\ proc[p].pc = "stage1" /\ fs' = fs /\ cut' = cut /\ disturbed' = disturbed
      /\ launches' = launches /\ kills' = kills /\ Set(p, new)
  BY DEF Stage1
<1>2. Located(p) /\ proc[p] \in States /\ proc[p].env \in Envs
  BY DEF TypeOK, PlaceInv, States
<1>3. proc[p].how = "tree" /\ proc[p].prog \in Binaries
  BY <1>1, <1>2 DEF Located, Stages, Copying, Setup, States, Hows
<1>4. root \in Roots
  <2>1. found \in Roots \cup {None}
    <3>. HIDE DEF Roots
    <3>. QED BY <1>2 DEF FromEnv, NamedRoot, Envs, Trees, Roots
  <2>2. TreeRoot(proc[p].prog) \in Roots
    BY <1>3 DEF Roots, TreeRoot
  <2>. QED BY <2>1, <2>2
<1>. HIDE DEF root
<1>5. env \in Envs /\ env.dir = root /\ env.extractRoot = proc[p].env.extractRoot
  BY <1>2, <1>4, EnvChanges
<1>. HIDE DEF env
<1>6. /\ new \in States /\ new.pc = "stage2" /\ new.env = env
      /\ new.prog = proc[p].prog /\ new.how = proc[p].how /\ new.launch = proc[p].launch
      /\ new.root = root /\ new.own = proc[p].own
  <2>1. "stage2" \in PCs
    BY DEF PCs
  <2>. HIDE DEF PCs, Envs, Roots
  <2>. QED BY <1>2, <1>4, <1>5, <2>1 DEF States
<1>. HIDE DEF new
<1>7. Typed /\ Others(p) /\ proc'[p] = new
  BY <1>1, <1>6, OneChanges
<1>8. Frame(p)
  BY <1>1, <1>6, <1>7, SameFsFrame DEF TypeOK
<1>9. ~InTree(p)'
  BY <1>3, <1>6, <1>7, ProgramsAssumption DEF InTree
<1>10. Located(p)'
  BY <1>1, <1>2, <1>3, <1>4, <1>5, <1>6, <1>7, <1>9 DEF Located, Stages, Setup
<1>. QED BY <1>1, <1>6, <1>7, <1>8, <1>9, <1>10 DEF Away

\* Whichever of the two variables the program gets names its tree.
LEMMA EnvvarFacts ==
    ASSUME NEW env \in Envs, NEW b, NEW root \in Roots,
           FindRunfilesRoot(env, b, root) # None
    PROVE  LET own == FindRunfilesRoot(env, b, root)
               new == RunfilesEnvvar(env, b, own)
           IN  /\ own \in Roots /\ new \in Envs /\ new.extractRoot = env.extractRoot
               /\ new.dir = own \/ new.manifest = own
<1>. DEFINE found == MainFromEnv(env, b)
            own == FindRunfilesRoot(env, b, root)
            new == RunfilesEnvvar(env, b, own)
            none == [env EXCEPT !.dir = None, !.manifest = None]
<1>1. /\ env.dir \in Roots \cup {None} /\ env.manifest \in Trees \cup {None}
      /\ env.extractRoot \in BOOLEAN
  <2>. HIDE DEF Roots, Trees
  <2>. QED BY DEF Envs
<1>2. Trees \subseteq Roots
  BY DEF Trees, Roots
<1>3. CASE found # None
  <2>1. own = found /\ new = env
    BY <1>3 DEF FindRunfilesRoot, RunfilesEnvvar, MainFromEnv, FromEnv, NamedRoot
  <2>2. found \in Roots /\ (env.dir = found \/ env.manifest = found)
    <3>. HIDE DEF Roots, Trees
    <3>. QED BY <1>1, <1>2, <1>3 DEF MainFromEnv, FromEnv, NamedRoot
  <2>. QED BY <2>1, <2>2
<1>4. CASE found = None
  <2>1. root[1] = "tree" /\ own = root
    BY <1>4 DEF FindRunfilesRoot
  <2>2. root \in Trees
    BY <2>1 DEF Roots, Trees, SharedRoots
  <2>3. /\ none \in Envs /\ none.dir = None /\ none.manifest = None
        /\ none.extractRoot = env.extractRoot
    <3>. HIDE DEF Roots, Trees
    <3>. QED BY DEF Envs
  <2>. HIDE DEF none
  <2>4. new \in {[none EXCEPT !.manifest = root], [none EXCEPT !.dir = root]}
    BY <1>4, <2>1, <2>3 DEF RunfilesEnvvar, none
  <2>5. /\ [none EXCEPT !.manifest = root] \in Envs
        /\ [none EXCEPT !.manifest = root].manifest = root
        /\ [none EXCEPT !.manifest = root].extractRoot = env.extractRoot
    <3>. HIDE DEF Roots, Trees
    <3>. QED BY <2>2, <2>3 DEF Envs
  <2>6. /\ [none EXCEPT !.dir = root] \in Envs
        /\ [none EXCEPT !.dir = root].dir = root
        /\ [none EXCEPT !.dir = root].extractRoot = none.extractRoot
    BY <2>3, EnvChanges
  <2>. HIDE DEF own, new
  <2>7. /\ own \in Roots /\ new \in Envs /\ new.extractRoot = env.extractRoot
        /\ new.dir = own \/ new.manifest = own
    <3>1. CASE new = [none EXCEPT !.manifest = root]
      BY <2>1, <2>5, <3>1
    <3>2. CASE new = [none EXCEPT !.dir = root]
      BY <2>1, <2>3, <2>6, <3>2
    <3>. QED BY <2>4, <3>1, <3>2
  <2>. QED BY <2>7 DEF own, new
<1>. QED BY <1>3, <1>4

LEMMA SysPathFacts ==
    ASSUME TypeOK, NEW p \in Processes, proc[p].prog \in Programs, proc[p].root \in Roots
    PROVE  SetupSysPath(p) \subseteq ((Roots \cup {None}) \X Dirs)
<1>. DEFINE found == FromEnv(proc[p].env, SelfPath[proc[p].prog])
            root == IF found # None THEN found ELSE proc[p].root
            dirs == ToSet(Imports[proc[p].prog]) \cup {<<WorkspaceName>>}
<1>1. proc[p].env \in Envs
  BY DEF TypeOK, States
<1>2. root \in Roots
  <2>. HIDE DEF Roots
  <2>. QED BY <1>1 DEF FromEnv, NamedRoot, Envs, Trees, Roots
<1>3. dirs \subseteq Dirs
  BY DEF Dirs
<1>4. SetupSysPath(p) = {<<root, dir>> : dir \in dirs}
  BY DEF SetupSysPath
<1>. HIDE DEF root, dirs, Roots, Dirs
<1>. QED BY <1>2, <1>3, <1>4

LEMMA RunStage2Step ==
    ASSUME TypeOK, PlaceInv, NEW p \in Processes, RunStage2(p)
    PROVE  /\ SameTrees /\ cut' = cut
           /\ \/ Stays(p) /\ fs' = fs /\ proc[p].pc = "stage2" /\ proc'[p].pc = "run"
              \/ Away(p)
<1>. DEFINE b == proc[p].prog
            own == FindRunfilesRoot(proc[p].env, b, proc[p].root)
            env == RunfilesEnvvar(proc[p].env, b, own)
            new == [proc[p] EXCEPT !.pc = "run", !.own = own,
                                   !.sysPath = SetupSysPath(p), !.env = env]
<1>1. /\ proc[p].pc = "stage2" /\ cut' = cut /\ launches' = launches /\ kills' = kills
      /\ \/ own # None /\ Set(p, new) /\ Enters(p, own) /\ fs' = fs
         \/ End(p) /\ RemoveTemp(p) /\ Disturb(p, TempRoot(p))
  BY DEF RunStage2
<1>2. /\ Located(p) /\ proc[p] \in States /\ proc[p].env \in Envs
      /\ proc[p].root \in Roots /\ proc[p].prog \in Programs
  BY <1>1 DEF TypeOK, PlaceInv, States, Located
<1>3. CASE own # None /\ Set(p, new) /\ Enters(p, own) /\ fs' = fs
  <2>1. /\ own \in Roots /\ env \in Envs /\ env.extractRoot = proc[p].env.extractRoot
        /\ env.dir = own \/ env.manifest = own
    BY <1>2, <1>3, EnvvarFacts
  <2>2. SetupSysPath(p) \subseteq ((Roots \cup {None}) \X Dirs)
    BY <1>2, SysPathFacts
  <2>. HIDE DEF own, env
  <2>3. /\ new \in States /\ new.pc = "run" /\ new.env = env
        /\ new.prog = proc[p].prog /\ new.how = proc[p].how /\ new.launch = proc[p].launch
        /\ new.root = proc[p].root /\ new.own = own
    <3>1. "run" \in PCs
      BY DEF PCs
    <3>. HIDE DEF PCs, Envs, Roots, Dirs
    <3>. QED BY <1>2, <2>1, <2>2, <3>1 DEF States
  <2>. HIDE DEF new
  <2>4. Typed /\ Others(p) /\ proc'[p] = new
    BY <1>3, <2>3, OneChanges
  <2>5. disturbed \subseteq disturbed' /\ disturbed' \subseteq Processes
    BY <1>3 DEF Enters, TypeOK
  <2>6. Frame(p)
    BY <1>1, <1>3, <2>3, <2>4, <2>5, SameFsFrame DEF TypeOK
  <2>7. SameProgram(p) /\ RootOf(p)' = RootOf(p)
    BY <2>1, <2>3, <2>4 DEF SameProgram, RootOf, TempRoot
  <2>8. proc[p].how \in Hows /\ "run" \in Stages(proc[p].how)
    BY <1>2 DEF States, Hows, Stages
  <2>9. InTree(p)' <=> proc[p].prog \in Zipapps
    BY <2>3, <2>4 DEF InTree
  <2>10. Located(p)'
    <3>1. InTree(p)' => proc[p].root = RootOf(p) /\ proc[p].root \in DOMAIN fs
      BY <1>1, <1>2, <2>9 DEF Located, InTree
    <3>. QED BY <1>1, <1>2, <1>3, <2>1, <2>3, <2>4, <2>7, <2>8, <3>1 DEF Located, Setup
  <2>11. SameTrees
    BY <1>3 DEF SameTrees
  <2>. QED BY <1>1, <1>3, <2>3, <2>4, <2>6, <2>7, <2>10, <2>11 DEF Stays, Away, SameProgram
<1>4. CASE End(p) /\ RemoveTemp(p) /\ Disturb(p, TempRoot(p))
  <2>1. Typed /\ Others(p) /\ proc'[p] = Unused
    BY <1>4, EndFacts
  <2>2. Ended(p)
    BY <1>1, <1>4, <2>1, RemoveFrame DEF Ended, Unused
  <2>3. SameTrees
    BY <1>4, RemoveFacts DEF TypeOK, SameTrees
  <2>. QED BY <1>1, <2>2, <2>3, EndedIsAway
<1>. QED BY <1>1, <1>3, <1>4

LEMMA FinishStep ==
    ASSUME TypeOK, PlaceInv, NEW p \in Processes, Finish(p)
    PROVE  Away(p) /\ SameTrees /\ cut' = cut /\ proc[p].pc = "run"
<1>1. /\ proc[p].pc = "run" /\ UNCHANGED <<cut, launches, kills>>
      /\ End(p) /\ RemoveTemp(p) /\ Disturb(p, TempRoot(p))
  BY DEF Finish
<1>2. Typed /\ Others(p) /\ proc'[p] = Unused
  BY <1>1, EndFacts
<1>3. Ended(p)
  BY <1>1, <1>2, RemoveFrame DEF Ended, Unused
<1>4. SameTrees
  BY <1>1, RemoveFacts DEF TypeOK, SameTrees
<1>. QED BY <1>1, <1>3, <1>4, EndedIsAway

LEMMA KillStep ==
    ASSUME TypeOK, PlaceInv, NEW p \in Processes, Kill(p)
    PROVE  /\ Away(p) /\ fs' = fs
           /\ \/ proc[p].pc = "home"
              \/ proc[p].pc = "unzip" /\ proc[p].left # DOMAIN Archive[proc[p].prog]
              => proc[p].root \in cut'
<1>1. /\ proc[p].pc # "unused" /\ End(p) /\ kills' = kills + 1
      /\ UNCHANGED <<fs, disturbed, launches>>
  BY DEF Kill
<1>2. \/ cut' = cut
      \/ cut' = cut \cup {proc[p].root} /\ proc[p].pc \in {"home", "unzip"}
  BY DEF Kill
<1>3. cut \subseteq cut' /\ cut' \subseteq Roots
  BY <1>2, HereFacts DEF PlaceInv, TypeOK, Setup
<1>4. Typed /\ Others(p) /\ proc'[p] = Unused
  BY <1>1, EndFacts
<1>5. Ended(p)
  BY <1>1, <1>3, <1>4, SameFsFrame DEF Ended, Unused, TypeOK
<1>. QED BY <1>1, <1>5, EndedIsAway DEF Kill

LEMMA EmptyTree == IsFcn(<<>>) /\ DOMAIN <<>> = {}
  BY DEF IsFcn

LEMMA OpenStep ==
    ASSUME TypeOK, PlaceInv, NEW p \in Processes, Open(p)
    PROVE  LET root == RootOf(p)
               archive == DOMAIN Archive[proc[p].prog]
           IN  /\ Frame(p) /\ Located(p)' /\ InTree(p)' /\ cut' = cut
               /\ proc[p].pc = "open" /\ proc[p].prog \in Zipapps
               /\ proc'[p].prog = proc[p].prog /\ proc'[p].how = proc[p].how
               /\ proc'[p].launch = proc[p].launch
               /\ proc'[p].root = root /\ proc'[p].left = archive
               /\ root \in Roots /\ Enters(p, root)
               /\ \/ root \notin DOMAIN fs /\ fs' = With(fs, root, <<>>)
                  \/ root \in DOMAIN fs /\ fs' = fs
               /\ \/ proc[p].how = "main" /\ proc'[p].pc = "look"
                  \/ proc[p].how = "preamble" /\ proc'[p].pc = "unzip"
                  \/ /\ proc[p].how = "preamble" /\ proc'[p].pc = "check"
                     /\ root \in DOMAIN fs /\ MainPy \in DOMAIN fs[root]
<1>. DEFINE root == RootOf(p)
            archive == DOMAIN Archive[proc[p].prog]
            there == root \in DOMAIN fs /\ MainPy \in DOMAIN fs[root]
            pc == CASE proc[p].how = "main" -> "look"
                    [] proc[p].how # "main" /\ there -> "check"
                    [] OTHER -> "unzip"
            new == [proc[p] EXCEPT !.root = root, !.left = archive, !.pc = pc]
<1>1. /\ proc[p].pc = "open" /\ Enters(p, root)
      /\ cut' = cut /\ launches' = launches /\ kills' = kills
      /\ \/ root \notin DOMAIN fs /\ fs' = With(fs, root, <<>>)
         \/ root \in DOMAIN fs /\ fs' = fs
      /\ Set(p, new)
  BY DEF Open
<1>2. /\ Located(p) /\ proc[p] \in States
  BY DEF TypeOK, PlaceInv, States
<1>3. proc[p].how # "tree" /\ proc[p].prog \in Zipapps /\ proc[p].own = None
  BY <1>1, <1>2 DEF Located, Stages, Programs
<1>4. root \in Roots /\ proc[p].how \in {"main", "preamble"}
  BY <1>1, <1>2, <1>3, RootFacts
<1>5. \/ proc[p].how = "main" /\ pc = "look"
      \/ proc[p].how = "preamble" /\ pc = "unzip"
      \/ proc[p].how = "preamble" /\ pc = "check" /\ there
  BY <1>4
<1>6. archive \in SUBSET Paths
  BY <1>3 DEF Paths
<1>7. pc \in PCs /\ pc \in Stages(proc[p].how) \ {"open", "unused"}
  BY <1>5 DEF PCs, Copying, Stages
<1>. HIDE DEF root, archive, pc
<1>8. /\ new \in States /\ new.pc = pc /\ new.left = archive /\ new.root = root
      /\ new.prog = proc[p].prog /\ new.how = proc[p].how /\ new.launch = proc[p].launch
      /\ new.env = proc[p].env /\ new.own = proc[p].own
  <2>. HIDE DEF PCs, Envs, Roots, Paths
  <2>. QED BY <1>2, <1>4, <1>6, <1>7 DEF States
<1>. HIDE DEF new
<1>9. Typed /\ Others(p) /\ proc'[p] = new
  BY <1>1, <1>8, OneChanges
<1>10. /\ FsOK' /\ DOMAIN fs' = DOMAIN fs \cup {root}
       /\ \A r \in DOMAIN fs : fs'[r] = fs[r]
       /\ root \notin DOMAIN fs => DOMAIN fs'[root] = {}
  <2>1. CASE root \notin DOMAIN fs /\ fs' = With(fs, root, <<>>)
    <3>1. /\ DOMAIN fs' = DOMAIN fs \cup {root} /\ IsFcn(fs') /\ fs'[root] = <<>>
          /\ \A r \in DOMAIN fs \ {root} : fs'[r] = fs[r]
      BY <2>1 DEF With, IsFcn
    <3>. QED BY <1>4, <2>1, <3>1, EmptyTree DEF TypeOK, FsOK
  <2>2. CASE root \in DOMAIN fs /\ fs' = fs
    BY <2>2 DEF TypeOK, FsOK
  <2>. QED BY <1>1, <2>1, <2>2
<1>11. disturbed \subseteq disturbed' /\ disturbed' \subseteq Processes
  BY <1>1 DEF Enters, TypeOK
<1>12. proc'[p].pc # "home"
  BY <1>5, <1>8, <1>9
<1>13. Frame(p)
  BY <1>1, <1>9, <1>10, <1>11, <1>12 DEF Frame, TypeOK, root
<1>14. InTree(p)'
  BY <1>3, <1>7, <1>8, <1>9 DEF InTree
<1>15. RootOf(p)' = root
  BY <1>8, <1>9 DEF RootOf, TempRoot, root
<1>16. proc'[p].pc \in {"look", "unzip", "check"}
  BY <1>5, <1>8, <1>9
<1>17. Located(p)'
  BY <1>1, <1>2, <1>3, <1>4, <1>7, <1>8, <1>9, <1>10, <1>14, <1>15, <1>16 DEF Located, Setup
<1>. QED BY <1>1, <1>3, <1>4, <1>5, <1>8, <1>9, <1>13, <1>14, <1>17 DEF root, archive, pc

-----------------------------------------------------------------------------
(* What a step keeps of the invariant                                       *)

LEMMA FrameKeepsPlace ==
    ASSUME TypeOK, PlaceInv, NEW p \in Processes, Frame(p), Located(p)',
           proc'[p].pc # "unused" =>
                proc'[p].launch = proc[p].launch /\ proc'[p].pc # "open"
    PROVE  TypeOK' /\ PlaceInv'
<1>1. TypeOK'
  BY DEF Frame, Typed, TypeOK
<1>2. ASSUME NEW q \in Processes PROVE Located(q)'
  <2>1. CASE q = p
    BY <2>1
  <2>2. CASE q # p
    <3>1. proc'[q] = proc[q] /\ Located(q) /\ launches' = launches
      BY <2>2 DEF Frame, Others, PlaceInv
    <3>2. InTree(q)' = InTree(q) /\ RootOf(q)' = RootOf(q)
      BY <3>1 DEF InTree, RootOf, TempRoot
    <3>3. InTree(q) => proc[q].root \in DOMAIN fs'
      <4>1. InTree(q) => proc[q].root # TempRoot(p) /\ proc[q].root \in DOMAIN fs
        BY <2>2, <3>1, TempIsOwn DEF Frame, Located, InTree
      <4>. QED BY <4>1 DEF Frame
    <3>. QED BY <3>1, <3>2, <3>3 DEF Located
  <2>. QED BY <2>1, <2>2
<1>3. ASSUME NEW q \in Processes, proc'[q].pc # "unused"
      PROVE  /\ proc[q].pc # "unused" /\ proc'[q].launch = proc[q].launch
             /\ proc'[q].pc = "open" => proc[q].pc = "open"
  BY <1>3 DEF Frame, Others
<1>4. ASSUME NEW q \in Processes, NEW r \in Processes,
             proc'[q].pc # "unused", proc'[q].launch = proc'[r].launch
      PROVE  q = r
  <2>1. proc[q].pc # "unused" /\ proc[q].launch = proc'[r].launch /\ proc[q].launch >= 1
    <3>1. Located(q) /\ proc[q].pc # "unused" /\ proc[q].launch = proc'[r].launch
      BY <1>3, <1>4 DEF PlaceInv
    <3>. QED BY <3>1 DEF Located
  <2>2. proc'[r].pc # "unused"
    <3>1. CASE proc'[r].pc = "unused"
      <4>1. proc'[r] = Unused
        BY <1>2, <3>1 DEF Located
      <4>. QED BY <2>1, <4>1 DEF Unused
    <3>. QED BY <3>1
  <2>3. proc[r].launch = proc[q].launch
    BY <1>3, <2>1, <2>2
  <2>. QED BY <2>1, <2>3 DEF PlaceInv
<1>5. ASSUME NEW root \in DOMAIN fs', root[1] = "temp"
      PROVE  /\ root[2] <= launches'
             /\ \A q \in Processes : proc'[q].pc = "open" => proc'[q].launch # root[2]
  <2>1. CASE root \in DOMAIN fs
    <3>1. /\ root[2] <= launches
          /\ \A q \in Processes : proc[q].pc = "open" => proc[q].launch # root[2]
      BY <1>5, <2>1 DEF PlaceInv
    <3>. QED BY <1>3, <3>1 DEF Frame
  <2>2. CASE root \notin DOMAIN fs
    <3>1. proc[p].pc = "open" /\ root = RootOf(p) /\ launches' = launches
      BY <2>2 DEF Frame
    <3>2. Located(p) /\ proc[p].prog \in Zipapps
      BY <3>1 DEF PlaceInv, Located, Stages, Programs
    <3>3. root = TempRoot(p)
      BY <1>5, <3>1, <3>2, RootFacts
    <3>4. root[2] = proc[p].launch /\ proc[p].launch \in 1..launches
      BY <3>1, <3>2, <3>3 DEF TempRoot, Located
    <3>5. root[2] <= launches
      BY <3>4 DEF TypeOK
    <3>6. ASSUME NEW q \in Processes, proc'[q].pc = "open" PROVE proc'[q].launch # root[2]
      <4>1. proc[q].pc = "open" /\ proc'[q].launch = proc[q].launch /\ q # p
        BY <1>3, <3>6
      <4>. QED BY <3>1, <3>4, <4>1 DEF PlaceInv
    <3>. QED BY <3>1, <3>5, <3>6
  <2>. QED BY <2>1, <2>2
<1>. QED BY <1>1, <1>2, <1>4, <1>5 DEF PlaceInv

\* A process that does nothing keeps what it knows of its directory.
LEMMA OthersOwn ==
    ASSUME TypeOK, PlaceInv, OwnInv, NEW p \in Processes, Frame(p),
           proc'[p].pc = "home" => proc'[p].root = proc[p].root,
           NEW q \in Processes \ {p}
    PROVE  OwnOK(q)'
<1>1. proc'[q] = proc[q] /\ OwnOK(q) /\ Located(q)
  BY DEF Frame, Others, PlaceInv, OwnInv
<1>. DEFINE root == proc[q].root
<1>2. InTree(q)' = InTree(q) /\ EntryPath(q)' = EntryPath(q) /\ Node(q)' = Node(q)
  BY <1>1 DEF InTree, EntryPath, Node
<1>3. InTree(q) => root \in DOMAIN fs /\ root \in DOMAIN fs'
  <2>1. InTree(q) => proc[q].root # TempRoot(p) /\ proc[q].root \in DOMAIN fs
    BY <1>1, TempIsOwn DEF Frame, Located, InTree
  <2>. QED BY <2>1 DEF Frame
<1>4. InTree(q) /\ q \notin disturbed'
      => fs'[root] = fs[root] /\ AtHome(root)' \subseteq AtHome(root) /\ q \notin disturbed
  <2>. SUFFICES ASSUME InTree(q), q \notin disturbed'
                PROVE  /\ fs'[root] = fs[root] /\ q \notin disturbed
                       /\ AtHome(root)' \subseteq AtHome(root)
    OBVIOUS
  <2>1. fs'[root] = fs[root] /\ q \notin disturbed
    BY <1>3 DEF Frame
  <2>2. proc'[p].pc = "home" => proc'[p].root # root
    BY DEF Frame
  <2>3. \A o \in Processes \ {p} : proc'[o] = proc[o]
    BY DEF Frame, Others
  <2>4. AtHome(root)' \subseteq AtHome(root)
    BY <1>1, <2>2, <2>3 DEF AtHome
  <2>. QED BY <2>1, <2>4
<1>5. LeftInv(q)'
  <2>1. ASSUME proc[q].pc = "unzip" PROVE DOMAIN fs[root] \subseteq DOMAIN fs'[root]
    <3>1. InTree(q) /\ proc[q].how = "preamble" /\ proc[q].prog \in Zipapps
      BY <1>1, <2>1, HereFacts
    <3>2. CASE proc[p].root # root
      BY <1>3, <3>1, <3>2 DEF Frame
    <3>3. CASE proc[p].root = root /\ InTree(p)
      <4>1. Located(p) /\ proc[p].prog \in Zipapps /\ proc[p].pc # "unused"
        BY <3>3 DEF PlaceInv, InTree
      <4>2. proc[p].how \in {"main", "preamble"}
        BY <4>1, RootFacts
      <4>3. Uses(proc[p].prog, proc[p].how, root)
        BY <3>3 DEF Uses
      <4>4. proc[p].how = "preamble"
        BY <3>1, <4>1, <4>2, <4>3, SameTree
      <4>. QED BY <1>3, <3>1, <4>4 DEF Frame
    <3>4. CASE proc[p].root = root /\ ~InTree(p)
      <4>1. Located(p) /\ proc[p].pc # "unused"
        BY DEF PlaceInv, Frame
      <4>2. proc[p].pc # "open" => proc[p].how # "main"
        BY <3>4, <4>1 DEF Located, InTree, Programs
      <4>3. CASE proc[p].how # "main"
        BY <1>3, <3>1, <4>3 DEF Frame
      <4>4. CASE proc[p].pc = "open"
        BY <1>3, <3>1, <4>4 DEF Frame
      <4>. QED BY <4>2, <4>3, <4>4
    <3>. QED BY <3>2, <3>3, <3>4
  <2>. QED BY <1>1, <2>1 DEF LeftInv, OwnOK
<1>6. InTree(q) /\ q \notin disturbed' /\ proc[q].how = "main" => MainOwn(q)'
  BY <1>1, <1>2, <1>4 DEF OwnOK, MainOwn, Extracted
<1>7. InTree(q) /\ q \notin disturbed' /\ proc[q].how = "preamble" => PreambleOwn(q)'
  BY <1>1, <1>2, <1>4 DEF OwnOK, PreambleOwn, Frame
<1>. QED BY <1>1, <1>2, <1>5, <1>6, <1>7 DEF OwnOK

\* Steps after which nobody uses a directory that did not use it before.
LEMMA UsesKept ==
    ASSUME NEW p \in Processes, Others(p), InTree(p)' => InTree(p) /\ SameProgram(p),
           NEW b, NEW how, NEW root, Uses(b, how, root)'
    PROVE  Uses(b, how, root)
<1>1. \A q \in Processes \ {p} : InTree(q)' = InTree(q) /\ proc'[q] = proc[q]
  BY DEF Others, InTree
<1>2. SharedRoot' = SharedRoot
  BY DEF SharedRoot, HashOf
<1>. QED BY <1>1, <1>2 DEF Uses, SameProgram

\* A directory that is left as it is, by a process that does not stop halfway.
LEMMA TreeKept ==
    ASSUME TreeInv, NEW p \in Processes, Others(p), cut \subseteq cut',
           NEW b \in Zipapps, NEW root \in DOMAIN fs' \ cut',
           root \in DOMAIN fs, fs'[root] = fs[root],
           p \in AtHome(root) => p \in AtHome(root)',
           p \in Unzipping(root) => p \in Unzipping(root)',
           Uses(b, "main", root)' => Uses(b, "main", root),
           Uses(b, "preamble", root)' => Uses(b, "preamble", root)
    PROVE  TreeOK(b, root)'
<1>1. TreeOK(b, root)
  BY DEF TreeInv
<1>2. AtHome(root) \subseteq AtHome(root)'
  BY DEF Others, AtHome
<1>3. Unzipping(root) \subseteq Unzipping(root)'
  BY DEF Others, Unzipping
<1>4. FullTree(b, "main")' = FullTree(b, "main")
  BY DEF FullTree
<1>0. Ambiguous' = Ambiguous
  BY DEF Ambiguous, SharedRoot, HashOf
<1>5. ASSUME Uses(b, "main", root)', root \notin Ambiguous
      PROVE  MainTree(b, fs[root], root)'
  <2>1. MainTree(b, fs[root], root)
    BY <1>1, <1>5 DEF TreeOK
  <2>. QED BY <1>2, <1>4, <2>1 DEF MainTree
<1>6. ASSUME Uses(b, "preamble", root)' PROVE PreambleTree(b, fs[root], root)'
  <2>1. PreambleTree(b, fs[root], root)
    BY <1>1, <1>6 DEF TreeOK
  <2>. QED BY <1>3, <2>1 DEF PreambleTree
<1>. QED BY <1>0, <1>5, <1>6 DEF TreeOK

LEMMA QuietTrees ==
    ASSUME TreeInv, NEW p \in Processes, Others(p), cut \subseteq cut', SameTrees,
           InTree(p)' => InTree(p) /\ SameProgram(p),
           proc[p].pc = "home" => proc[p].root \in cut',
           proc[p].pc = "unzip" /\ proc[p].left # DOMAIN Archive[proc[p].prog]
            => proc[p].root \in cut'
    PROVE  TreeInv'
<1>. SUFFICES ASSUME NEW b \in Zipapps, NEW root \in DOMAIN fs' \ cut'
              PROVE  TreeOK(b, root)'
  BY DEF TreeInv
<1>1. p \notin AtHome(root) /\ p \notin Unzipping(root)
  BY DEF AtHome, Unzipping
<1>2. root \in DOMAIN fs /\ fs'[root] = fs[root]
  BY DEF SameTrees
<1>. QED BY <1>1, <1>2, UsesKept, TreeKept

\* The process changes its own directory, as all would that use it.
LEMMA BecomesTrees ==
    ASSUME TypeOK, PlaceInv, TreeInv, NEW p \in Processes, Stays(p), InTree(p),
           NEW new, Becomes(proc[p].root, new), cut \subseteq cut',
           \A b \in Zipapps :
               /\ proc[p].root \notin cut'
               /\ DOMAIN Archive[b] = DOMAIN Archive[proc[p].prog]
               => /\ proc[p].how = "main" /\ MainTree(b, fs[proc[p].root], proc[p].root)
                     => MainTree(b, fs[proc[p].root], proc[p].root)'
                  /\ /\ proc[p].how = "preamble" /\ Archive[b] = Archive[proc[p].prog]
                     /\ PreambleTree(b, fs[proc[p].root], proc[p].root)
                     => PreambleTree(b, fs[proc[p].root], proc[p].root)'
    PROVE  TreeInv'
<1>. SUFFICES ASSUME NEW b \in Zipapps, NEW root \in DOMAIN fs' \ cut'
              PROVE  TreeOK(b, root)'
  BY DEF TreeInv
<1>1. Others(p) /\ SameProgram(p) /\ DOMAIN fs' = DOMAIN fs
  BY DEF Stays, Frame, Becomes
<1>2. \A how : Uses(b, how, root)' => Uses(b, how, root)
  BY <1>1, UsesKept
<1>3. CASE root # proc[p].root
  <2>1. p \notin AtHome(root) /\ p \notin Unzipping(root)
    BY <1>3 DEF AtHome, Unzipping
  <2>2. fs'[root] = fs[root]
    BY <1>1, <1>3 DEF Becomes
  <2>. QED BY <1>1, <1>2, <2>1, <2>2, TreeKept
<1>4. CASE root = proc[p].root
  <2>1. TreeOK(b, root) /\ root = proc'[p].root
    BY <1>1, <1>4 DEF TreeInv, SameProgram
  <2>0. Ambiguous' = Ambiguous
    BY DEF Ambiguous, SharedRoot, HashOf
  <2>2. ASSUME Uses(b, "main", root)', root \notin Ambiguous
        PROVE  MainTree(b, fs[root], root)'
    <3>1. MainTree(b, fs[root], root) /\ Uses(b, "main", proc[p].root)
      BY <1>2, <1>4, <2>1, <2>2 DEF TreeOK
    <3>2. proc[p].how = "main" /\ DOMAIN Archive[b] = DOMAIN Archive[proc[p].prog]
      BY <1>4, <2>2, <3>1, SameTree
    <3>3. MainTree(b, fs[proc[p].root], proc[p].root)'
      BY <1>4, <3>1, <3>2
    <3>. QED BY <2>1, <3>3
  <2>3. ASSUME Uses(b, "preamble", root)' PROVE PreambleTree(b, fs[root], root)'
    <3>1. PreambleTree(b, fs[root], root) /\ Uses(b, "preamble", proc[p].root)
      BY <1>2, <1>4, <2>1, <2>3 DEF TreeOK
    <3>2. proc[p].how = "preamble" /\ Archive[b] = Archive[proc[p].prog]
      BY <3>1, SameTree
    <3>3. PreambleTree(b, fs[proc[p].root], proc[p].root)'
      BY <1>4, <3>1, <3>2
    <3>. QED BY <2>1, <3>3
  <2>. QED BY <2>0, <2>2, <2>3 DEF TreeOK
<1>. QED BY <1>3, <1>4

LEMMA StaysKeeps ==
    ASSUME TreesInv, NEW p \in Processes, Stays(p), TreeInv', OwnOK(p)'
    PROVE  TreesInv'
<1>1. /\ Frame(p) /\ Located(p)' /\ proc'[p].launch = proc[p].launch
      /\ proc'[p].pc # "open" /\ proc'[p].root = proc[p].root
  BY DEF Stays, SameProgram, InTree
<1>2. TypeOK' /\ PlaceInv'
  BY <1>1, FrameKeepsPlace DEF TreesInv
<1>3. \A q \in Processes \ {p} : OwnOK(q)'
  BY <1>1, OthersOwn DEF TreesInv
<1>. QED BY <1>2, <1>3 DEF TreesInv, OwnInv

LEMMA AwayKeeps ==
    ASSUME TreesInv, NEW p \in Processes, Away(p), SameTrees,
           proc[p].pc = "home" => proc[p].root \in cut',
           proc[p].pc = "unzip" /\ proc[p].left # DOMAIN Archive[proc[p].prog]
            => proc[p].root \in cut'
    PROVE  TreesInv'
<1>1. /\ Frame(p) /\ Located(p)' /\ ~InTree(p)'
      /\ proc'[p].pc # "open" /\ proc'[p].pc \notin Copying \cup {"home", "unzip"}
      /\ proc'[p].pc # "unused" => proc'[p].launch = proc[p].launch
  BY DEF Away, Copying
<1>2. TypeOK' /\ PlaceInv'
  BY <1>1, FrameKeepsPlace DEF TreesInv
<1>3. \A q \in Processes \ {p} : OwnOK(q)'
  BY <1>1, OthersOwn DEF TreesInv
<1>4. OwnOK(p)'
  BY <1>1 DEF OwnOK, LeftInv
<1>5. TreeInv'
  BY <1>1, QuietTrees DEF TreesInv, Frame
<1>. QED BY <1>2, <1>3, <1>4, <1>5 DEF TreesInv, OwnInv

\* Steps of a zipapp that change no directory.
LEMMA QuietKeeps ==
    ASSUME TreesInv, NEW p \in Processes, Stays(p), InTree(p), fs' = fs,
           proc[p].pc \notin {"home", "unzip"}, OwnOK(p)'
    PROVE  TreesInv'
<1>1. Others(p) /\ SameProgram(p) /\ cut \subseteq cut' /\ SameTrees
  BY DEF Stays, Frame, SameTrees
<1>2. TreeInv'
  BY <1>1, QuietTrees DEF TreesInv
<1>. QED BY <1>2, StaysKeeps

\* Who is at home in the directory of a process that changes it undisturbed.
LEMMA HomeFacts ==
    ASSUME NEW p \in Processes, Stays(p)
    PROVE  /\ AtHome(proc[p].root)' \subseteq AtHome(proc[p].root) \cup {p}
           /\ p \notin disturbed' => p \notin disturbed
           /\ proc'[p].root = proc[p].root /\ proc'[p].prog = proc[p].prog
           /\ proc'[p].how = proc[p].how
  BY DEF Stays, Frame, Others, AtHome, SameProgram

LEMMA LookKeeps == ASSUME TreesInv, NEW p \in Processes, Look(p) PROVE TreesInv'
<1>. DEFINE root == proc[p].root
<1>1. /\ Stays(p) /\ fs' = fs /\ cut' = cut /\ proc'[p].left = proc[p].left
      /\ proc'[p].pc = IF EntryPath(p) \in DOMAIN fs[root] THEN "unlink" ELSE "write"
  BY LookStep, MovedStays DEF TreesInv
<1>2. proc[p].pc = "look" /\ Located(p) /\ OwnOK(p)
  BY DEF Look, TreesInv, PlaceInv, OwnInv
<1>3. InTree(p) /\ proc[p].how = "main"
  BY <1>2, HereFacts DEF TreesInv, Copying
<1>4. EntryPath(p)' = EntryPath(p)
  BY <1>1 DEF EntryPath
<1>5. LeftInv(p)'
  BY <1>1, <1>2, HomeFacts DEF OwnOK, LeftInv, Copying
<1>6. ASSUME p \notin disturbed' PROVE MainOwn(p)'
  <2>1. /\ MainOwn(p) /\ AtHome(root)' \subseteq {p}
        /\ root' = root /\ proc'[p].prog = proc[p].prog
    BY <1>1, <1>2, <1>3, <1>6, HomeFacts DEF OwnOK, MainOwn
  <2>2. Extracted(p, DOMAIN Archive[proc[p].prog] \ proc[p].left)
    BY <1>2, <2>1 DEF MainOwn, Copying
  <2>3. Extracted(p, DOMAIN Archive[proc[p].prog] \ proc[p].left)'
    BY <1>1, <2>1, <2>2 DEF Extracted
  <2>. QED BY <1>1, <1>4, <2>1, <2>3 DEF MainOwn, Copying
<1>7. OwnOK(p)'
  BY <1>1, <1>3, <1>5, <1>6, HomeFacts DEF OwnOK
<1>. QED BY <1>1, <1>2, <1>3, <1>7, QuietKeeps

\* The next path is one of those left.
LEMMA EntryFacts ==
    ASSUME TypeOK, PlaceInv, NEW p \in Processes, OwnOK(p),
           proc[p].pc \in Copying \cup {"unzip"}
    PROVE  /\ EntryPath(p) \in proc[p].left
           /\ proc[p].left \subseteq DOMAIN Archive[proc[p].prog]
           /\ Plain(Node(p)) /\ Node(p) = Archive[proc[p].prog][EntryPath(p)]
           /\ InTree(p) /\ proc[p].prog \in Zipapps
           /\ proc[p].root \in DOMAIN fs
           /\ proc[p].how = IF proc[p].pc = "unzip" THEN "preamble" ELSE "main"
<1>1. /\ proc[p].left # {} /\ proc[p].left \subseteq DOMAIN Archive[proc[p].prog]
  BY DEF OwnOK, LeftInv
<1>2. /\ InTree(p) /\ proc[p].prog \in Zipapps /\ proc[p].root \in DOMAIN fs
      /\ proc[p].how = IF proc[p].pc = "unzip" THEN "preamble" ELSE "main"
  BY HereFacts DEF PlaceInv, Copying
<1>3. EntryPath(p) \in proc[p].left
  BY <1>1, <1>2, LinesAssumption, FirstOfPaths DEF EntryPath
<1>4. Plain(Node(p)) /\ Node(p) = Archive[proc[p].prog][EntryPath(p)]
  BY <1>1, <1>2, <1>3, ArchiveFacts DEF Node
<1>. QED BY <1>1, <1>2, <1>3, <1>4

\* What __main__.py may do to a directory of its own.
LEMMA MainTreeBecomes ==
    ASSUME NEW b \in Zipapps, NEW root \in DOMAIN fs, NEW new, Becomes(root, new),
           MainTree(b, fs[root], root),
           \A path \in DOMAIN new :
               \/ path \in DOMAIN fs[root] /\ new[path] = fs[root][path]
               \/ path \in DOMAIN Archive[b]
               \/ path = Runfile(VenvPython) /\ new[path] = Link(PythonActual)
               \/ /\ path = Runfile(PyvenvCfg)
                  /\ new[path] = File("home") \/ AtHome(root)' # {},
           \/ AtHome(root) \subseteq AtHome(root)'
           \/ new[Runfile(PyvenvCfg)] = File("home")
    PROVE  MainTree(b, fs[root], root)'
<1>. DEFINE V == Runfile(VenvPython)  P == Runfile(PyvenvCfg)
<1>0. V # P
  BY ProgramsAssumption
<1>. HIDE DEF V, P
<1>1. DOMAIN FullTree(b, "main") = DOMAIN Archive[b] \cup {V, P}
      /\ FullTree(b, "main")' = FullTree(b, "main")
  BY DEF FullTree, V, P
<1>2. fs'[root] = new
  BY DEF Becomes
<1>3. DOMAIN new \subseteq DOMAIN FullTree(b, "main")
  BY <1>1 DEF MainTree, V, P
<1>4. V \in DOMAIN new \ DOMAIN Archive[b] => new[V] = Link(PythonActual)
  BY <1>0 DEF MainTree, V, P
<1>5. P \in DOMAIN new \ DOMAIN Archive[b] => new[P] = File("home") \/ AtHome(root)' # {}
  BY <1>0 DEF MainTree, V, P
<1>. QED BY <1>1, <1>2, <1>3, <1>4, <1>5 DEF MainTree, V, P

\* A step that changes a directory of __main__.py and does not end.
LEMMA MainKeeps ==
    ASSUME TreesInv, NEW p \in Processes, Stays(p), InTree(p), proc[p].how = "main",
           NEW new, Becomes(proc[p].root, new),
           LET archive == DOMAIN Archive[proc[p].prog]
           IN  proc[p].root \notin cut' =>
               /\ \A path \in DOMAIN new :
                   \/ path \in DOMAIN fs[proc[p].root] /\ new[path] = fs[proc[p].root][path]
                   \/ path \in archive
                   \/ path = Runfile(VenvPython) /\ new[path] = Link(PythonActual)
                   \/ /\ path = Runfile(PyvenvCfg)
                      /\ new[path] = File("home") \/ proc'[p].pc = "home"
               /\ proc[p].pc # "home" \/ new[Runfile(PyvenvCfg)] = File("home"),
           OwnOK(p)'
    PROVE  TreesInv'
<1>. DEFINE root == proc[p].root
<1>1. Others(p) /\ cut \subseteq cut' /\ root \in DOMAIN fs /\ proc'[p].root = root
  BY DEF Stays, Frame, TreesInv, PlaceInv, Located, SameProgram, InTree
<1>2. AtHome(root) \subseteq AtHome(root)' \/ proc[p].pc = "home"
  BY <1>1 DEF AtHome, Others
<1>3. proc'[p].pc = "home" => AtHome(root)' # {}
  BY <1>1 DEF AtHome
<1>4. ASSUME NEW b \in Zipapps, root \notin cut',
             DOMAIN Archive[b] = DOMAIN Archive[proc[p].prog], MainTree(b, fs[root], root)
      PROVE  MainTree(b, fs[root], root)'
  <2>. HIDE DEF root
  <2>1. \A path \in DOMAIN new :
            \/ path \in DOMAIN fs[root] /\ new[path] = fs[root][path]
            \/ path \in DOMAIN Archive[b]
            \/ path = Runfile(VenvPython) /\ new[path] = Link(PythonActual)
            \/ /\ path = Runfile(PyvenvCfg)
               /\ new[path] = File("home") \/ AtHome(root)' # {}
    BY <1>3, <1>4 DEF root
  <2>2. \/ AtHome(root) \subseteq AtHome(root)'
        \/ new[Runfile(PyvenvCfg)] = File("home")
    BY <1>2, <1>4 DEF root
  <2>. QED BY <1>1, <1>4, <2>1, <2>2, MainTreeBecomes DEF root
<1>5. TreeInv'
  BY <1>1, <1>4, BecomesTrees DEF TreesInv
<1>. QED BY <1>5, StaysKeeps

LEMMA UnlinkKeeps == ASSUME TreesInv, NEW p \in Processes, Unlink(p) PROVE TreesInv'
<1>. DEFINE root == proc[p].root
            archive == DOMAIN Archive[proc[p].prog]
            new == Without(fs[root], EntryPath(p))
<1>1. /\ proc[p].pc = "unlink" /\ OwnOK(p) /\ TypeOK /\ PlaceInv
  BY DEF Unlink, TreesInv, OwnInv
<1>2. /\ EntryPath(p) \in proc[p].left /\ proc[p].left \subseteq archive
      /\ InTree(p) /\ root \in DOMAIN fs /\ proc[p].how = "main"
  BY <1>1, EntryFacts DEF Copying
<1>3. CASE /\ Moved(p) /\ proc'[p].left = proc[p].left /\ proc'[p].pc = "write"
           /\ Becomes(root, new) /\ cut' = cut
  <2>1. Stays(p) /\ fs'[root] = new /\ EntryPath(p)' = EntryPath(p)
    BY <1>3, MovedStays DEF Becomes, EntryPath
  <2>2. /\ DOMAIN new = DOMAIN fs[root] \ {EntryPath(p)}
        /\ \A path \in DOMAIN new : new[path] = fs[root][path]
    BY DEF Without
  <2>. HIDE DEF new
  <2>3. LeftInv(p)'
    BY <1>1, <1>3, <2>1, HomeFacts DEF OwnOK, LeftInv, Copying
  <2>4. ASSUME p \notin disturbed' PROVE MainOwn(p)'
    <3>1. /\ MainOwn(p) /\ AtHome(root)' \subseteq {p}
          /\ root' = root /\ proc'[p].prog = proc[p].prog
      BY <1>1, <1>2, <1>3, <2>1, <2>4, HomeFacts DEF OwnOK, MainOwn
    <3>2. Extracted(p, archive \ proc[p].left)
      BY <1>1, <3>1 DEF MainOwn, Copying
    <3>3. Extracted(p, archive \ proc[p].left)'
      BY <1>2, <1>3, <2>1, <2>2, <3>1, <3>2 DEF Extracted
    <3>. QED BY <1>3, <2>1, <2>2, <3>1, <3>3 DEF MainOwn, Copying
  <2>5. OwnOK(p)'
    BY <1>2, <2>1, <2>3, <2>4, HomeFacts DEF OwnOK
  <2>. QED BY <1>1, <1>2, <1>3, <2>1, <2>2, <2>5, MainKeeps
<1>4. CASE Ended(p) /\ fs' = fs
  BY <1>1, <1>4, EndedIsAway, AwayKeeps DEF SameTrees
<1>. QED BY <1>1, <1>3, <1>4, UnlinkStep

\* After the last file of the archive all of it is there.
LEMMA AdvancedLeft ==
    ASSUME NEW p \in Processes, OwnOK(p), Stays(p), Advanced(p, "look", "check"),
           proc[p].pc \in Copying
    PROVE  /\ LeftInv(p)'
           /\ proc'[p].pc \in {"look", "check"}
           /\ proc'[p].pc = "check" => proc[p].left = {EntryPath(p)}
  BY HomeFacts DEF OwnOK, LeftInv, Advanced, Copying

\* ... a step that puts the right node where the next path of the archive is.
LEMMA NextExtracted ==
    ASSUME TypeOK, PlaceInv, NEW p \in Processes, OwnOK(p), Stays(p),
           Advanced(p, "look", "check"), proc[p].pc \in Copying, p \notin disturbed',
           fs'[proc[p].root] = With(fs[proc[p].root], EntryPath(p), Node(p))
    PROVE  MainOwn(p)'
<1>. DEFINE root == proc[p].root
            archive == DOMAIN Archive[proc[p].prog]
<1>1. /\ EntryPath(p) \in proc[p].left /\ proc[p].left \subseteq archive
      /\ InTree(p) /\ proc[p].how = "main"
      /\ Node(p) = Archive[proc[p].prog][EntryPath(p)]
  BY EntryFacts DEF Copying
<1>2. /\ MainOwn(p) /\ AtHome(root)' \subseteq {p}
      /\ root' = root /\ proc'[p].prog = proc[p].prog
  BY <1>1, HomeFacts DEF OwnOK, MainOwn, Copying
<1>3. Extracted(p, archive \ proc[p].left)
  BY <1>2 DEF MainOwn
<1>4. \A path \in archive \ proc'[p].left :
        path \in DOMAIN fs'[root] /\ fs'[root][path] = Archive[proc[p].prog][path]
  <2>. SUFFICES ASSUME NEW path \in archive \ proc'[p].left
                PROVE  /\ path \in DOMAIN fs'[root]
                       /\ fs'[root][path] = Archive[proc[p].prog][path]
    OBVIOUS
  <2>1. CASE path = EntryPath(p)
    BY <1>1, <2>1 DEF With
  <2>2. CASE path # EntryPath(p)
    <3>1. path \in archive \ proc[p].left
      BY <2>2 DEF Advanced
    <3>. QED BY <1>3, <2>2, <3>1 DEF With, Extracted
  <2>. QED BY <2>1, <2>2
<1>5. Extracted(p, archive \ proc[p].left)'
  BY <1>2, <1>4 DEF Extracted
<1>6. proc'[p].pc = "check" => Extracted(p, archive)'
  <2>1. proc'[p].pc = "check" => proc'[p].left = {}
    BY AdvancedLeft DEF Advanced
  <2>. QED BY <1>2, <1>4, <2>1 DEF Extracted
<1>7. proc'[p].pc \in {"look", "check"}
  BY AdvancedLeft
<1>. QED BY <1>2, <1>5, <1>6, <1>7 DEF MainOwn, Copying

LEMMA WriteKeeps == ASSUME TreesInv, NEW p \in Processes, Write(p) PROVE TreesInv'
<1>. DEFINE root == proc[p].root
            archive == DOMAIN Archive[proc[p].prog]
            new == With(fs[root], Opened(p), Written(p))
<1>1. /\ proc[p].pc = "write" /\ OwnOK(p) /\ TypeOK /\ PlaceInv
  BY DEF Write, TreesInv, OwnInv
<1>2. /\ EntryPath(p) \in proc[p].left /\ proc[p].left \subseteq archive
      /\ InTree(p) /\ root \in DOMAIN fs /\ proc[p].how = "main" /\ Plain(Node(p))
  BY <1>1, EntryFacts DEF Copying
<1>3. /\ Stays(p) /\ Becomes(root, new)
      /\ Opened(p) \in archive \/ root \in cut'
      /\ \/ /\ Node(p).kind = "link" /\ proc'[p].left = proc[p].left
            /\ proc'[p].pc = "replace"
         \/ Node(p).kind # "link" /\ Advanced(p, "look", "check")
  BY <1>1, WriteStep, MovedStays
<1>4. fs'[root] = new
  BY <1>3 DEF Becomes
<1>5. \A path \in DOMAIN new :
        path = Opened(p) \/ (path \in DOMAIN fs[root] /\ new[path] = fs[root][path])
  BY DEF With
<1>6. p \notin disturbed'
      => /\ MainOwn(p) /\ AtHome(root)' \subseteq {p} /\ root' = root
         /\ proc'[p].prog = proc[p].prog /\ Opened(p) = EntryPath(p)
  BY <1>1, <1>2, <1>3, HomeFacts DEF OwnOK, MainOwn, Opened, Through
<1>7. CASE Node(p).kind = "link" /\ proc'[p].left = proc[p].left /\ proc'[p].pc = "replace"
  <2>1. LeftInv(p)' /\ EntryPath(p)' = EntryPath(p)
    BY <1>1, <1>3, <1>7, HomeFacts DEF OwnOK, LeftInv, Copying, EntryPath
  <2>2. ASSUME p \notin disturbed' PROVE MainOwn(p)'
    <3>1. Extracted(p, archive \ proc[p].left)
      BY <1>1, <1>6, <2>2 DEF MainOwn, Copying
    <3>2. Node(p)' = Node(p)
      BY <1>6, <2>1, <2>2 DEF Node
    <3>3. new = With(fs[root], EntryPath(p), Written(p))
      BY <1>6, <2>2
    <3>. HIDE DEF new
    <3>4. /\ EntryPath(p) \in DOMAIN new /\ new[EntryPath(p)] = Written(p)
          /\ \A path \in archive \ proc[p].left : path \in DOMAIN fs[root] =>
                path \in DOMAIN new /\ new[path] = fs[root][path]
      BY <1>2, <3>3 DEF With
    <3>5. Extracted(p, archive \ proc[p].left)'
      BY <1>4, <1>6, <1>7, <2>2, <3>1, <3>4 DEF Extracted
    <3>. QED BY <1>4, <1>6, <1>7, <2>1, <2>2, <3>2, <3>4, <3>5 DEF MainOwn, Copying, Written
  <2>3. OwnOK(p)'
    BY <1>2, <1>3, <2>1, <2>2, HomeFacts DEF OwnOK
  <2>. QED BY <1>1, <1>2, <1>3, <1>5, <2>3, MainKeeps
<1>8. CASE Node(p).kind # "link" /\ Advanced(p, "look", "check")
  <2>1. LeftInv(p)'
    BY <1>1, <1>3, <1>8, AdvancedLeft DEF Copying
  <2>2. Written(p) = Node(p)
    BY <1>2, <1>8 DEF Plain, Written
  <2>3. p \notin disturbed' => MainOwn(p)'
    BY <1>1, <1>3, <1>4, <1>6, <1>8, <2>2, NextExtracted DEF Copying
  <2>4. OwnOK(p)'
    BY <1>2, <1>3, <2>1, <2>3, HomeFacts DEF OwnOK
  <2>. QED BY <1>1, <1>2, <1>3, <1>5, <2>4, MainKeeps
<1>. QED BY <1>3, <1>7, <1>8

LEMMA ReplaceKeeps == ASSUME TreesInv, NEW p \in Processes, Replace(p) PROVE TreesInv'
<1>. DEFINE root == proc[p].root
            archive == DOMAIN Archive[proc[p].prog]
            node == Link(fs[root][Opened(p)].to)
            new == With(fs[root], EntryPath(p), node)
<1>1. /\ proc[p].pc = "replace" /\ OwnOK(p) /\ TypeOK /\ PlaceInv
  BY DEF Replace, TreesInv, OwnInv
<1>2. /\ EntryPath(p) \in proc[p].left /\ proc[p].left \subseteq archive
      /\ InTree(p) /\ root \in DOMAIN fs /\ proc[p].how = "main" /\ Plain(Node(p))
  BY <1>1, EntryFacts DEF Copying
<1>3. CASE Moved(p) /\ Advanced(p, "look", "check") /\ Becomes(root, new)
  <2>1. Stays(p) /\ fs'[root] = new
    BY <1>3, MovedStays DEF Becomes
  <2>2. \A path \in DOMAIN new :
          path = EntryPath(p) \/ (path \in DOMAIN fs[root] /\ new[path] = fs[root][path])
    BY DEF With
  <2>3. LeftInv(p)'
    BY <1>1, <1>3, <2>1, AdvancedLeft DEF Copying
  <2>4. ASSUME p \notin disturbed' PROVE MainOwn(p)'
    <3>1. MainOwn(p)
      BY <1>1, <1>2, <2>1, <2>4, HomeFacts DEF OwnOK
    <3>2. Node(p).kind = "link" /\ fs[root][EntryPath(p)] = [Node(p) EXCEPT !.kind = "file"]
      BY <1>1, <3>1 DEF MainOwn, Copying
    <3>3. Opened(p) = EntryPath(p)
      BY <1>2, <3>2 DEF Opened, Through, Plain
    <3>4. node = Node(p)
      BY <1>2, <3>2, <3>3 DEF Plain
    <3>. HIDE DEF node
    <3>. QED BY <1>1, <1>3, <2>1, <2>4, <3>4, NextExtracted DEF Copying
  <2>5. OwnOK(p)'
    BY <1>2, <2>1, <2>3, <2>4, HomeFacts DEF OwnOK
  <2>. QED BY <1>1, <1>2, <1>3, <2>1, <2>2, <2>5, MainKeeps
<1>4. CASE Ended(p) /\ fs' = fs
  BY <1>1, <1>4, EndedIsAway, AwayKeeps DEF SameTrees
<1>. QED BY <1>1, <1>3, <1>4, ReplaceStep

\* Where a program of __main__.py is that has extracted its archive.
LEMMA SetupFacts ==
    ASSUME TreesInv, NEW p \in Processes, proc[p].pc \in Setup
    PROVE  /\ OwnOK(p) /\ TypeOK /\ PlaceInv /\ InTree(p) /\ proc[p].prog \in Zipapps
           /\ proc[p].root \in DOMAIN fs /\ proc[p].how = "main"
           /\ p \notin disturbed =>
                MainOwn(p) /\ Extracted(p, DOMAIN Archive[proc[p].prog])
<1>1. OwnOK(p) /\ TypeOK /\ PlaceInv
  BY DEF TreesInv, OwnInv
<1>2. /\ InTree(p) /\ proc[p].root \in DOMAIN fs /\ proc[p].how = "main"
      /\ proc[p].prog \in Zipapps
  BY <1>1, HereFacts DEF PlaceInv
<1>3. proc[p].pc \notin Copying
  BY DEF Setup, Copying
<1>. QED BY <1>1, <1>2, <1>3 DEF OwnOK, MainOwn

\* Finishing the venv replaces no file of the archive.
LEMMA StillExtracted ==
    ASSUME NEW p \in Processes, Stays(p), Extracted(p, DOMAIN Archive[proc[p].prog]),
           \A path \in DOMAIN Archive[proc[p].prog] : path \in DOMAIN fs[proc[p].root] =>
               /\ path \in DOMAIN fs'[proc[p].root]
               /\ fs'[proc[p].root][path] = fs[proc[p].root][path]
    PROVE  Extracted(p, DOMAIN Archive[proc[p].prog])'
<1>1. proc'[p].root = proc[p].root /\ proc'[p].prog = proc[p].prog
  BY HomeFacts
<1>. QED BY <1>1 DEF Extracted

\* All that MainOwn says of a program that has left the archive behind.
LEMMA SetupOwn ==
    ASSUME NEW p \in Processes, Stays(p), proc[p].how = "main", InTree(p),
           proc'[p].pc \in Setup \cup {"check", "stage2", "run"}, OwnOK(p),
           p \notin disturbed' =>
               /\ Extracted(p, DOMAIN Archive[proc[p].prog])'
               /\ AtHome(proc[p].root)' \subseteq {p}
               /\ proc'[p].pc \in {"cfg", "home", "stage2", "run"} =>
                    Runfile(VenvPython) \in DOMAIN fs'[proc[p].root]
               /\ proc'[p].pc \in {"home", "stage2", "run"} =>
                    Runfile(PyvenvCfg) \in DOMAIN fs'[proc[p].root]
               /\ proc'[p].pc = "home" =>
                    Runfile(PyvenvCfg) \notin DOMAIN Archive[proc[p].prog]
    PROVE  OwnOK(p)'
<1>1. /\ proc'[p].root = proc[p].root /\ proc'[p].prog = proc[p].prog
      /\ proc'[p].how = proc[p].how
  BY HomeFacts
<1>2. proc'[p].pc \notin Copying \cup {"unzip"}
  BY DEF Setup, Copying
<1>3. LeftInv(p)'
  BY <1>2 DEF LeftInv
<1>4. p \notin disturbed' => MainOwn(p)'
  BY <1>1, <1>2 DEF MainOwn, Copying
<1>. QED BY <1>1, <1>3, <1>4 DEF OwnOK

LEMMA LookForPythonKeeps ==
    ASSUME TreesInv, NEW p \in Processes, LookForPython(p) PROVE TreesInv'
<1>1. proc[p].pc = "venv" /\ proc[p].pc \in Setup
  BY DEF LookForPython, Setup
<1>2. /\ OwnOK(p) /\ TypeOK /\ PlaceInv /\ InTree(p) /\ proc[p].how = "main"
      /\ p \notin disturbed => MainOwn(p) /\ Extracted(p, DOMAIN Archive[proc[p].prog])
  BY <1>1, SetupFacts
<1>3. /\ Stays(p) /\ fs' = fs
      /\ proc'[p].pc = IF Runfile(VenvPython) \in DOMAIN fs[proc[p].root]
                       THEN "cfg" ELSE "link"
  BY <1>2, LookForPythonStep, MovedStays
<1>4. p \notin disturbed' => /\ Extracted(p, DOMAIN Archive[proc[p].prog])'
                             /\ AtHome(proc[p].root)' \subseteq {p}
  BY <1>2, <1>3, HomeFacts, StillExtracted DEF MainOwn
<1>5. OwnOK(p)'
  BY <1>2, <1>3, <1>4, SetupOwn DEF Setup
<1>. QED BY <1>1, <1>2, <1>3, <1>5, QuietKeeps

LEMMA LinkPythonKeeps ==
    ASSUME TreesInv, NEW p \in Processes, LinkPython(p) PROVE TreesInv'
<1>. DEFINE root == proc[p].root
            archive == DOMAIN Archive[proc[p].prog]
            V == Runfile(VenvPython)
            new == With(fs[root], V, Link(PythonActual))
<1>1. proc[p].pc = "link" /\ proc[p].pc \in Setup
  BY DEF LinkPython, Setup
<1>2. /\ OwnOK(p) /\ TypeOK /\ PlaceInv /\ InTree(p) /\ proc[p].how = "main"
      /\ p \notin disturbed => MainOwn(p) /\ Extracted(p, archive)
  BY <1>1, SetupFacts
<1>3. CASE Moved(p) /\ proc'[p].pc = "cfg" /\ V \notin DOMAIN fs[root] /\ Becomes(root, new)
  <2>1. Stays(p) /\ fs'[root] = new
    BY <1>3, MovedStays DEF Becomes
  <2>2. /\ DOMAIN new = DOMAIN fs[root] \cup {V} /\ new[V] = Link(PythonActual)
        /\ \A path \in DOMAIN fs[root] \ {V} : new[path] = fs[root][path]
    BY DEF With
  <2>. HIDE DEF new
  <2>3. ASSUME p \notin disturbed'
        PROVE  Extracted(p, archive)' /\ AtHome(root)' \subseteq {p}
    <3>1. MainOwn(p) /\ Extracted(p, archive) /\ AtHome(root)' \subseteq {p}
      BY <1>2, <1>3, <2>1, <2>3, HomeFacts DEF MainOwn
    <3>. QED BY <1>3, <2>1, <2>2, <3>1, StillExtracted
  <2>4. OwnOK(p)'
    BY <1>2, <1>3, <2>1, <2>2, <2>3, SetupOwn DEF Setup
  <2>5. \A path \in DOMAIN new :
            \/ path \in DOMAIN fs[root] /\ new[path] = fs[root][path]
            \/ path = V /\ new[path] = Link(PythonActual)
    BY <1>3, <2>2
  <2>. QED BY <1>1, <1>2, <1>3, <2>1, <2>4, <2>5, MainKeeps
<1>4. CASE Ended(p) /\ fs' = fs
  BY <1>1, <1>4, EndedIsAway, AwayKeeps DEF SameTrees
<1>. QED BY <1>2, <1>3, <1>4, LinkPythonStep

LEMMA OpenPyvenvCfgKeeps ==
    ASSUME TreesInv, NEW p \in Processes, OpenPyvenvCfg(p) PROVE TreesInv'
<1>. DEFINE root == proc[p].root
            archive == DOMAIN Archive[proc[p].prog]
            P == Runfile(PyvenvCfg)
            new == With(fs[root], P, File(""))
<1>1. proc[p].pc = "cfg" /\ proc[p].pc \in Setup
  BY DEF OpenPyvenvCfg, Setup
<1>2. /\ OwnOK(p) /\ TypeOK /\ PlaceInv /\ InTree(p) /\ proc[p].how = "main"
      /\ p \notin disturbed =>
            /\ MainOwn(p) /\ Extracted(p, archive)
            /\ Runfile(VenvPython) \in DOMAIN fs[root]
  BY <1>1, SetupFacts DEF MainOwn
<1>3. Stays(p)
  BY <1>2, OpenPyvenvCfgStep, MovedStays
<1>4. CASE P \in DOMAIN fs[root] /\ fs' = fs /\ proc'[p].pc = "stage2"
  <2>1. p \notin disturbed' => Extracted(p, archive)' /\ AtHome(root)' \subseteq {p}
    BY <1>2, <1>3, <1>4, HomeFacts, StillExtracted DEF MainOwn
  <2>2. OwnOK(p)'
    BY <1>2, <1>3, <1>4, <2>1, HomeFacts, SetupOwn DEF Setup
  <2>. QED BY <1>1, <1>2, <1>3, <1>4, <2>2, QuietKeeps
<1>5. CASE P \notin DOMAIN fs[root] /\ Becomes(root, new) /\ proc'[p].pc = "home"
  <2>1. fs'[root] = new
    BY <1>5 DEF Becomes
  <2>2. /\ DOMAIN new = DOMAIN fs[root] \cup {P}
        /\ \A path \in DOMAIN fs[root] \ {P} : new[path] = fs[root][path]
    BY DEF With
  <2>. HIDE DEF new
  <2>3. ASSUME p \notin disturbed'
        PROVE  /\ Extracted(p, archive)' /\ AtHome(root)' \subseteq {p}
               /\ P \notin archive
    <3>1. MainOwn(p) /\ Extracted(p, archive) /\ AtHome(root)' \subseteq {p}
      BY <1>2, <1>3, <2>3, HomeFacts DEF MainOwn
    <3>2. P \notin archive
      BY <1>5, <3>1 DEF Extracted
    <3>. QED BY <1>3, <1>5, <2>1, <2>2, <3>1, <3>2, StillExtracted
  <2>4. OwnOK(p)'
    BY <1>2, <1>3, <1>5, <2>1, <2>2, <2>3, HomeFacts, SetupOwn DEF Setup
  <2>5. \A path \in DOMAIN new :
            \/ path \in DOMAIN fs[root] /\ new[path] = fs[root][path]
            \/ path = P
    BY <1>5, <2>2
  <2>. QED BY <1>1, <1>2, <1>3, <1>5, <2>4, <2>5, MainKeeps
<1>. QED BY <1>2, <1>4, <1>5, OpenPyvenvCfgStep

LEMMA WriteHomeKeeps ==
    ASSUME TreesInv, NEW p \in Processes, WriteHome(p) PROVE TreesInv'
<1>. DEFINE root == proc[p].root
            archive == DOMAIN Archive[proc[p].prog]
            P == Runfile(PyvenvCfg)
            new == With(fs[root], P, File("home"))
<1>1. proc[p].pc = "home" /\ proc[p].pc \in Setup
  BY DEF WriteHome, Setup
<1>2. /\ OwnOK(p) /\ TypeOK /\ PlaceInv /\ InTree(p) /\ proc[p].how = "main"
      /\ p \notin disturbed =>
            /\ MainOwn(p) /\ Extracted(p, archive) /\ P \notin archive
            /\ Runfile(VenvPython) \in DOMAIN fs[root]
  BY <1>1, SetupFacts DEF MainOwn
<1>3. Stays(p) /\ proc'[p].pc = "stage2" /\ Becomes(root, new)
  BY <1>2, WriteHomeStep, MovedStays
<1>4. fs'[root] = new
  BY <1>3 DEF Becomes
<1>5. /\ DOMAIN new = DOMAIN fs[root] \cup {P} /\ new[P] = File("home")
      /\ \A path \in DOMAIN fs[root] \ {P} : new[path] = fs[root][path]
  BY DEF With
<1>. HIDE DEF new
<1>6. ASSUME p \notin disturbed' PROVE Extracted(p, archive)' /\ AtHome(root)' \subseteq {p}
  <2>1. /\ MainOwn(p) /\ Extracted(p, archive) /\ AtHome(root)' \subseteq {p}
        /\ P \notin archive
    BY <1>2, <1>3, <1>6, HomeFacts DEF MainOwn
  <2>. QED BY <1>3, <1>4, <1>5, <2>1, StillExtracted
<1>7. OwnOK(p)'
  BY <1>2, <1>3, <1>4, <1>5, <1>6, HomeFacts, SetupOwn DEF Setup
<1>8. \A path \in DOMAIN new :
          \/ path \in DOMAIN fs[root] /\ new[path] = fs[root][path]
          \/ path = P /\ new[path] = File("home")
  BY <1>5
<1>. QED BY <1>1, <1>2, <1>3, <1>5, <1>7, <1>8, MainKeeps

LEMMA UnzipKeeps == ASSUME TreesInv, NEW p \in Processes, Unzip(p) PROVE TreesInv'
<1>. DEFINE root == proc[p].root
            archive == Archive[proc[p].prog]
            path == EntryPath(p)
            new == fs'[root]
<1>1. /\ proc[p].pc = "unzip" /\ OwnOK(p) /\ TypeOK /\ PlaceInv
  BY DEF Unzip, TreesInv, OwnInv
<1>2. /\ path \in proc[p].left /\ proc[p].left \subseteq DOMAIN archive
      /\ InTree(p) /\ root \in DOMAIN fs /\ proc[p].how = "preamble"
      /\ Node(p) = archive[path]
  BY <1>1, EntryFacts
<1>3. /\ Stays(p) /\ Advanced(p, "unzip", "check") /\ cut' = cut
      /\ \/ path \in DOMAIN fs[root] /\ fs' = fs
         \/ /\ path \notin DOMAIN fs[root]
            /\ Becomes(root, With(fs[root], path, Node(p)))
  BY <1>1, UnzipStep, MovedStays
<1>4. DOMAIN archive \ proc[p].left \subseteq DOMAIN fs[root]
  BY <1>1 DEF OwnOK, LeftInv
<1>5. /\ proc'[p].root = root /\ proc'[p].prog = proc[p].prog /\ proc'[p].how = "preamble"
      /\ InTree(p)'
  BY <1>2, <1>3, HomeFacts DEF Stays
<1>6. Becomes(root, new)
  <2>1. FsOK'
    BY <1>3 DEF Stays, Frame
  <2>. QED BY <1>3, <2>1 DEF Becomes
<1>7. /\ DOMAIN new = DOMAIN fs[root] \cup {path}
      /\ \A x \in DOMAIN new :
            \/ x \in DOMAIN fs[root] /\ new[x] = fs[root][x]
            \/ x = path /\ new[x] = archive[x]
  <2>1. CASE path \in DOMAIN fs[root] /\ fs' = fs
    BY <2>1
  <2>2. CASE path \notin DOMAIN fs[root] /\ Becomes(root, With(fs[root], path, Node(p)))
    <3>1. new = With(fs[root], path, Node(p))
      BY <2>2 DEF Becomes
    <3>. HIDE DEF new, archive
    <3>. QED BY <1>2, <3>1 DEF With
  <2>. QED BY <1>3, <2>1, <2>2
<1>. HIDE DEF new
<1>8. \/ proc'[p].pc = "check" /\ DOMAIN archive \subseteq DOMAIN new
      \/ /\ proc'[p].pc = "unzip" /\ proc'[p].left # {}
         /\ proc'[p].left \subseteq DOMAIN archive \ {path}
         /\ DOMAIN archive \ proc'[p].left \subseteq DOMAIN new
  <2>1. CASE proc[p].left = {path}
    BY <1>3, <1>4, <1>7, <2>1 DEF Advanced
  <2>2. CASE proc[p].left # {path}
    BY <1>2, <1>3, <1>4, <1>7, <2>2 DEF Advanced
  <2>. QED BY <2>1, <2>2
<1>9. ASSUME NEW b \in Zipapps, Archive[b] = archive, PreambleTree(b, fs[root], root)
      PROVE  PreambleTree(b, fs[root], root)'
  <2>1. \A x \in DOMAIN new : x \in DOMAIN archive /\ new[x] = archive[x]
    BY <1>2, <1>7, <1>9 DEF PreambleTree
  <2>2. CASE proc'[p].pc = "check" /\ DOMAIN archive \subseteq DOMAIN new
    <3>1. DOMAIN new = DOMAIN archive
      BY <2>1, <2>2
    <3>. QED BY <1>5, <1>9, <2>1, <3>1 DEF PreambleTree, new
  <2>3. CASE proc'[p].pc = "unzip" /\ proc'[p].left \subseteq DOMAIN archive \ {path}
    <3>1. p \in Unzipping(root)'
      BY <1>2, <1>5, <2>3 DEF Unzipping
    <3>. QED BY <1>5, <1>9, <2>1, <3>1 DEF PreambleTree, new
  <2>. QED BY <1>8, <2>2, <2>3
<1>10. TreeInv'
  BY <1>1, <1>2, <1>3, <1>6, <1>9, BecomesTrees DEF TreesInv
<1>11. OwnOK(p)'
  <2>1. LeftInv(p)'
    BY <1>5, <1>8 DEF LeftInv, Copying, new
  <2>2. PreambleOwn(p)'
    BY <1>5, <1>8 DEF PreambleOwn, new
  <2>. QED BY <1>5, <2>1, <2>2 DEF OwnOK
<1>. QED BY <1>3, <1>10, <1>11, StaysKeeps

LEMMA StartKeeps == ASSUME TreesInv, NEW p \in Processes, Start(p) PROVE TreesInv'
<1>1. proc[p].pc = "check" /\ TypeOK /\ PlaceInv /\ OwnOK(p) /\ Located(p)
  BY DEF Start, TreesInv, OwnInv, PlaceInv
<1>2. InTree(p) /\ proc[p].how \in {"main", "preamble"} /\ proc[p].root \in DOMAIN fs
  BY <1>1, HereFacts
<1>3. /\ fs' = fs /\ cut' = cut /\ disturbed' = disturbed
      /\ \/ Stays(p) /\ proc'[p].pc = IF proc[p].how = "main" THEN "venv" ELSE "stage2"
         \/ Ended(p)
  BY <1>1, StartStep
<1>4. CASE Stays(p) /\ proc'[p].pc = IF proc[p].how = "main" THEN "venv" ELSE "stage2"
  <2>1. CASE proc[p].how = "main"
    <3>1. p \notin disturbed => MainOwn(p) /\ Extracted(p, DOMAIN Archive[proc[p].prog])
      BY <1>1, <1>2, <2>1 DEF OwnOK, MainOwn, Copying
    <3>2. p \notin disturbed' => /\ Extracted(p, DOMAIN Archive[proc[p].prog])'
                                 /\ AtHome(proc[p].root)' \subseteq {p}
      BY <1>3, <1>4, <3>1, HomeFacts, StillExtracted DEF MainOwn
    <3>3. OwnOK(p)'
      BY <1>1, <1>2, <1>4, <2>1, <3>2, SetupOwn DEF Setup
    <3>. QED BY <1>1, <1>2, <1>3, <1>4, <3>3, QuietKeeps
  <2>2. CASE proc[p].how = "preamble"
    <3>1. p \notin disturbed => PreambleOwn(p)
      BY <1>1, <1>2, <2>2 DEF OwnOK
    <3>2. p \notin disturbed' => PreambleOwn(p)'
      BY <1>1, <1>3, <1>4, <3>1, HomeFacts DEF PreambleOwn
    <3>3. LeftInv(p)'
      BY <1>4, <2>2 DEF LeftInv, Copying
    <3>4. OwnOK(p)'
      BY <1>4, <2>2, <3>2, <3>3, HomeFacts DEF OwnOK
    <3>. QED BY <1>1, <1>2, <1>3, <1>4, <3>4, QuietKeeps
  <2>. QED BY <1>2, <2>1, <2>2
<1>5. CASE Ended(p)
  BY <1>1, <1>3, <1>5, EndedIsAway, AwayKeeps DEF SameTrees
<1>. QED BY <1>3, <1>4, <1>5

LEMMA RunStage2Keeps == ASSUME TreesInv, NEW p \in Processes, RunStage2(p) PROVE TreesInv'
<1>1. proc[p].pc = "stage2" /\ TypeOK /\ PlaceInv /\ OwnOK(p) /\ Located(p)
  BY DEF RunStage2, TreesInv, OwnInv, PlaceInv
<1>2. /\ SameTrees /\ cut' = cut
      /\ \/ Stays(p) /\ fs' = fs /\ proc'[p].pc = "run"
         \/ Away(p)
  BY <1>1, RunStage2Step
<1>3. CASE Stays(p) /\ fs' = fs /\ proc'[p].pc = "run"
  <2>1. InTree(p)
    BY <1>1, <1>3 DEF Stays, InTree, SameProgram
  <2>2. CASE proc[p].how = "main"
    <3>1. p \notin disturbed => MainOwn(p) /\ Extracted(p, DOMAIN Archive[proc[p].prog])
      BY <1>1, <2>1, <2>2 DEF OwnOK, MainOwn, Copying
    <3>2. p \notin disturbed' =>
            /\ Extracted(p, DOMAIN Archive[proc[p].prog])'
            /\ AtHome(proc[p].root)' \subseteq {p}
            /\ Runfile(VenvPython) \in DOMAIN fs'[proc[p].root]
            /\ Runfile(PyvenvCfg) \in DOMAIN fs'[proc[p].root]
      BY <1>1, <1>3, <3>1, HomeFacts, StillExtracted DEF MainOwn
    <3>3. OwnOK(p)'
      BY <1>1, <1>3, <2>1, <2>2, <3>2, SetupOwn
    <3>. QED BY <1>1, <1>3, <2>1, <3>3, QuietKeeps
  <2>3. CASE proc[p].how # "main"
    <3>1. p \notin disturbed /\ proc[p].how = "preamble" => PreambleOwn(p)
      BY <1>1, <2>1 DEF OwnOK
    <3>2. p \notin disturbed' /\ proc[p].how = "preamble" => PreambleOwn(p)'
      BY <1>1, <1>2, <1>3, <3>1, HomeFacts DEF PreambleOwn
    <3>3. LeftInv(p)'
      BY <1>3 DEF LeftInv, Copying
    <3>4. OwnOK(p)'
      BY <1>3, <2>3, <3>2, <3>3, HomeFacts DEF OwnOK
    <3>. QED BY <1>1, <1>3, <2>1, <3>4, QuietKeeps
  <2>. QED BY <2>2, <2>3
<1>4. CASE Away(p)
  BY <1>1, <1>2, <1>4, AwayKeeps
<1>. QED BY <1>2, <1>3, <1>4

LEMMA OpenKeeps == ASSUME TreesInv, NEW p \in Processes, Open(p) PROVE TreesInv'
<1>. DEFINE root == RootOf(p)
            archive == DOMAIN Archive[proc[p].prog]
<1>1. TypeOK /\ PlaceInv /\ TreeInv /\ OwnInv
  BY DEF TreesInv
<1>2. /\ Frame(p) /\ Located(p)' /\ InTree(p)' /\ cut' = cut
      /\ proc[p].pc = "open" /\ proc[p].prog \in Zipapps
      /\ proc'[p].prog = proc[p].prog /\ proc'[p].how = proc[p].how
      /\ proc'[p].launch = proc[p].launch
      /\ proc'[p].root = root /\ proc'[p].left = archive
      /\ Enters(p, root)
      /\ \/ proc[p].how = "main" /\ proc'[p].pc = "look"
         \/ proc[p].how = "preamble" /\ proc'[p].pc = "unzip"
         \/ /\ proc[p].how = "preamble" /\ proc'[p].pc = "check"
            /\ root \in DOMAIN fs /\ MainPy \in DOMAIN fs[root]
  BY <1>1, OpenStep
<1>3. /\ \A r \in DOMAIN fs : r \in DOMAIN fs' /\ fs'[r] = fs[r]
      /\ \A r \in DOMAIN fs' \ DOMAIN fs : r = root /\ DOMAIN fs'[r] = {}
  <2>1. \/ root \notin DOMAIN fs /\ fs' = With(fs, root, <<>>)
        \/ root \in DOMAIN fs /\ fs' = fs
    BY <1>1, OpenStep
  <2>2. \A r \in DOMAIN fs' \ DOMAIN fs : r = root /\ DOMAIN fs'[r] = {}
    BY <1>2 DEF Frame
  <2>. HIDE DEF root
  <2>. QED BY <2>1, <2>2 DEF With
<1>4. root \in DOMAIN fs => root = SharedRoot[proc[p].how][proc[p].prog]
  <2>1. Located(p) /\ proc[p].pc # "unused"
    BY <1>1, <1>2 DEF PlaceInv
  <2>2. root = TempRoot(p) \/ root = SharedRoot[proc[p].how][proc[p].prog]
    BY <1>1, <1>2, <2>1, RootFacts
  <2>3. TempRoot(p)[1] = "temp" /\ TempRoot(p)[2] = proc[p].launch
    BY DEF TempRoot
  <2>4. TempRoot(p) \notin DOMAIN fs
    BY <1>1, <1>2, <2>3 DEF PlaceInv
  <2>. QED BY <2>2, <2>4
<1>. HIDE DEF root
<1>5. TypeOK' /\ PlaceInv'
  BY <1>1, <1>2, FrameKeepsPlace
<1>6. \A q \in Processes \ {p} : OwnOK(q)'
  <2>1. proc'[p].pc # "home"
    BY <1>2
  <2>. QED BY <1>1, <1>2, <2>1, OthersOwn
<1>7. Others(p)
  BY <1>2 DEF Frame
<1>8. ASSUME NEW b \in Zipapps, NEW r \in DOMAIN fs' \ cut' PROVE TreeOK(b, r)'
  <2>1. CASE r \in DOMAIN fs
    <3>1. p \notin AtHome(r) /\ p \notin Unzipping(r)
      BY <1>2 DEF AtHome, Unzipping
    <3>2. ASSUME NEW how, Uses(b, how, r)' PROVE Uses(b, how, r)
      <4>1. SharedRoot' = SharedRoot
        BY DEF SharedRoot, HashOf
      <4>2. \A q \in Processes \ {p} : InTree(q)' = InTree(q) /\ proc'[q] = proc[q]
        BY <1>7 DEF Others, InTree
      <4>. QED BY <1>2, <1>4, <2>1, <3>2, <4>1, <4>2 DEF Uses
    <3>3. fs'[r] = fs[r] /\ cut \subseteq cut'
      BY <1>2, <1>3, <2>1
    <3>. QED BY <1>1, <1>7, <2>1, <3>1, <3>2, <3>3, TreeKept
  <2>2. CASE r \notin DOMAIN fs
    <3>1. DOMAIN fs'[r] = {}
      BY <1>3, <2>2
    <3>. QED BY <3>1 DEF TreeOK, MainTree, PreambleTree
  <2>. QED BY <2>1, <2>2
<1>9. OwnOK(p)'
  <2>1. archive # {}
    BY <1>2, ArchiveFacts
  <2>. HIDE DEF archive
  <2>2. LeftInv(p)'
    <3>1. DOMAIN Archive[proc'[p].prog] = archive
      BY <1>2 DEF archive
    <3>. QED BY <1>2, <2>1, <3>1 DEF LeftInv, Copying
  <2>3. p \notin disturbed' =>
        \A o \in Processes \ {p} : Extracting(o) => proc[o].root # root
    BY <1>2 DEF Enters
  <2>4. ASSUME p \notin disturbed', proc[p].how = "main" PROVE MainOwn(p)'
    <3>1. AtHome(proc[p].root)' \subseteq {p}
      BY <1>2, <1>7, <2>3, <2>4 DEF AtHome, Others, Extracting
    <3>2. proc'[p].pc = "look"
      BY <1>2, <2>4
    <3>3. Extracted(p, DOMAIN Archive[proc[p].prog] \ proc[p].left)'
      BY <1>2 DEF Extracted, archive
    <3>. QED BY <1>2, <3>1, <3>2, <3>3 DEF MainOwn, Copying
  <2>5. ASSUME p \notin disturbed', proc[p].how = "preamble" PROVE PreambleOwn(p)'
    <3>1. CASE proc'[p].pc = "check" /\ root \notin cut
      <4>1. root \in DOMAIN fs /\ MainPy \in DOMAIN fs[root]
        BY <1>2, <3>1
      <4>2. Uses(proc[p].prog, "preamble", root)
        BY <1>4, <2>5, <4>1 DEF Uses
      <4>3. PreambleTree(proc[p].prog, fs[root], root)
        BY <1>1, <1>2, <3>1, <4>1, <4>2 DEF TreeInv, TreeOK
      <4>4. Unzipping(root) = {}
        BY <1>2, <2>3, <2>5 DEF Unzipping, Extracting
      <4>5. DOMAIN fs[root] = archive
        BY <4>1, <4>3, <4>4 DEF PreambleTree, archive
      <4>. QED BY <1>2, <1>3, <4>1, <4>5 DEF PreambleOwn, archive
    <3>2. CASE ~(proc'[p].pc = "check" /\ root \notin cut)
      BY <1>2, <2>5, <3>2 DEF PreambleOwn
    <3>. QED BY <3>1, <3>2
  <2>. QED BY <1>2, <2>2, <2>4, <2>5 DEF OwnOK
<1>. QED BY <1>5, <1>6, <1>8, <1>9 DEF TreesInv, TreeInv, OwnInv

-----------------------------------------------------------------------------
(* Launches                                                                 *)

\* The environment of Runfiles.EnvVars() names directories and trees.
LEMMA PassedEnv ==
    ASSUME NEW env \in Envs, NEW manifest, NEW mapping,
           env.dir # None \/ env.manifest # None
    PROVE  EnvVars(env, Runfiles(Create(env, manifest), mapping)) \in Envs
<1>. DEFINE r == Runfiles(Create(env, manifest), mapping)
<1>1. Trees \subseteq Roots
  BY DEF Trees, Roots
<1>2. env.dir \in Roots \cup {None} /\ env.manifest \in Trees \cup {None}
  <2>. HIDE DEF Roots, Trees
  <2>. QED BY DEF Envs
<1>3. CASE env.manifest # None
  <2>1. r.strategy.kind = "manifest" /\ r.strategy.root = env.manifest
    BY <1>3 DEF Runfiles, Create, ManifestBased
  <2>2. EnvVars(env, r) = [env EXCEPT !.manifest = env.manifest, !.dir = env.manifest]
    BY <2>1 DEF EnvVars
  <2>. HIDE DEF Roots, Trees
  <2>. QED BY <1>1, <1>2, <1>3, <2>2 DEF Envs
<1>4. CASE env.manifest = None
  <2>1. r.strategy.kind = "directory" /\ r.strategy.root = env.dir
    BY <1>4 DEF Runfiles, Create, DirectoryBased
  <2>2. EnvVars(env, r) = [env EXCEPT !.dir = env.dir]
    BY <2>1 DEF EnvVars
  <2>. HIDE DEF Roots, Trees
  <2>. QED BY <1>2, <2>2 DEF Envs
<1>. QED BY <1>3, <1>4

LEMMA LaunchStep ==
    ASSUME TypeOK, NEW p \in Processes, NEW b \in Programs, NEW how \in Hows,
           NEW env \in Envs, Launch(p, b, how, env)
    PROVE  /\ Typed /\ Others(p) /\ proc[p].pc = "unused" /\ launches' = launches + 1
           /\ fs' = fs /\ cut' = cut /\ kills' = kills /\ disturbed' = disturbed \ {p}
           /\ proc'[p].prog = b /\ proc'[p].how = how /\ proc'[p].launch = launches + 1
           /\ b \in Binaries <=> how = "tree"
           /\ proc'[p].pc = IF how = "tree" THEN "stage1" ELSE "open"
           /\ proc'[p].root = None /\ proc'[p].own = None
<1>. DEFINE pc == IF how = "tree" THEN "stage1" ELSE "open"
            new == [Unused EXCEPT !.pc = pc, !.launch = launches + 1, !.prog = b,
                                  !.how = how, !.env = env]
<1>1. /\ proc[p].pc = "unused" /\ (b \in Binaries) = (how = "tree") /\ Set(p, new)
      /\ launches' = launches + 1 /\ disturbed' = disturbed \ {p}
      /\ fs' = fs /\ cut' = cut /\ kills' = kills
  BY DEF Launch
<1>2. pc \in PCs
  BY DEF PCs
<1>3. launches + 1 \in Nat
  BY DEF TypeOK
<1>. HIDE DEF pc
<1>4. /\ new \in States /\ new.pc = pc /\ new.launch = launches + 1 /\ new.prog = b
      /\ new.how = how /\ new.root = None /\ new.own = None
  <2>. HIDE DEF PCs, Envs, Roots, Paths, Dirs, Hows, Programs
  <2>. QED BY <1>2, <1>3, UnusedIsTyped DEF States, Unused
<1>. HIDE DEF new
<1>5. Typed /\ Others(p) /\ proc'[p] = new
  BY <1>1, <1>4, OneChanges
<1>. QED BY <1>1, <1>4, <1>5 DEF pc

LEMMA LaunchKeeps ==
    ASSUME TreesInv, NEW p \in Processes, NEW b \in Programs, NEW how \in Hows,
           NEW env \in Envs, Launch(p, b, how, env)
    PROVE  TreesInv'
<1>1. TypeOK /\ PlaceInv /\ OwnInv /\ launches \in Nat
  BY DEF TreesInv, TypeOK
<1>2. /\ Typed /\ Others(p) /\ proc[p].pc = "unused" /\ launches' = launches + 1
      /\ fs' = fs /\ cut' = cut /\ kills' = kills /\ disturbed' = disturbed \ {p}
      /\ proc'[p].prog = b /\ proc'[p].how = how /\ proc'[p].launch = launches + 1
      /\ b \in Binaries <=> how = "tree"
      /\ proc'[p].pc = IF how = "tree" THEN "stage1" ELSE "open"
      /\ proc'[p].root = None /\ proc'[p].own = None
  BY <1>1, LaunchStep
<1>3. ~InTree(p)'
  BY <1>2, ProgramsAssumption DEF InTree
<1>4. TypeOK'
  BY <1>1, <1>2 DEF TypeOK, Typed, FsOK
<1>5. Located(p)'
  <2>1. proc'[p].pc \in Stages(how) /\ proc'[p].pc \in {"stage1", "open"}
    BY <1>2 DEF Stages, Hows
  <2>2. launches + 1 \in 1..(launches + 1)
    BY <1>1
  <2>. QED BY <1>2, <1>3, <2>1, <2>2 DEF Located, Setup
<1>6. ASSUME NEW q \in Processes \ {p}
      PROVE  /\ proc'[q] = proc[q] /\ Located(q) /\ InTree(q)' = InTree(q)
             /\ RootOf(q)' = RootOf(q)
             /\ proc[q].pc # "unused" => proc[q].launch \in 1..launches
             /\ proc[q].pc = "unused" => proc[q].launch = 0
             /\ Located(q)'
  <2>1. proc'[q] = proc[q] /\ Located(q)
    BY <1>1, <1>2 DEF Others, PlaceInv
  <2>2. InTree(q)' = InTree(q) /\ RootOf(q)' = RootOf(q)
    BY <2>1 DEF InTree, RootOf, TempRoot
  <2>3. /\ proc[q].pc # "unused" => proc[q].launch \in 1..launches
        /\ proc[q].pc = "unused" => proc[q].launch = 0
    BY <2>1 DEF Located, Unused
  <2>4. 1..launches \subseteq 1..launches'
    BY <1>1, <1>2
  <2>. QED BY <1>2, <2>1, <2>2, <2>3, <2>4 DEF Located
<1>7. PlaceInv'
  <2>1. ASSUME NEW q \in Processes, NEW r \in Processes,
               proc'[q].pc # "unused", proc'[q].launch = proc'[r].launch
        PROVE  q = r
    <3>1. \A s \in Processes \ {p} : proc'[s].launch \in 0..launches
      BY <1>1, <1>6
    <3>2. CASE q = p
      BY <1>1, <1>2, <2>1, <3>1, <3>2
    <3>3. CASE q # p
      <4>1. r # p
        BY <1>1, <1>2, <2>1, <3>1, <3>3
      <4>. QED BY <1>1, <1>6, <2>1, <3>3, <4>1 DEF PlaceInv
    <3>. QED BY <3>2, <3>3
  <2>2. ASSUME NEW root \in DOMAIN fs', root[1] = "temp"
        PROVE  /\ root[2] <= launches'
               /\ \A q \in Processes : proc'[q].pc = "open" => proc'[q].launch # root[2]
    <3>1. /\ root[2] <= launches
          /\ \A q \in Processes : proc[q].pc = "open" => proc[q].launch # root[2]
      BY <1>1, <1>2, <2>2 DEF PlaceInv
    <3>2. root[2] \in Nat
      BY <1>1, <1>2, <2>2 DEF TypeOK, FsOK, Roots, SharedRoots
    <3>. QED BY <1>1, <1>2, <1>6, <3>1, <3>2
  <2>. QED BY <1>5, <1>6, <2>1, <2>2 DEF PlaceInv
<1>8. TreeInv'
  BY <1>2, <1>3, QuietTrees DEF TreesInv, SameTrees
<1>9. OwnOK(p)'
  <2>1. proc'[p].pc \notin Copying \cup {"unzip"}
    BY <1>2 DEF Copying
  <2>. QED BY <1>3, <2>1 DEF OwnOK, LeftInv
<1>10. ASSUME NEW q \in Processes \ {p} PROVE OwnOK(q)'
  <2>1. /\ OwnOK(q) /\ proc'[q] = proc[q] /\ InTree(q)' = InTree(q)
        /\ q \notin disturbed' => q \notin disturbed
    BY <1>1, <1>2, <1>6 DEF OwnInv
  <2>2. EntryPath(q)' = EntryPath(q) /\ Node(q)' = Node(q)
    BY <2>1 DEF EntryPath, Node
  <2>3. AtHome(proc[q].root)' \subseteq AtHome(proc[q].root)
    BY <1>2, <2>1 DEF AtHome, Others
  <2>4. LeftInv(q)'
    BY <1>2, <2>1 DEF OwnOK, LeftInv
  <2>5. MainOwn(q) => MainOwn(q)'
    BY <1>2, <2>1, <2>2, <2>3 DEF MainOwn, Extracted
  <2>6. PreambleOwn(q) => PreambleOwn(q)'
    BY <1>2, <2>1 DEF PreambleOwn
  <2>. QED BY <2>1, <2>4, <2>5, <2>6 DEF OwnOK
<1>. QED BY <1>4, <1>7, <1>8, <1>9, <1>10 DEF TreesInv, OwnInv

\* A launch is of a program, in an environment that names roots.
LEMMA UserLaunches ==
    ASSUME NEW p \in Processes, UserLaunch(p)
    PROVE  \E b \in Programs, how \in Hows, env \in Envs : Launch(p, b, how, env)
<1>1. PICK b \in Programs, how \in {"tree", "main", "preamble"} :
        \E env \in {[NoVars EXCEPT !.extractRoot = x] : x \in BOOLEAN} \cup
                   {[dir |-> TreeRoot(b), manifest |-> m, extractRoot |-> FALSE] :
                        m \in IF b \in HasManifest THEN {TreeRoot(b), None} ELSE {None}} :
            /\ env.dir # None => b \in Binaries
            /\ Launch(p, b, how, env)
  BY DEF UserLaunch
<1>2. PICK env \in {[NoVars EXCEPT !.extractRoot = x] : x \in BOOLEAN} \cup
                   {[dir |-> TreeRoot(b), manifest |-> m, extractRoot |-> FALSE] :
                        m \in IF b \in HasManifest THEN {TreeRoot(b), None} ELSE {None}} :
            /\ env.dir # None => b \in Binaries
            /\ Launch(p, b, how, env)
  BY <1>1
<1>3. env \in Envs
  <2>1. CASE env \in {[NoVars EXCEPT !.extractRoot = x] : x \in BOOLEAN}
    <3>1. PICK x \in BOOLEAN : env = [NoVars EXCEPT !.extractRoot = x]
      BY <2>1
    <3>. HIDE DEF Roots, Trees
    <3>. QED BY <3>1 DEF NoVars, Envs
  <2>2. CASE env \in {[dir |-> TreeRoot(b), manifest |-> m, extractRoot |-> FALSE] :
                        m \in IF b \in HasManifest THEN {TreeRoot(b), None} ELSE {None}}
    <3>1. PICK m \in {TreeRoot(b), None} :
            env = [dir |-> TreeRoot(b), manifest |-> m, extractRoot |-> FALSE]
      BY <2>2
    <3>2. TreeRoot(b) \in Trees \/ env.dir = None
      BY <1>2 DEF Trees, TreeRoot
    <3>3. CASE TreeRoot(b) \in Trees
      <4>1. TreeRoot(b) \in Roots
        BY <3>3 DEF Trees, Roots
      <4>. HIDE DEF Roots, Trees
      <4>. QED BY <3>1, <3>3, <4>1 DEF Envs
    <3>4. CASE env.dir = None
      <4>1. TreeRoot(b) = None
        BY <3>1, <3>4
      <4>. HIDE DEF Roots, Trees
      <4>. QED BY <3>1, <4>1 DEF Envs
    <3>. QED BY <3>2, <3>3, <3>4
  <2>. QED BY <1>2, <2>1, <2>2
<1>4. how \in Hows
  BY DEF Hows
<1>. QED BY <1>2, <1>3, <1>4

LEMMA Spawns ==
    ASSUME TypeOK, PlaceInv, NEW p \in Processes, NEW q \in Processes, Spawn(p, q)
    PROVE  \E b \in Programs, how \in Hows, env \in Envs : Launch(q, b, how, env)
<1>1. PICK b \in Programs, how \in {"tree", "main", "preamble"} :
        \E env \in {proc[p].env, EnvVars(proc[p].env, RunfilesOf(p))} :
            Launch(q, b, how, env)
  BY DEF Spawn
<1>2. proc[p].pc = "run" /\ Located(p) /\ proc[p].env \in Envs
  BY DEF Spawn, PlaceInv, TypeOK, States
<1>3. proc[p].env.dir # None \/ proc[p].env.manifest # None
  BY <1>2 DEF Located
<1>4. EnvVars(proc[p].env, RunfilesOf(p)) \in Envs
  BY <1>2, <1>3, PassedEnv DEF RunfilesOf
<1>5. how \in Hows
  BY DEF Hows
<1>. QED BY <1>1, <1>2, <1>4, <1>5

-----------------------------------------------------------------------------
(* The invariant, and what follows from it                                  *)

LEMMA FullTreeFacts ==
    ASSUME NEW b \in Zipapps
    PROVE  LET V == Runfile(VenvPython)
               P == Runfile(PyvenvCfg)
               tree == FullTree(b, "main")
           IN  /\ IsFcn(tree) /\ DOMAIN tree = DOMAIN Archive[b] \cup {V, P}
               /\ \A path \in DOMAIN Archive[b] : tree[path] = Archive[b][path]
               /\ V \notin DOMAIN Archive[b] => tree[V] = Link(PythonActual)
               /\ P \notin DOMAIN Archive[b] => tree[P] = File("home")
               /\ FullTree(b, "preamble") = Archive[b]
<1>. DEFINE V == Runfile(VenvPython)
            P == Runfile(PyvenvCfg)
            zip == Archive[b]
<1>0. V # P
  BY ProgramsAssumption
<1>1. FullTree(b, "main") =
        [path \in DOMAIN zip \cup {V, P} |->
                CASE path \in DOMAIN zip -> zip[path]
                  [] path \notin DOMAIN zip /\ path = V -> Link(PythonActual)
                  [] OTHER -> File("home")]
  BY DEF FullTree
<1>2. FullTree(b, "preamble") = zip
  BY DEF FullTree
<1>. HIDE DEF V, P, zip
<1>3. IsFcn(FullTree(b, "main"))
  BY <1>1 DEF IsFcn
<1>4. /\ DOMAIN FullTree(b, "main") = DOMAIN zip \cup {V, P}
      /\ \A path \in DOMAIN zip : FullTree(b, "main")[path] = zip[path]
      /\ V \notin DOMAIN zip => FullTree(b, "main")[V] = Link(PythonActual)
      /\ P \notin DOMAIN zip => FullTree(b, "main")[P] = File("home")
  BY <1>0, <1>1
<1>. QED BY <1>2, <1>3, <1>4 DEF V, P, zip

LEMMA InitTrees == Init => TreesInv
<1>. SUFFICES ASSUME Init PROVE TreesInv
  OBVIOUS
<1>1. /\ proc = [p \in Processes |-> Unused]
      /\ cut = {} /\ disturbed = {} /\ launches = 0 /\ kills = 0
  BY DEF Init
<1>2. \A p \in Processes : proc[p] = Unused /\ proc[p].pc = "unused"
  BY <1>1 DEF Unused
<1>3. \/ DOMAIN fs = {} /\ IsFcn(fs)
      \/ \E b \in Zipapps :
            /\ IsFcn(fs) /\ DOMAIN fs = {SharedRoot["main"][b]}
            /\ fs[SharedRoot["main"][b]] = FullTree(b, "main")
  <2>1. CASE fs = <<>>
    BY <2>1, EmptyTree
  <2>2. CASE fs \in {[root \in {SharedRoot["main"][b]} |-> FullTree(b, "main")] :
                        b \in Earlier}
    <3>1. PICK b \in Earlier :
            fs = [root \in {SharedRoot["main"][b]} |-> FullTree(b, "main")]
      BY <2>2
    <3>. QED BY <3>1, ProgramsAssumption DEF IsFcn
  <2>. QED BY <2>1, <2>2 DEF Init
<1>4. FsOK
  <2>1. \A b \in Zipapps : SharedRoot["main"][b] \in Roots /\ IsFcn(FullTree(b, "main"))
    BY SharedFacts, FullTreeFacts DEF Roots, SharedRoots
  <2>. QED BY <1>3, <2>1 DEF FsOK
<1>5. TypeOK
  <2>1. proc \in [Processes -> States]
    <3>. HIDE DEF States, Unused
    <3>. QED BY <1>1, UnusedIsTyped
  <2>. QED BY <1>1, <1>4, <2>1 DEF TypeOK
<1>6. PlaceInv
  <2>1. \A root \in DOMAIN fs : root[1] # "temp"
    BY <1>3, SharedFacts
  <2>. QED BY <1>2, <2>1 DEF PlaceInv, Located
<1>7. \A p \in Processes : ~InTree(p) /\ OwnOK(p)
  BY <1>2 DEF InTree, OwnOK, LeftInv, Copying
<1>8. ASSUME NEW c \in Zipapps, NEW root \in DOMAIN fs PROVE TreeOK(c, root)
  <2>1. PICK b \in Zipapps : root = SharedRoot["main"][b] /\ fs[root] = FullTree(b, "main")
    BY <1>3
  <2>2. ~Uses(c, "preamble", root)
    BY <1>7, <2>1, SharedFacts DEF Uses
  <2>3. ASSUME Uses(c, "main", root), root \notin Ambiguous
        PROVE  MainTree(c, fs[root], root)
    <3>1. DOMAIN Archive[b] = DOMAIN Archive[c]
      BY <1>7, <2>1, <2>3, SharedFacts DEF Uses
    <3>. QED BY <2>1, <3>1, FullTreeFacts DEF MainTree
  <2>. QED BY <2>2, <2>3 DEF TreeOK
<1>. QED BY <1>5, <1>6, <1>7, <1>8 DEF TreesInv, TreeInv, OwnInv

LEMMA NextTrees == TreesInv /\ [Next]_vars => TreesInv'
<1>. SUFFICES ASSUME TreesInv, [Next]_vars PROVE TreesInv'
  OBVIOUS
<1>1. CASE UNCHANGED vars
  <2>1. fs' = fs /\ proc' = proc /\ cut' = cut /\ disturbed' = disturbed
        /\ launches' = launches /\ kills' = kills
    BY <1>1 DEF vars
  <2>2. TypeOK'
    BY <2>1 DEF TreesInv, TypeOK, FsOK
  <2>3. PlaceInv'
    BY <2>1 DEF TreesInv, PlaceInv, Located, InTree, RootOf, TempRoot
  <2>4. TreeInv'
    BY <2>1 DEF TreesInv, TreeInv, TreeOK, Uses, InTree, MainTree, PreambleTree,
                AtHome, Unzipping, SharedRoot, HashOf, FullTree
  <2>5. OwnInv'
    BY <2>1 DEF TreesInv, OwnInv, OwnOK, LeftInv, InTree, MainOwn, PreambleOwn, Extracted,
                EntryPath, Node, AtHome
  <2>. QED BY <2>2, <2>3, <2>4, <2>5 DEF TreesInv
<1>2. ASSUME NEW p \in Processes,
             \/ UserLaunch(p) \/ \E q \in Processes : Spawn(p, q)
             \/ Open(p) \/ Look(p) \/ Unlink(p) \/ Write(p) \/ Replace(p) \/ Unzip(p)
      PROVE  TreesInv'
  <2>1. TypeOK /\ PlaceInv
    BY DEF TreesInv
  <2>2. CASE UserLaunch(p)
    BY <2>2, UserLaunches, LaunchKeeps
  <2>3. CASE \E q \in Processes : Spawn(p, q)
    BY <2>1, <2>3, Spawns, LaunchKeeps
  <2>. QED BY <1>2, <2>2, <2>3, OpenKeeps, LookKeeps, UnlinkKeeps, WriteKeeps,
           ReplaceKeeps, UnzipKeeps
<1>3. ASSUME NEW p \in Processes,
             \/ LookForPython(p) \/ LinkPython(p) \/ OpenPyvenvCfg(p) \/ WriteHome(p)
             \/ Start(p) \/ RunStage2(p)
      PROVE  TreesInv'
  BY <1>3, LookForPythonKeeps, LinkPythonKeeps, OpenPyvenvCfgKeeps, WriteHomeKeeps,
     StartKeeps, RunStage2Keeps
<1>4. ASSUME NEW p \in Processes, Stage1(p) \/ Finish(p) \/ Kill(p) PROVE TreesInv'
  <2>1. TypeOK /\ PlaceInv
    BY DEF TreesInv
  <2>2. CASE Stage1(p)
    <3>1. Away(p) /\ SameTrees /\ proc[p].pc = "stage1"
      BY <2>1, <2>2, Stage1Step DEF SameTrees, Stage1
    <3>. QED BY <3>1, AwayKeeps
  <2>3. CASE Finish(p)
    BY <2>1, <2>3, FinishStep, AwayKeeps
  <2>4. CASE Kill(p)
    BY <2>1, <2>4, KillStep, AwayKeeps DEF SameTrees
  <2>. QED BY <1>4, <2>2, <2>3, <2>4
<1>. QED BY <1>1, <1>2, <1>3, <1>4 DEF Next

\* What processes know of the directories that they share: no two have one
\* temporary directory, a directory holds what those that extract to it extract,
\* and what a process that nobody disturbed has extracted is there.
THEOREM TreesInvHolds == Spec => []TreesInv
<1>. QED BY InitTrees, NextTrees, PTL DEF Spec

\* Undisturbed, a zipapp runs in what it would have extracted to an empty directory.
LEMMA WholeTrees == TreesInv => WholeTree
<1>. SUFFICES ASSUME TreesInv, NEW p \in Processes,
                     proc[p].pc = "run", proc[p].prog \in Zipapps,
                     p \notin disturbed, proc[p].root \notin cut \cup Ambiguous
              PROVE  fs[proc[p].root] = FullTree(proc[p].prog, proc[p].how)
  BY DEF WholeTree
<1>. DEFINE b == proc[p].prog
            root == proc[p].root
            V == Runfile(VenvPython)
            P == Runfile(PyvenvCfg)
<1>1. TypeOK /\ Located(p) /\ InTree(p) /\ OwnOK(p) /\ TreeInv
  BY DEF TreesInv, PlaceInv, OwnInv, InTree
<1>2. root \in DOMAIN fs /\ proc[p].how \in {"main", "preamble"} /\ IsFcn(fs[root])
  BY <1>1, RootFacts DEF Located, TypeOK, FsOK
<1>3. Uses(b, proc[p].how, root) /\ TreeOK(b, root)
  BY <1>1, <1>2 DEF Uses, TreeInv
<1>4. CASE proc[p].how = "main"
  <2>1. /\ Extracted(p, DOMAIN Archive[b]) /\ AtHome(root) = {}
        /\ V \in DOMAIN fs[root] /\ P \in DOMAIN fs[root]
    BY <1>1, <1>4 DEF OwnOK, MainOwn, AtHome, Copying
  <2>2. MainTree(b, fs[root], root)
    BY <1>3, <1>4 DEF TreeOK
  <2>3. /\ IsFcn(FullTree(b, "main"))
        /\ DOMAIN FullTree(b, "main") = DOMAIN Archive[b] \cup {V, P}
        /\ \A path \in DOMAIN Archive[b] : FullTree(b, "main")[path] = Archive[b][path]
        /\ V \notin DOMAIN Archive[b] => FullTree(b, "main")[V] = Link(PythonActual)
        /\ P \notin DOMAIN Archive[b] => FullTree(b, "main")[P] = File("home")
    BY FullTreeFacts
  <2>4. DOMAIN fs[root] = DOMAIN FullTree(b, "main")
    BY <2>1, <2>2, <2>3 DEF MainTree, Extracted
  <2>5. \A path \in DOMAIN fs[root] : fs[root][path] = FullTree(b, "main")[path]
    BY <2>1, <2>2, <2>3, <2>4 DEF MainTree, Extracted
  <2>. HIDE DEF b, root
  <2>. QED BY <1>2, <1>4, <2>3, <2>4, <2>5 DEF IsFcn, b, root
<1>5. CASE proc[p].how = "preamble"
  <2>1. PreambleTree(b, fs[root], root) /\ DOMAIN Archive[b] \subseteq DOMAIN fs[root]
    BY <1>1, <1>3, <1>5 DEF TreeOK, OwnOK, PreambleOwn
  <2>2. /\ DOMAIN fs[root] = DOMAIN Archive[b]
        /\ \A path \in DOMAIN fs[root] : fs[root][path] = Archive[b][path]
    BY <2>1 DEF PreambleTree
  <2>3. IsFcn(Archive[b]) /\ FullTree(b, "preamble") = Archive[b]
    BY ArchiveFacts, FullTreeFacts
  <2>. HIDE DEF b, root
  <2>. QED BY <1>2, <1>5, <2>2, <2>3 DEF IsFcn, b, root
<1>. QED BY <1>2, <1>4, <1>5

\* A zipapp runs with exactly the files that it was made from, for any zipapps,
\* any processes that share directories and any interleaving of their steps with
\* kills; except while another process works there, where unzip, the writing of
\* pyvenv.cfg or a link out of the archive left a file that no launch replaces, and
\* in a directory that it shares with a build of equal hash and other paths.
THEOREM WholeTreeHolds == Spec => []WholeTree
<1>. QED BY WholeTrees, TreesInvHolds, PTL

-----------------------------------------------------------------------------
(* Where a program looks files up                                           *)

\* A program runs from the root that its environment names; and the root of a
\* binary holds its stage 2, unless another process has changed it since.
FoundOK(p) ==
    /\ proc[p].pc = "run" => /\ proc[p].own = proc[p].root
                             /\ proc[p].env.dir = proc[p].root
                             /\ \A dir \in proc[p].sysPath : dir[1] = proc[p].root
    /\ /\ proc[p].prog \in Binaries /\ proc[p].pc \in {"stage2", "run"}
       /\ p \notin disturbed
       => Has(proc[p].root, Stage2[proc[p].prog])
FoundInv == \A p \in Processes : FoundOK(p)

LEMMA FoundKept ==
    ASSUME NEW p \in Processes, Frame(p), NEW q \in Processes \ {p}, FoundOK(q)
    PROVE  FoundOK(q)'
<1>1. proc'[q] = proc[q] /\ (q \notin disturbed' => q \notin disturbed)
  BY DEF Frame, Others
<1>2. ASSUME q \notin disturbed', Has(proc[q].root, Stage2[proc[q].prog])
      PROVE  Has(proc[q].root, Stage2[proc[q].prog])'
  <2>1. CASE proc[q].root[1] = "tree"
    BY <1>1, <1>2, <2>1 DEF Has, Tree, Place
  <2>2. CASE proc[q].root[1] # "tree"
    <3>1. proc[q].root \in DOMAIN fs
      <4>1. proc[q].root \notin DOMAIN fs => Tree(proc[q].root) = <<>>
        BY <2>2 DEF Tree
      <4>. QED BY <1>2, <4>1, EmptyTree DEF Has, Opens
    <3>2. proc[q].root \in DOMAIN fs' /\ fs'[proc[q].root] = fs[proc[q].root]
      BY <1>2, <3>1 DEF Frame
    <3>3. /\ Tree(proc[q].root)' = Tree(proc[q].root)
          /\ Place(proc[q].root)' = Place(proc[q].root)
      BY <1>1, <2>2, <3>1, <3>2 DEF Tree, Place
    <3>. QED BY <1>1, <1>2, <3>3 DEF Has
  <2>. QED BY <2>1, <2>2
<1>. QED BY <1>1, <1>2 DEF FoundOK

LEMMA StepFound ==
    ASSUME FoundInv, NEW p \in Processes, Frame(p), FoundOK(p)'
    PROVE  FoundInv'
<1>1. ASSUME NEW q \in Processes \ {p} PROVE FoundOK(q)'
  BY FoundKept DEF FoundInv
<1>. QED BY <1>1 DEF FoundInv

LEMMA EndedFound == ASSUME FoundInv, NEW p \in Processes, Ended(p) PROVE FoundInv'
<1>1. proc'[p].pc = "unused" /\ Frame(p)
  BY DEF Ended, Unused
<1>2. FoundOK(p)'
  BY <1>1 DEF FoundOK
<1>. QED BY <1>1, <1>2, StepFound

\* A zipapp on its way to stage 2.
LEMMA ZipappFound ==
    ASSUME FoundInv, NEW p \in Processes, Frame(p), InTree(p)', proc'[p].pc # "run"
    PROVE  FoundInv'
<1>1. proc'[p].prog \notin Binaries
  BY ProgramsAssumption DEF InTree
<1>2. FoundOK(p)'
  BY <1>1 DEF FoundOK
<1>. QED BY <1>2, StepFound

LEMMA MovedFound ==
    ASSUME PlaceInv, FoundInv, NEW p \in Processes, Moved(p),
           proc[p].pc \notin {"unused", "run"}
    PROVE  FoundInv'
<1>1. proc[p].own = None /\ proc'[p].own = proc[p].own
  BY DEF PlaceInv, Located, Moved, SameButPlace
<1>2. Frame(p) /\ InTree(p)' /\ Located(p)' /\ proc'[p].pc # "unused"
  BY DEF Moved, InTree
<1>3. proc'[p].pc # "run"
  BY <1>1, <1>2 DEF Located
<1>. QED BY <1>2, <1>3, ZipappFound

LEMMA Stage1Found ==
    ASSUME TreesInv, FoundInv, NEW p \in Processes, Stage1(p)
    PROVE  FoundInv'
<1>. DEFINE b == proc[p].prog
            found == FromEnv(proc[p].env, Stage2[b])
            root == IF found # None THEN found ELSE TreeRoot(b)
<1>1. /\ Frame(p) /\ fs' = fs /\ proc[p].pc = "stage1"
      /\ Set(p, [proc[p] EXCEPT !.pc = "stage2", !.root = root,
                                !.env = [@ EXCEPT !.dir = root]])
  BY Stage1Step DEF TreesInv, Stage1, Away
<1>2. proc \in [Processes -> States] /\ proc[p] \in States
  BY DEF TreesInv, TypeOK
<1>3. b \in Binaries
  BY <1>1, <1>2 DEF TreesInv, PlaceInv, Located, Stages, Copying, Setup, States, Hows
<1>4. Has(root, Stage2[b])
  <2>1. CASE found # None
    BY <2>1 DEF FromEnv
  <2>2. CASE found = None
    <3>1. root = TreeRoot(b) /\ root[1] = "tree" /\ root[2] = b
      BY <2>2 DEF TreeRoot
    <3>. HIDE DEF root
    <3>2. Tree(root) = Deployed[b] /\ Place(root) = <<>>
      BY <3>1 DEF Tree, Place
    <3>. QED BY <1>3, <3>2, RunfilesAssumption DEF Has
  <2>. QED BY <2>1, <2>2
<1>. HIDE DEF root, found
<1>5. proc'[p].pc = "stage2" /\ proc'[p].root = root /\ proc'[p].prog = b
  BY <1>1, <1>2 DEF Set, States
<1>6. Has(proc[p].root, Stage2[proc[p].prog])'
  BY <1>1, <1>4, <1>5 DEF Has, Tree, Place
<1>7. FoundOK(p)'
  BY <1>5, <1>6 DEF FoundOK
<1>. QED BY <1>1, <1>7, StepFound

LEMMA RunFound ==
    ASSUME TreesInv, FoundInv, NEW p \in Processes, RunStage2(p)
    PROVE  FoundInv'
<1>. DEFINE b == proc[p].prog
            root == proc[p].root
            env == proc[p].env
            own == FindRunfilesRoot(env, b, root)
            new == [proc[p] EXCEPT !.pc = "run", !.own = own, !.sysPath = SetupSysPath(p),
                                   !.env = RunfilesEnvvar(env, b, own)]
<1>1. /\ proc[p].pc = "stage2" /\ Located(p) /\ proc[p] \in States
      /\ proc \in [Processes -> States]
      /\ \/ own # None /\ MainFound(p, own) /\ Set(p, new) /\ Enters(p, own) /\ fs' = fs
         \/ End(p)
  BY DEF RunStage2, TreesInv, PlaceInv, TypeOK
<1>2. env.dir = root /\ root \in Roots /\ root # None
  BY <1>1, RunfilesAssumption DEF Located, Roots, SharedRoots
<1>3. Frame(p)
  BY RunStage2Step DEF TreesInv, Stays, Away
<1>4. CASE own # None /\ MainFound(p, own) /\ Set(p, new) /\ Enters(p, own) /\ fs' = fs
  <2>1. own = root
    BY <1>2, <1>4 DEF FindRunfilesRoot, MainFromEnv, FromEnv, NamedRoot
  <2>2. FromEnv(env, SelfPath[b]) \in {root, None}
    BY <1>2 DEF FromEnv, NamedRoot
  <2>3. \A dir \in SetupSysPath(p) : dir[1] = root
    BY <2>2 DEF SetupSysPath
  <2>4. MainFromEnv(env, b) = root
    <3>1. Has(root, Main[b])
      BY <1>4, <2>1, <2>3 DEF MainFound
    <3>2. CASE b \notin Modules
      BY <1>2, <3>1, <3>2 DEF MainFromEnv, FromEnv, NamedRoot
    <3>3. CASE b \in Modules /\ root[1] # "tree"
      BY <1>2, <1>4, <3>3 DEF FindRunfilesRoot, MainFromEnv, NamedRoot
    <3>4. CASE b \in Modules /\ root[1] = "tree"
      <4>1. PICK c \in Binaries : root = TreeRoot(c)
        BY <1>2, <3>4 DEF Roots, SharedRoots, TreeRoot
      <4>2. Tree(root) = Deployed[c] /\ Place(root) = <<>>
        BY <4>1 DEF Tree, Place, TreeRoot
      <4>3. PICK path \in DOMAIN Tree(root) : path \in Seq(STRING)
        BY <3>1, <4>2, RunfilesAssumption DEF Has, Opens
      <4>4. IsPrefix(Place(root), path)
        BY <4>2, <4>3 DEF IsPrefix
      <4>. QED BY <1>2, <3>4, <4>4 DEF MainFromEnv, NamedRoot
    <3>. QED BY <3>2, <3>3, <3>4
  <2>5. RunfilesEnvvar(env, b, own) = env
    BY <1>2, <2>4 DEF RunfilesEnvvar
  <2>6. /\ proc'[p].pc = "run" /\ proc'[p].own = own /\ proc'[p].sysPath = SetupSysPath(p)
        /\ proc'[p].env = env /\ proc'[p].root = root /\ proc'[p].prog = b
    BY <1>1, <1>4, <2>5 DEF Set, States
  <2>7. p \notin disturbed' => p \notin disturbed
    BY <1>4 DEF Enters
  <2>8. FoundOK(p)
    BY DEF FoundInv
  <2>9. Has(root, Stage2[b]) => Has(proc[p].root, Stage2[proc[p].prog])'
    BY <1>4, <2>6 DEF Has, Tree, Place
  <2>10. FoundOK(p)'
    BY <1>1, <1>2, <2>1, <2>3, <2>6, <2>7, <2>8, <2>9 DEF FoundOK
  <2>. QED BY <1>3, <2>10, StepFound
<1>5. CASE End(p)
  <2>1. proc'[p] = Unused
    BY <1>5, EndFacts DEF TreesInv
  <2>. QED BY <1>3, <2>1, EndedFound DEF Ended
<1>. QED BY <1>1, <1>4, <1>5

LEMMA LaunchFound ==
    ASSUME TreesInv, FoundInv, NEW p \in Processes, NEW b \in Programs, NEW how \in Hows,
           NEW env \in Envs, Launch(p, b, how, env)
    PROVE  FoundInv'
<1>1. /\ Others(p) /\ fs' = fs /\ disturbed' = disturbed \ {p}
      /\ proc'[p].pc = IF how = "tree" THEN "stage1" ELSE "open"
  BY LaunchStep DEF TreesInv
<1>2. FoundOK(p)'
  BY <1>1 DEF FoundOK
<1>3. ASSUME NEW q \in Processes \ {p} PROVE FoundOK(q)'
  <2>1. /\ proc'[q] = proc[q] /\ (q \notin disturbed' => q \notin disturbed)
        /\ FoundOK(q)
    BY <1>1 DEF Others, FoundInv
  <2>2. Has(proc[q].root, Stage2[proc[q].prog])' = Has(proc[q].root, Stage2[proc[q].prog])
    BY <1>1, <2>1 DEF Has, Tree, Place
  <2>. QED BY <2>1, <2>2 DEF FoundOK
<1>. QED BY <1>2, <1>3 DEF FoundInv

LEMMA NextFound == TreesInv /\ FoundInv /\ [Next]_vars => FoundInv'
<1>. SUFFICES ASSUME TreesInv, FoundInv, [Next]_vars PROVE FoundInv'
  OBVIOUS
<1>0. TypeOK /\ PlaceInv
  BY DEF TreesInv
<1>1. CASE UNCHANGED vars
  BY <1>1 DEF vars, FoundInv, FoundOK, Has, Tree, Place
<1>2. ASSUME NEW p \in Processes, UserLaunch(p) PROVE FoundInv'
  BY <1>0, <1>2, UserLaunches, LaunchFound
<1>3. ASSUME NEW p \in Processes, NEW q \in Processes, Spawn(p, q) PROVE FoundInv'
  BY <1>0, <1>3, Spawns, LaunchFound
<1>4. ASSUME NEW p \in Processes, Open(p) PROVE FoundInv'
  BY <1>0, <1>4, OpenStep, ZipappFound
<1>5. ASSUME NEW p \in Processes,
             \/ Look(p) \/ Unlink(p) \/ Write(p) \/ Replace(p) \/ Unzip(p)
             \/ LookForPython(p) \/ LinkPython(p) \/ OpenPyvenvCfg(p) \/ WriteHome(p)
      PROVE  FoundInv'
  <2>1. proc[p].pc \notin {"unused", "run"}
    BY <1>5 DEF Look, Unlink, Write, Replace, Unzip, LookForPython, LinkPython,
                OpenPyvenvCfg, WriteHome
  <2>2. Moved(p) \/ Ended(p)
    BY <1>0, <1>5, LookStep, UnlinkStep, WriteStep, ReplaceStep, UnzipStep,
       LookForPythonStep, LinkPythonStep, OpenPyvenvCfgStep, WriteHomeStep
  <2>. QED BY <1>0, <2>1, <2>2, MovedFound, EndedFound
<1>6. ASSUME NEW p \in Processes, Start(p) PROVE FoundInv'
  BY <1>0, <1>6, StartStep, ZipappFound, EndedFound DEF Stays
<1>7. ASSUME NEW p \in Processes, Stage1(p) \/ RunStage2(p) PROVE FoundInv'
  BY <1>7, Stage1Found, RunFound
<1>8. ASSUME NEW p \in Processes, Finish(p) \/ Kill(p) PROVE FoundInv'
  <2>1. Frame(p)
    BY <1>0, <1>8, FinishStep, KillStep DEF Away
  <2>2. proc'[p] = Unused
    BY <1>0, <1>8, EndFacts DEF Finish, Kill
  <2>. QED BY <2>1, <2>2, EndedFound DEF Ended
<1>. QED BY <1>1, <1>2, <1>3, <1>4, <1>5, <1>6, <1>7, <1>8 DEF Next

LEMMA NatMaximum ==
    ASSUME NEW n \in Nat, NEW S \in SUBSET (1..n), S # {}
    PROVE  Max(S) \in S /\ \A x \in S : x <= Max(S)
<1>. DEFINE below == {n - x : x \in S}
<1>0. \A x \in S : x \in Nat /\ n - x \in Nat
  OBVIOUS
<1>1. below \in SUBSET Nat /\ below # {}
  BY <1>0
<1>2. Min(below) \in below /\ \A y \in below : Min(below) <= y
  BY <1>1, NatMinimum
<1>3. PICK m \in S : Min(below) = n - m
  BY <1>2
<1>4. \A x \in S : n - m <= n - x
  BY <1>2, <1>3
<1>5. m \in S /\ \A x \in S : m >= x
  BY <1>4
<1>6. Max(S) \in S /\ \A x \in S : Max(S) >= x
  BY <1>5 DEF Max
<1>. QED BY <1>6

\* The line that a manifest has for a file is the file or a directory above it.
LEMMA ManifestLines ==
    ASSUME NEW c \in Binaries
    PROVE  LET table == LoadRunfiles(ManifestAt(TreeRoot(c)))
           IN  /\ \A line \in DOMAIN table : table[line] = <<TreeRoot(c), line>>
               /\ \A path \in DOMAIN Deployed[c] :
                    \E n \in 1..Len(path) : SubSeq(path, 1, n) \in DOMAIN table
<1>. DEFINE root == TreeRoot(c)
            paths == DOMAIN Deployed[c]
            Line(path) == {t \in TreeArtifacts : IsPrefix(t, path)} \cup {path}
            Short(path) == CHOOSE l \in Line(path) : \A m \in Line(path) : Len(l) <= Len(m)
            table == LoadRunfiles(ManifestAt(root))
<1>1. ManifestAt(root) = [line \in {Short(path) : path \in paths} |-> <<root, line>>]
  BY DEF ManifestAt, TreeRoot
<1>2. root # None
  BY RunfilesAssumption DEF TreeRoot
<1>3. \A line : <<root, line>> # NoWhere
  BY <1>2 DEF NoWhere
<1>4. ASSUME NEW path \in paths
      PROVE  \E n \in 1..Len(path) : SubSeq(path, 1, n) = Short(path)
  <2>1. path \in Seq(STRING) /\ path # <<>>
    BY RunfilesAssumption
  <2>2. \A l \in Line(path) : l \in Seq(STRING) /\ l # <<>> /\ Len(l) \in Nat \ {0}
    BY <2>1, RunfilesAssumption, EmptySeq
  <2>3. {Len(l) : l \in Line(path)} \in SUBSET Nat /\ {Len(l) : l \in Line(path)} # {}
    BY <2>2
  <2>. DEFINE m == Min({Len(l) : l \in Line(path)})
  <2>4. m \in {Len(l) : l \in Line(path)} /\ \A k \in {Len(l) : l \in Line(path)} : m <= k
    BY <2>3, NatMinimum
  <2>5. \E l \in Line(path) : \A k \in Line(path) : Len(l) <= Len(k)
    BY <2>4
  <2>6. PICK l : l = Short(path) /\ l \in Line(path)
    BY <2>5
  <2>. HIDE DEF Short
  <2>7. CASE l = path
    BY <2>1, <2>2, <2>6, <2>7, SubSeqFull
  <2>8. CASE IsPrefix(l, path)
    <3>1. /\ l \in Seq(STRING) /\ Len(l) \in Nat \ {0}
          /\ Len(l) <= Len(path) /\ Len(path) \in Nat
          /\ SubSeq(l, 1, Len(l)) = SubSeq(path, 1, Len(l))
      BY <2>1, <2>2, <2>6, <2>8 DEF IsPrefix
    <3>2. SubSeq(l, 1, Len(l)) = l /\ Len(l) \in 1..Len(path)
      BY <3>1, SubSeqFull
    <3>. QED BY <2>6, <3>1, <3>2
  <2>. QED BY <2>6, <2>7, <2>8
<1>. HIDE DEF Short, root
<1>5. DOMAIN table = {Short(path) : path \in paths}
      /\ \A line \in DOMAIN table : table[line] = <<root, line>>
  BY <1>1, <1>3 DEF LoadRunfiles
<1>. HIDE DEF table
<1>6. \A path \in paths : \E n \in 1..Len(path) : SubSeq(path, 1, n) \in DOMAIN table
  BY <1>4, <1>5
<1>. QED BY <1>5, <1>6 DEF table, root

\* A manifest and the directory that it lists have the same files.
LEMMA ManifestLocations ==
    ASSUME NEW c \in Binaries, NEW path \in Seq(STRING)
    PROVE  LET table == LoadRunfiles(ManifestAt(TreeRoot(c)))
           IN  /\ ManifestLocation(table, path) \in {NoWhere, <<TreeRoot(c), path>>}
               /\ path \in DOMAIN Deployed[c]
                    => ManifestLocation(table, path) = <<TreeRoot(c), path>>
<1>. DEFINE table == LoadRunfiles(ManifestAt(TreeRoot(c)))
            listed == {n \in 1..Len(path) : SubSeq(path, 1, n) \in DOMAIN table}
            n == Max(listed)
            found == table[SubSeq(path, 1, n)]
<1>1. /\ \A line \in DOMAIN table : table[line] = <<TreeRoot(c), line>>
      /\ path \in DOMAIN Deployed[c] => listed # {}
  BY ManifestLines
<1>. HIDE DEF table
<1>2. ManifestLocation(table, path) =
        IF listed = {} THEN NoWhere
        ELSE <<found[1], found[2] \o SubSeq(path, n + 1, Len(path))>>
  BY DEF ManifestLocation
<1>3. ASSUME listed # {} PROVE ManifestLocation(table, path) = <<TreeRoot(c), path>>
  <2>1. Len(path) \in Nat /\ listed \in SUBSET (1..Len(path))
    OBVIOUS
  <2>2. n \in listed
    BY <1>3, <2>1, NatMaximum
  <2>. HIDE DEF n
  <2>3. n \in 1..Len(path) /\ found = <<TreeRoot(c), SubSeq(path, 1, n)>>
    BY <1>1, <2>2
  <2>4. SubSeq(path, 1, n) \o SubSeq(path, n + 1, Len(path)) = SubSeq(path, 1, Len(path))
    BY <2>1, <2>3, ConcatAdjacentSubSeq
  <2>5. SubSeq(path, 1, Len(path)) = path
    BY SubSeqFull
  <2>6. found[1] = TreeRoot(c) /\ found[2] = SubSeq(path, 1, n)
    BY <2>3
  <2>. HIDE DEF found, listed
  <2>. QED BY <1>2, <1>3, <2>4, <2>5, <2>6
<1>. QED BY <1>1, <1>2, <1>3 DEF table

LEMMA LookupFacts ==
    ASSUME NEW lines \in Seq([source : STRING, prefix : BOOLEAN,
                              apparent : STRING, canonical : STRING]),
           NEW source \in STRING, NEW target
    PROVE  /\ (\A i \in DOMAIN lines : ~Applies(lines[i], source, target))
                => LookupRepo(lines, source, target) = None
           /\ \A canonical : Says(lines, source, target, canonical)
                => LookupRepo(lines, source, target) = canonical
<1>. DEFINE exact == {i \in DOMAIN lines : /\ ~lines[i].prefix
                                           /\ lines[i].source = source
                                           /\ lines[i].apparent = target}
            prefixed == {i \in DOMAIN lines : /\ lines[i].prefix
                                              /\ StartsWith(source, lines[i].source)
                                              /\ lines[i].apparent = target}
            same(k) == {i \in DOMAIN lines :
                            /\ lines[i].prefix = lines[k].prefix
                            /\ lines[i].source = lines[k].source
                            /\ lines[i].apparent = lines[k].apparent}
<1>1. /\ DOMAIN lines = 1..Len(lines) /\ Len(lines) \in Nat
      /\ \A i \in DOMAIN lines : lines[i].prefix \in BOOLEAN
  <2>. DEFINE Line == [source : STRING, prefix : BOOLEAN,
                       apparent : STRING, canonical : STRING]
  <2>1. \A l \in Line : l.prefix \in BOOLEAN
    OBVIOUS
  <2>. HIDE DEF Line
  <2>2. /\ DOMAIN lines = 1..Len(lines) /\ Len(lines) \in Nat
        /\ \A i \in DOMAIN lines : lines[i] \in Line
    <3>1. lines \in Seq(Line)
      BY DEF Line
    <3>. QED BY <3>1, LenProperties, ElementOfSeq
  <2>. QED BY <2>1, <2>2
<1>2. source # None /\ DOMAIN lines \subseteq Nat
  BY <1>1, RunfilesAssumption
<1>3. LookupRepo(lines, source, target) =
        CASE exact # {} -> ValueOf(lines, Min(exact))
          [] exact = {} /\ prefixed # {} -> ValueOf(lines, Min(prefixed))
          [] OTHER -> None
  BY <1>2 DEF LookupRepo
<1>4. ASSUME NEW k \in DOMAIN lines
      PROVE  ValueOf(lines, k) = lines[Max(same(k))].canonical /\ Max(same(k)) \in same(k)
  <2>1. same(k) \in SUBSET (1..Len(lines)) /\ same(k) # {}
    BY <1>1
  <2>2. Max(same(k)) \in same(k)
    BY <1>1, <2>1, NatMaximum
  <2>. QED BY <2>2 DEF ValueOf
<1>5. ASSUME \A i \in DOMAIN lines : ~Applies(lines[i], source, target)
      PROVE  exact = {} /\ prefixed = {}
  BY <1>5 DEF Applies
<1>6. ASSUME NEW canonical, Says(lines, source, target, canonical)
      PROVE  LookupRepo(lines, source, target) = canonical
  <2>1. PICK i \in DOMAIN lines :
            /\ Applies(lines[i], source, target)
            /\ \A j \in same(i) : lines[j].canonical = canonical
            /\ \A j \in DOMAIN lines : lines[i].prefix /\ Applies(lines[j], source, target)
                   => lines[j].prefix /\ i <= j
    BY <1>6 DEF Says, Applies
  <2>2. ASSUME NEW k \in same(i) PROVE ValueOf(lines, k) = canonical
    <3>1. same(k) = same(i) /\ k \in DOMAIN lines
      BY <2>2
    <3>. HIDE DEF same
    <3>. QED BY <1>4, <2>1, <3>1
  <2>3. CASE lines[i].prefix
    <3>1. exact = {} /\ i \in prefixed /\ \A j \in prefixed : i <= j
      BY <2>1, <2>3 DEF Applies
    <3>. DEFINE S == prefixed
    <3>2. S \in SUBSET Nat /\ S # {} /\ i \in S /\ (\A j \in S : i <= j)
      BY <1>2, <3>1
    <3>. HIDE DEF S
    <3>3. Min(S) \in S /\ \A j \in S : Min(S) <= j
      BY <3>2, NatMinimum
    <3>4. Min(S) = i
      <4>1. Min(S) <= i /\ i <= Min(S) /\ Min(S) \in Nat /\ i \in Nat
        BY <3>2, <3>3
      <4>. QED BY <4>1
    <3>5. i \in same(i)
      OBVIOUS
    <3>. HIDE DEF same
    <3>. QED BY <1>3, <2>2, <3>1, <3>4, <3>5 DEF S
  <2>4. CASE ~lines[i].prefix
    <3>1. i \in exact
      BY <2>1, <2>4 DEF Applies
    <3>2. Min(exact) \in exact
      <4>. DEFINE S == exact
      <4>1. S \in SUBSET Nat /\ S # {}
        BY <1>2, <3>1
      <4>. HIDE DEF S
      <4>2. Min(S) \in S
        BY <4>1, NatMinimum
      <4>. QED BY <4>2 DEF S
    <3>3. exact \subseteq same(i)
      BY <1>1, <3>1
    <3>. HIDE DEF same, exact
    <3>. QED BY <1>3, <2>2, <3>1, <3>2, <3>3
  <2>. QED BY <2>3, <2>4
<1>. HIDE DEF exact, prefixed
<1>. QED BY <1>3, <1>5, <1>6

\* What a program finds with the variables that name its root.
LEMMA LocationFacts ==
    ASSUME NEW root \in Roots, NEW env \in Envs,
           env.dir = root, env.manifest \in {None, root}
    PROVE  LET strategy == Create(env, ManifestAt(env.manifest))
           IN  /\ strategy.root = root /\ root # None
               /\ \A path \in Seq(STRING) :
                    /\ RlocationChecked(strategy, path) \in {NoWhere, <<root, path>>}
                    /\ Opens(Tree(root), Place(root) \o path)
                        => RlocationChecked(strategy, path) = <<root, path>>
<1>. DEFINE strategy == Create(env, ManifestAt(env.manifest))
<1>1. root # None
  BY RunfilesAssumption DEF Roots, SharedRoots
<1>2. CASE env.manifest = None
  <2>1. strategy = DirectoryBased(root)
    BY <1>1, <1>2 DEF Create
  <2>. QED BY <1>1, <2>1 DEF DirectoryBased, RlocationChecked
<1>3. CASE env.manifest = root
  <2>1. strategy = ManifestBased(root, ManifestAt(root))
    BY <1>1, <1>3 DEF Create
  <2>2. root \in Trees
    <3>. HIDE DEF Roots, Trees
    <3>. QED BY <1>1, <1>3 DEF Envs
  <2>3. PICK c \in Binaries : root = TreeRoot(c)
    BY <2>2 DEF Trees, TreeRoot
  <2>4. Tree(root) = Deployed[c] /\ Place(root) = <<>>
    BY <2>3 DEF Tree, Place, TreeRoot
  <2>5. /\ strategy.root = root
        /\ \A path : RlocationChecked(strategy, path)
                     = ManifestLocation(LoadRunfiles(ManifestAt(root)), path)
    BY <2>1 DEF ManifestBased, RlocationChecked
  <2>6. \A path \in Seq(STRING) : <<>> \o path = path
    BY ConcatEmptySeq
  <2>. HIDE DEF strategy
  <2>7. ASSUME NEW path \in Seq(STRING)
        PROVE  /\ RlocationChecked(strategy, path) \in {NoWhere, <<root, path>>}
               /\ Opens(Tree(root), Place(root) \o path)
                    => RlocationChecked(strategy, path) = <<root, path>>
    <3>1. /\ ManifestLocation(LoadRunfiles(ManifestAt(root)), path)
                \in {NoWhere, <<root, path>>}
          /\ path \in DOMAIN Deployed[c]
                => ManifestLocation(LoadRunfiles(ManifestAt(root)), path) = <<root, path>>
      BY <2>3, ManifestLocations
    <3>2. Opens(Tree(root), Place(root) \o path) => path \in DOMAIN Deployed[c]
      BY <2>4, <2>6 DEF Opens
    <3>. QED BY <2>5, <3>1, <3>2
  <2>. QED BY <1>1, <2>5, <2>7 DEF strategy
<1>. QED BY <1>2, <1>3

\* In a tree that provides for the code of b, that code finds what it asks for.
LEMMA AskedFacts ==
    ASSUME NEW b \in Programs, NEW root \in Roots, NEW env \in Envs,
           env.dir = root, env.manifest \in {None, root},
           Provides(Tree(root), Place(root), b), NEW a \in Asks[b]
    PROVE  LET strategy == Create(env, ManifestAt(env.manifest))
               location == RlocationChecked(strategy, RepoMappingPath)
               r == Runfiles(strategy, MappingAt(location))
           IN  /\ PathStr(Join(RootPath(r, <<root, a.caller>>), a.path)) = <<root, a.file>>
               /\ Has(root, a.file)
<1>. DEFINE strategy == Create(env, ManifestAt(env.manifest))
            location == RlocationChecked(strategy, RepoMappingPath)
            lines == MappingIn(Tree(root), Place(root) \o RepoMappingPath)
            r == Runfiles(strategy, lines)
            source == IF Head(a.caller) = "_main" THEN "" ELSE Head(a.caller)
            asked == [runfiles |-> r, path |-> a.path,
                      source |-> IF lines = <<>> THEN None ELSE source]
            name == LookupRepo(lines, asked.source, Head(a.path))
            Line == [source : STRING, prefix : BOOLEAN,
                     apparent : STRING, canonical : STRING]
<1>1. /\ strategy.root = root /\ root # None
      /\ \A path \in Seq(STRING) :
            /\ RlocationChecked(strategy, path) \in {NoWhere, <<root, path>>}
            /\ Opens(Tree(root), Place(root) \o path)
                => RlocationChecked(strategy, path) = <<root, path>>
  BY LocationFacts
<1>2. /\ a.caller \in Seq(STRING) /\ a.caller # <<>>
      /\ a.path \in Seq(STRING) /\ a.path # <<>>
      /\ a.file \in Seq(STRING) /\ a.file # <<>>
  BY RunfilesAssumption
<1>3. /\ Head(a.caller) \in STRING /\ Head(a.file) \in STRING /\ source \in STRING
      /\ None \notin STRING
  <2>1. \A t \in Seq(STRING) : t # <<>> => Head(t) \in STRING
    BY HeadTailProperties
  <2>2. None \notin STRING
    BY RunfilesAssumption, Zenon
  <2>3. Head(a.caller) \in STRING /\ Head(a.file) \in STRING
    BY <1>2, <2>1, Zenon
  <2>4. source \in STRING
    BY <2>3, StringsAssumption, Zenon
  <2>. QED BY <2>2, <2>3, <2>4, Zenon
<1>4. /\ lines \in Seq(Line) /\ Opens(Tree(root), Place(root) \o a.file)
      /\ \/ /\ a.file = a.path
            /\ \/ Tail(a.path) = <<>>
               \/ \A i \in DOMAIN lines : ~Applies(lines[i], source, Head(a.path))
         \/ /\ a.file = <<Head(a.file)>> \o Tail(a.path) /\ Tail(a.path) # <<>>
            /\ Says(lines, source, Head(a.path), Head(a.file))
  BY DEF Provides
<1>. HIDE DEF strategy, lines, source, Line
<1>5. MappingAt(location) = lines
  <2>1. RepoMappingPath \in Seq(STRING)
    <3>1. \A x \in STRING : <<x>> \in Seq(STRING)
      OBVIOUS
    <3>2. "_repo_mapping" \in STRING
      BY StringsAssumption, Zenon
    <3>. QED BY <3>1, <3>2, Zenon DEF RepoMappingPath
  <2>2. CASE location = NoWhere
    <3>1. location # <<root, RepoMappingPath>>
      BY <1>1, <2>2 DEF NoWhere
    <3>2. ~Opens(Tree(root), Place(root) \o RepoMappingPath)
      BY <1>1, <2>1, <3>1
    <3>. QED BY <2>2, <3>2 DEF MappingAt, MappingIn, lines
  <2>3. CASE location # NoWhere
    <3>1. location = <<root, RepoMappingPath>>
      BY <1>1, <2>1, <2>3
    <3>. HIDE DEF location
    <3>2. location[1] = root /\ location[2] = RepoMappingPath
      BY <3>1
    <3>. QED BY <2>3, <3>2 DEF MappingAt, lines
  <2>. QED BY <2>2, <2>3
<1>6. RlocationChecked(strategy, a.file) = <<root, a.file>> /\ <<root, a.file>> # NoWhere
  BY <1>1, <1>2, <1>4 DEF NoWhere
<1>7. Join(RootPath(r, <<root, a.caller>>), a.path) = asked
  <2>1. CurrentRepository(r, <<root, a.caller>>) = source
    BY <1>1 DEF CurrentRepository, Runfiles, source
  <2>2. <<>> \o a.path = a.path
    BY <1>2, ConcatEmptySeq
  <2>. QED BY <2>1, <2>2 DEF Join, WithSegments, RootPath, Runfiles
<1>8. asked.source \in {None, source} /\ (lines # <<>> => asked.source = source)
  OBVIOUS
<1>9. \/ a.file = a.path /\ (Tail(a.path) = <<>> \/ name = None)
      \/ a.file = <<name>> \o Tail(a.path) /\ name # None /\ Tail(a.path) # <<>>
  <2>1. CASE lines = <<>>
    <3>1. asked.source = None /\ name = None
      BY <2>1 DEF LookupRepo
    <3>2. ~Says(lines, source, Head(a.path), Head(a.file))
      BY <2>1 DEF Says
    <3>. QED BY <1>4, <3>1, <3>2
  <2>2. CASE lines # <<>>
    <3>1. asked.source = source
      BY <2>2
    <3>2. /\ (\A i \in DOMAIN lines : ~Applies(lines[i], source, Head(a.path)))
                => name = None
          /\ Says(lines, source, Head(a.path), Head(a.file)) => name = Head(a.file)
      BY <1>3, <1>4, <3>1, LookupFacts DEF Line
    <3>. HIDE DEF name
    <3>. QED BY <1>3, <1>4, <3>2
  <2>. QED BY <2>1, <2>2
<1>10. Rlocation(r, a.path, asked.source) = RlocationChecked(strategy, a.file)
  <2>1. Rlocation(r, a.path, asked.source) =
          IF Tail(a.path) = <<>> \/ name = None THEN RlocationChecked(strategy, a.path)
          ELSE RlocationChecked(strategy, <<name>> \o Tail(a.path))
    BY DEF Rlocation, Runfiles
  <2>. HIDE DEF name, asked, r
  <2>. QED BY <1>9, <2>1
<1>11. PathStr(asked) = <<root, a.file>>
  <2>1. PathStr(asked) =
          LET resolved == Rlocation(r, a.path, asked.source)
          IN  IF resolved # NoWhere THEN resolved ELSE <<r.strategy.root, a.path>>
    BY <1>2 DEF PathStr
  <2>. HIDE DEF asked, r
  <2>. QED BY <1>6, <1>10, <2>1
<1>12. Has(root, a.file)
  BY <1>4 DEF Has
<1>. HIDE DEF asked, r
<1>. QED BY <1>5, <1>7, <1>11, <1>12 DEF strategy, r

LEMMA InitFound == Init => FoundInv
<1>. SUFFICES ASSUME Init, NEW p \in Processes PROVE FoundOK(p)
  BY DEF FoundInv
<1>1. proc[p].pc = "unused"
  BY DEF Init, Unused
<1>. QED BY <1>1 DEF FoundOK

\* The tree that a program runs from provides for its code.
LEMMA OwnTree ==
    ASSUME TreesInv, FoundInv, NEW p \in Processes, NEW own, own = proc[p].own,
           proc[p].pc = "run", p \notin disturbed,
           \/ own[1] = "tree"
           \/ /\ own \notin cut \cup Ambiguous
              /\ \E q \in Processes \ disturbed :
                    /\ proc[q].pc = "run" /\ proc[q].prog \in Zipapps
                    /\ proc[q].root = own
    PROVE  Provides(Tree(own), Place(own), proc[p].prog)
<1>. DEFINE b == proc[p].prog
<1>1. /\ TypeOK /\ Located(p) /\ proc[p].root = own /\ own \in Roots
      /\ b \in Zipapps \cup Binaries
      /\ b \in Binaries => Has(own, Stage2[b])
  BY DEF TreesInv, PlaceInv, Located, FoundInv, FoundOK, Programs
<1>2. CASE own[1] = "tree"
  <2>1. b \notin Zipapps
    <3>. SUFFICES ASSUME b \in Zipapps PROVE FALSE
      OBVIOUS
    <3>1. own = RootOf(p) /\ proc[p].how \in {"main", "preamble"}
          /\ own[1] \in {"temp", proc[p].how}
      BY <1>1, RootFacts DEF Located, InTree
    <3>. QED BY <1>2, <3>1
  <2>2. PICK c \in Binaries : own = TreeRoot(c)
    BY <1>1, <1>2 DEF Roots, SharedRoots, TreeRoot
  <2>3. own[2] = c
    BY <2>2 DEF TreeRoot
  <2>4. Tree(own) = Deployed[c] /\ Place(own) = <<>>
    BY <1>2, <2>3 DEF Tree, Place
  <2>5. Opens(Deployed[c], <<>> \o Stage2[b])
    BY <1>1, <2>1, <2>4 DEF Has
  <2>. QED BY <1>1, <2>1, <2>4, <2>5, RunfilesAssumption
<1>3. CASE own[1] # "tree"
  <2>1. PICK q \in Processes \ disturbed :
            proc[q].pc = "run" /\ proc[q].prog \in Zipapps /\ proc[q].root = own
    BY <1>3
  <2>2. Located(q) /\ InTree(q) /\ own \notin cut \cup Ambiguous
    BY <1>3, <2>1 DEF TreesInv, PlaceInv, InTree
  <2>3. own \in DOMAIN fs /\ proc[q].how \in {"main", "preamble"}
    BY <1>1, <2>1, <2>2, RootFacts DEF Located
  <2>4. Tree(own) = fs[own] /\ Place(own) = <<"runfiles">>
    BY <1>3, <2>3 DEF Tree, Place
  <2>5. CASE b \in Zipapps
    <3>1. fs[own] = FullTree(b, proc[p].how)
      BY <1>1, <2>2, <2>5, WholeTrees DEF WholeTree
    <3>2. proc[p].how \in {"main", "preamble"}
      BY <1>1, <2>5, RootFacts
    <3>. QED BY <2>4, <2>5, <3>1, <3>2, RunfilesAssumption
  <2>6. CASE b \in Binaries
    <3>1. fs[own] = FullTree(proc[q].prog, proc[q].how)
      BY <2>1, <2>2, WholeTrees DEF WholeTree
    <3>2. Opens(FullTree(proc[q].prog, proc[q].how), Runfile(Stage2[b]))
      BY <1>1, <2>4, <2>6, <3>1 DEF Has, Runfile
    <3>. QED BY <2>1, <2>3, <2>4, <2>6, <3>1, <3>2, RunfilesAssumption
  <2>. QED BY <1>1, <2>5, <2>6
<1>. QED BY <1>2, <1>3

LEMMA FoundIsOwn == TreesInv /\ FoundInv => OwnRunfiles
<1>. SUFFICES ASSUME TreesInv, FoundInv, NEW p \in Processes, NEW own, NEW env,
                     own = proc[p].own, env = proc[p].env,
                     proc[p].pc = "run", p \notin disturbed, env.manifest \in {None, own},
                     \/ own[1] = "tree"
                     \/ /\ own \notin cut \cup Ambiguous
                        /\ \E q \in Processes \ disturbed :
                            /\ proc[q].pc = "run" /\ proc[q].prog \in Zipapps
                            /\ proc[q].root = own
              PROVE  /\ \A a \in Asks[proc[p].prog] :
                        /\ PathStr(Join(RootPath(RunfilesOf(p), <<own, a.caller>>), a.path))
                            = <<own, a.file>>
                        /\ Has(own, a.file)
                     /\ \A dir \in proc[p].sysPath : dir[1] = own
  BY DEF OwnRunfiles
<1>1. /\ proc[p].root = own /\ env.dir = own /\ env \in Envs /\ own \in Roots
      /\ proc[p].prog \in Programs
      /\ \A dir \in proc[p].sysPath : dir[1] = own
  BY DEF TreesInv, TypeOK, States, PlaceInv, Located, FoundInv, FoundOK
<1>2. Provides(Tree(own), Place(own), proc[p].prog)
  BY OwnTree
<1>3. RunfilesOf(p) =
        LET strategy == Create(env, ManifestAt(env.manifest))
        IN  Runfiles(strategy, MappingAt(RlocationChecked(strategy, RepoMappingPath)))
  BY DEF RunfilesOf
<1>. QED BY <1>1, <1>2, <1>3, AskedFacts

\* The inductive invariant of where programs look files up, together with TreesInv.
THEOREM FoundInvHolds == Spec => []FoundInv
<1>. QED BY TreesInvHolds, InitFound, NextFound, PTL DEF Spec

\* Main, import path and every runfile that the code of a program asks for come
\* from one tree, which holds them all, for any programs, trees and repository
\* mappings that a build provides for and any interleaving of launches, steps and
\* kills; unless the program was given the manifest of another tree, or runs in an
\* extracted one that WholeTree leaves out.
THEOREM OwnRunfilesHolds == Spec => []OwnRunfiles
<1>. QED BY TreesInvHolds, FoundInvHolds, FoundIsOwn, PTL
=============================================================================

-------------------------------- MODULE Zipper --------------------------------
(* How a zipapp is made: tools/private/zipapp/zipper.py turns the manifest    *)
(* that py_zipapp_rule.bzl wrote into an archive, zip_main_maker.py puts the  *)
(* hash of the inputs into __main__.py, exe_zip_maker.py puts the hash of the *)
(* archive into the shell preamble.  A path is a sequence of components; the  *)
(* target of a link is the path in the archive that it leads to.              *)
EXTENDS Sequences, SequencesExt, FiniteSetsExt, Integers

CONSTANTS
    WorkspaceName,           \* directory of the main repository, "_main"
    LegacyExternalRunfiles,
    PathOrder,               \* every path of an archive, in the order of strings
    Sources,                 \* the files that the manifests name
    Disk                     \* [Sources -> what is there when the action runs]

\* A file, or a link that may lead nowhere on the machine that builds.
File(data) == [kind |-> "file", data |-> data, to |-> <<>>]
Link(path) == [kind |-> "link", data |-> "", to |-> path]

ASSUME PathOrderAssumption == PathOrder \in Seq(ToSet(PathOrder))

ASSUME DiskAssumption ==
    \A s \in Sources : Disk[s].kind \in {"file", "link"} /\ Disk[s].resolves \in BOOLEAN

-----------------------------------------------------------------------------
(* The manifest: lines are records of a type, whether Bazel says that the     *)
(* source is a link ("1", "0", or "-1": this Bazel cannot say), a path, the   *)
(* source, and for an explicit symlink the runfile that it leads to.          *)

GetZipRunfilesPath(path) ==
    <<"runfiles">> \o
        IF (LegacyExternalRunfiles /\ Head(path) = "external") \/ Head(path) = ".."
        THEN Tail(path) ELSE <<WorkspaceName>> \o path

ZipPath(type, path) ==
    CASE type = "regular" -> path
      [] type \in {"rf-empty", "rf-file"} -> GetZipRunfilesPath(path)
      [] type = "rf-symlink" -> <<"runfiles", WorkspaceName>> \o path
      [] type \in {"rf-root-symlink", "symlink"} -> <<"runfiles">> \o path
ParseEntry(line) ==
    [type |-> line.type, isSymlink |-> line.isSymlink, src |-> line.src,
     to |-> <<"runfiles">> \o line.to, path |-> ZipPath(line.type, line.path)]

ReadManifest(lines) == [i \in DOMAIN lines |-> ParseEntry(lines[i])]

\* "-1" is resolved by looking: Bazel would have failed on a dangling file.
IsSymlink(isSymlink, src) ==
    isSymlink = "1" \/ (isSymlink = "-1" /\ ~Disk[src].resolves)

NodeOf(entry) ==
    CASE entry.type = "rf-empty" -> File("empty")
      [] entry.type = "symlink" -> Link(entry.to)
      [] OTHER -> IF IsSymlink(entry.isSymlink, entry.src)
                  THEN Link(Disk[entry.src].to) ELSE File(Disk[entry.src].data)

\* The entries are sorted: explicit symlinks come first, and the others stay in
\* their order.  The first entry of a path is the one that is written.
WriteEntry(entries, path) ==
    LET here == {i \in DOMAIN entries : entries[i].path = path}
        explicit == {i \in here : entries[i].type = "symlink"}
    IN  NodeOf(entries[Min(IF explicit # {} THEN explicit ELSE here)])

CreateZip(lines) ==
    LET entries == ReadManifest(lines)
    IN  [path \in {entries[i].path : i \in DOMAIN entries} |-> WriteEntry(entries, path)]

\* An archive lists its files in the order of their paths.
FirstOf(paths) == PathOrder[Min({i \in DOMAIN PathOrder : PathOrder[i] \in paths})]

-----------------------------------------------------------------------------
(* Hashes name directories; they are modelled by what is hashed             *)

\* What is hashed of a line is not its type.
Rest(line) ==
    CASE line.type = "rf-empty" -> <<line.path>>
      [] line.type = "symlink" -> <<line.path, line.to>>
      [] OTHER -> <<line.path, <<line.isSymlink, line.src>>>>
Content(line) ==
    CASE line.type \in {"rf-empty", "symlink"} -> File("")
      [] OTHER -> IF IsSymlink(line.isSymlink, line.src)
                  THEN Link(Disk[line.src].to) ELSE File(Disk[line.src].data)

\* The manifest that is hashed does not have the line of __main__.py itself.
ComputeInputsHash(lines) ==
    {[rest |-> Rest(line), content |-> Content(line)] :
        line \in {l \in ToSet(lines) : l.type # "regular"}}

\* All of the archive, __main__.py included.
ZipHash(lines) == CreateZip(lines)
=============================================================================

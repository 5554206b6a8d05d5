------------------------------ MODULE BzlDomain ------------------------------
(* sphinxdocs/src/sphinx_bzl/bzl.py: the tables in which the Sphinx domain   *)
(* "bzl" keeps the objects that documents declare, and what directives and   *)
(* Sphinx do to them.  A table {key: entry} is a set of entries with at most *)
(* one for each key.                                                         *)
EXTENDS Naturals, Sequences, SequencesExt

CONSTANTS
    NameLength(_),  \* characters of a full id: alternative names prefer short ones
    DefaultRepo     \* bzl_default_repository_name

\* A name an object may be referred to by: parts that are left out are empty.
\* A repository is a sequence because currentfile may write its name twice; a
\* label is <<package, file or target>>, a path the dotted symbol in it.
Name(repo, label, path) == [repo |-> repo, label |-> label, path |-> path]
Short(path) == Name(<<>>, <<>>, path)

\* The roles whose references may find an object of a type (object_types).
Roles(type) ==
    CASE type = "provider" -> {"provider", "type", "obj"}
      [] type = "typedef" -> {"typedef", "type", "obj"}
      [] type = "flag" -> {"flag", "target", "obj"}
      [] type = "function" -> {"func", "obj"}
      [] type = "module-extension" -> {"module_extension", "obj"}
      [] type = "repo-rule" -> {"repo_rule", "obj"}
      [] type = "tag-class" -> {"tag_class", "obj"}
      [] type = "obj" -> {"obj"}
      [] OTHER -> {type, "obj"}

NoObjects == [objects |-> {}, byType |-> {}, docNames |-> {}, altNames |-> {}]

\* The name of an object inside its document.
BaseName(id) == IF id.path = <<>> THEN Last(id.label) ELSE Last(id.path)

-----------------------------------------------------------------------------
(* Other names an object is found by *)

SymbolAltNames(id) ==
    IF id.path = <<>> THEN {Short(<<Last(id.label)>>)}
    ELSE {Short(id.path), Short(<<Last(id.path)>>)}

LastTwo(path) == SubSeq(path, IF Len(path) > 2 THEN Len(path) - 1 ELSE 1, Len(path))
FieldAltNames(id) == SymbolAltNames(id) \cup {Short(LastTwo(id.path))}

FileAltNames(id) ==
    IF Last(id.label) \in {"BUILD", "BUILD.bazel"}
    THEN {Name(<<>>, <<Head(id.label)>>, <<>>), Short(<<Head(id.label)>>)}
    ELSE {Short(<<Last(id.label)>>)}

\* With the alias without the repository that add_object itself adds.
AltNames(entry) ==
    {Name(<<>>, entry.id.label, entry.id.path)} \cup
    CASE entry.type \in {"field", "provider-field", "tag-class"} -> FieldAltNames(entry.id)
      [] entry.type = "obj" -> FileAltNames(entry.id)
      [] OTHER -> SymbolAltNames(entry.id)

-----------------------------------------------------------------------------
(* _BzlDomain *)

\* An object is registered with another type, or by another document.
Registered(data, id) == {x \in data.objects : x.id = id}
Conflicts(data, entry) == Registered(data, entry.id) \ {entry} # {}

\* An object that is registered already is left alone.
AddObject(data, entry) ==
    IF Registered(data, entry.id) # {} THEN data
    ELSE [objects |-> data.objects \cup {entry},
          byType |-> {x \in data.byType : x.id # entry.id \/ x.type # entry.type}
                     \cup {entry},
          docNames |-> {x \in data.docNames : x.doc # entry.doc
                                              \/ BaseName(x.id) # BaseName(entry.id)}
                       \cup {entry},
          altNames |-> {p \in data.altNames : p.entry.id # entry.id
                                              \/ p.name \notin AltNames(entry)}
                       \cup {[name |-> n, entry |-> entry] : n \in AltNames(entry)}]

\* Mutant: the objects stay in the table of all objects.
ClearDocNames(data, doc) ==
    LET gone == {x \in data.docNames : x.doc = doc}
        ids == {x.id : x \in gone}
    IN [data EXCEPT !.docNames = @ \ gone,
                    !.altNames = {p \in @ : p.entry.id \notin ids}]

\* Mutant: alternative names stay, which are the costly ones to remove.
ClearDocAltNamesStay(data, doc) ==
    LET gone == {x \in data.docNames : x.doc = doc}
        ids == {x.id : x \in gone}
    IN [data EXCEPT !.objects = {x \in @ : x.id \notin ids},
                    !.byType = {x \in @ : \A g \in gone : x.id # g.id \/ x.type # g.type},
                    !.docNames = @ \ gone]

\* Only the objects listed for the document are removed, from every table.
ClearDoc(data, doc) ==
    LET gone == {x \in data.docNames : x.doc = doc}
        ids == {x.id : x \in gone}
    IN [objects |-> {x \in data.objects : x.id \notin ids},
        byType |-> {x \in data.byType :
                        \A g \in gone : x.id # g.id \/ x.type # g.type},
        docNames |-> data.docNames \ gone,
        altNames |-> {p \in data.altNames : p.entry.id \notin ids}]

\* dict.update: the entries of the other process replace those with their key.
MergeDomaindata(data, other) ==
    [objects |-> other.objects \cup
        {x \in data.objects : \A y \in other.objects : x.id # y.id},
     byType |-> other.byType \cup
        {x \in data.byType : \A y \in other.byType : x.id # y.id \/ x.type # y.type},
     docNames |-> other.docNames \cup
        {x \in data.docNames : \A y \in other.docNames :
            x.doc # y.doc \/ BaseName(x.id) # BaseName(y.id)},
     altNames |-> other.altNames \cup
        {p \in data.altNames : \A q \in other.altNames :
            p.name # q.name \/ p.entry.id # q.entry.id}]

\* A reference: flags may be written with dashes, which look for flags only.
Xref(role, target) == [role |-> role, target |-> target, dashes |-> FALSE]
DashedXref(target) == [role |-> "obj", target |-> target, dashes |-> TRUE]

\* The entries _find_entry_for_xref may return: of alternative names with ids
\* of equal length any may come first.
FindEntry(data, fromDoc, ref) ==
    LET role == IF ref.dashes THEN "flag" ELSE ref.role
        fits(x) == role \in Roles(x.type)
        local == {x \in data.docNames : /\ x.doc = fromDoc /\ fits(x)
                                        /\ ref.target = Short(<<BaseName(x.id)>>)}
        exact == {x \in (IF role = "obj" THEN data.objects
                         ELSE {y \in data.byType : y.type = role}) : x.id = ref.target}
        other == {p.entry : p \in {q \in data.altNames : q.name = ref.target /\ fits(q.entry)}}
    IN CASE local # {} -> local
         [] local = {} /\ exact # {} -> exact
         [] OTHER -> {x \in other : \A y \in other : NameLength(x.id) =< NameLength(y.id)}

\* The document a reference leads to, of those it may lead to.
ResolveXref(data, fromDoc, ref) == {x.doc : x \in FindEntry(data, fromDoc, ref)}

\* The domain's index page lists every object.
Index(data) == data.objects

-----------------------------------------------------------------------------
(* Directives: a document is a sequence of them *)

CurrentFile(repo, label) == [dir |-> "currentfile", repo |-> repo, label |-> label]
Object(type, name) == [dir |-> "object", type |-> type, name |-> name]
Target(type, label) == [dir |-> "target", type |-> type, label |-> label]
Field(type, name) == [dir |-> "field", type |-> type, name |-> name]
EndObject == [dir |-> "end"]

\* The doc fields that become objects of their own, by the directive's type.
FieldTypes(type) ==
    CASE type \in {"repo-rule", "rule", "aspect", "tag-class"} -> {"attr"}
      [] type = "function" -> {"arg"}
      [] OTHER -> {}

\* ref_context while a document is read: the file that directives describe and
\* the objects around the current one (the two id stacks are always equal).
NoContext == [repo |-> <<>>, label |-> <<>>, stack |-> <<>>, types |-> <<>>]
Takes(context, field) ==
    context.types # <<>> /\ field \in FieldTypes(Last(context.types))

ObjectId(context, label, path) == Name(context.repo, label, path)

\* Named from the objects around it; the parameters and the type are for display.
HandleSignature(context, d) ==
    ObjectId(context, context.label, Append(context.stack, d.name))
ObjectEntry(context, d, doc) ==
    [id |-> HandleSignature(context, d), type |-> d.type, doc |-> doc]

\* An arg or attr, named after the object it belongs to.
FieldEntry(context, d, doc) ==
    [id |-> Name(context.repo, context.label, Append(context.stack, d.name)),
     type |-> d.type, doc |-> doc]

\* A target or flag is named by its label, or by a name in the current package.
TargetEntry(context, d, doc) ==
    LET label == IF Len(d.label) = 1 THEN <<Head(context.label)>> \o d.label ELSE d.label
    IN [id |-> ObjectId(context, label, <<>>), type |-> d.type, doc |-> doc]

\* The argument of currentfile names the repository or leaves it out: the full
\* id is the repository followed by the argument, which then has it as well.
RepoOf(d) == IF d.repo = <<>> THEN <<DefaultRepo>> ELSE d.repo
FileEntry(d, doc) ==
    [id |-> Name(RepoOf(d) \o d.repo, d.label, <<>>), type |-> "obj", doc |-> doc]

EntryOf(context, d, doc) ==
    CASE d.dir = "object" -> ObjectEntry(context, d, doc)
      [] d.dir = "field" -> FieldEntry(context, d, doc)
      [] d.dir = "target" -> TargetEntry(context, d, doc)
      [] d.dir = "currentfile" -> FileEntry(d, doc)

EnterCurrentFile(d) ==
    [repo |-> RepoOf(d), label |-> d.label, stack |-> <<>>, types |-> <<>>]
BeforeContent(context, d) ==
    [context EXCEPT !.stack = Append(@, d.name), !.types = Append(@, d.type)]
AfterContent(context) == [context EXCEPT !.stack = Front(@), !.types = Front(@)]

Advance(context, d) ==
    CASE d.dir = "currentfile" -> EnterCurrentFile(d)
      [] d.dir = "object" -> BeforeContent(context, d)
      [] d.dir = "end" -> AfterContent(context)
      [] OTHER -> context

\* Reading a document: a conflict is an exception that ends the whole build.
Directive(doc, state, d) ==
    IF d.dir = "end" \/ (d.dir = "field" /\ ~Takes(state.context, d.type))
    THEN [state EXCEPT !.context = Advance(@, d)]
    ELSE LET entry == EntryOf(state.context, d, doc) IN
         [context |-> Advance(state.context, d),
          data |-> AddObject(state.data, entry),
          failed |-> state.failed \/ Conflicts(state.data, entry)]

ReadDoc(read, doc, content) ==
    LET start == [context |-> NoContext, data |-> read.data, failed |-> read.failed]
        end == FoldLeft(LAMBDA s, d : Directive(doc, s, d), start, content)
    IN [data |-> end.data, failed |-> end.failed]

\* What a document declares, whatever is registered already.
Declared(doc, content) ==
    ReadDoc([data |-> NoObjects, failed |-> FALSE], doc, content).data.objects
=============================================================================

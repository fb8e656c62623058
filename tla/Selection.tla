----------------------------- MODULE Selection -----------------------------
(***************************************************************************)
(* `transform` (compdb.rs): which entries of a compilation database are    *)
(* kept, and which file and directory of /workspace they are given.        *)
(* A path is its anchor and its components between separators, spelled     *)
(* with no "." and no empty component; ".." may be anywhere.  The text of  *)
(* `command` and `arguments` is left out.                                  *)
(***************************************************************************)
EXTENDS Paths

CONSTANTS
  Names,       \* names of files and directories (a bound)
  Lower,       \* str::to_lowercase of a component
  Fold,        \* default_case_fold of a component: Lower, and more
  Roots,       \* host roots (a bound)
  Sources,     \* values of "file" (a bound)
  Directories, \* values of "directory" (a bound)
  Manifests,   \* allowed-source manifests (a bound)
  MaxEntries   \* bound: entries of a database

Components == Names \cup {".."}

\* A POSIX absolute path, a Windows drive or UNC path, or a relative one.
Path(anchor, parts) == [anchor |-> anchor, parts |-> parts]
NoPath == Path("none", <<>>)  \* None, or a field that is missing
Located == [anchor : {"none", "posix", "drive", "relative"}, parts : Seq(Components)]

\* The host root must be absolute (lines 752-754), and is not the top itself.
ASSUME SelectionAssumption ==
  /\ "workspace" \in Names /\ ".." \notin Names
  /\ Lower \in [Components -> Components] /\ Fold \in [Components -> Components]
  /\ Roots \subseteq Located
  /\ \A r \in Roots : r.anchor \in {"posix", "drive"} /\ Place(r.parts) # <<>>
  /\ NoPath \in Sources \cap Directories
  /\ Sources \subseteq Located /\ Directories \subseteq Located
  /\ Manifests \subseteq SUBSET Seq(Components)
  /\ MaxEntries \in Nat

VARIABLES
  root,        \* GRAPHIT_SCIP_HOST_ROOT
  manifest,    \* the names allowed, as sequences of components
  selecting,   \* there is a manifest
  retained,    \* the entries kept, each with what it became
  omitted,     \* the entries left out
  unresolved,  \* the number reported at the end
  answer

given == <<root, manifest, selecting>>
vars == <<given, retained, omitted, unresolved, answer>>

\* windows(root): the root decides how every path is compared.
Windows == root.anchor = "drive"

Folded(parts) == [i \in DOMAIN parts |-> IF Windows THEN Fold[parts[i]] ELSE parts[i]]
\* Mutant: case is never ignored.
SameSpelling(a, b) == a = b
Same(a, b) == IF Windows THEN Lower[a] = Lower[b] ELSE a = b
After(parts, n) == SubSeq(parts, n + 1, Len(parts))
InWorkspace(parts) == parts # <<>> /\ parts[1] = "workspace"

\* workspace_path: where a path lies in the container, or nowhere.  Paths that
\* are container paths already are taken as such.
WorkspacePath(path) ==
  LET base == Normal(root.parts)
      candidate == Normal(path.parts)
  IN IF path.anchor = "posix" /\ InWorkspace(path.parts)
     THEN IF InWorkspace(candidate) THEN Path("posix", candidate) ELSE NoPath
     ELSE IF /\ path.anchor = root.anchor
             /\ Len(base) <= Len(candidate)
             /\ \A i \in DOMAIN base : Same(base[i], candidate[i])
     THEN Path("posix", <<"workspace">> \o After(candidate, Len(base)))
     ELSE NoPath

Joined(base, parts) == Normal(base \o parts)

\* source_relative: the source below /workspace; a relative source is looked
\* for in the entry's directory.
SourceRelative(entry) ==
  LET direct == WorkspacePath(entry.file)
      base == WorkspacePath(entry.directory)
      joined == IF entry.file.anchor = "relative" /\ base # NoPath
                THEN Path("posix", Joined(base.parts, entry.file.parts)) ELSE NoPath
      mapped == IF direct # NoPath THEN direct ELSE joined
  IN IF InWorkspace(mapped.parts) /\ Len(mapped.parts) > 1
     THEN Path("relative", After(mapped.parts, 1)) ELSE NoPath

\* Two names with one folded key: there is no canonical spelling.
Ambiguous == \E a, b \in manifest : a # b /\ Folded(a) = Folded(b)

\* Mutant: names are looked up as they are spelled.
Verbatim(parts) == {name \in manifest : name = parts}
Canonical(parts) == {name \in manifest : Folded(name) = Folded(parts)}

Init ==
  /\ root \in Roots
  /\ selecting \in BOOLEAN
  /\ manifest \in IF selecting THEN Manifests ELSE {{}}
  /\ retained = <<>> /\ omitted = <<>> /\ unresolved = 0
  /\ answer = "none"

Refuse ==
  /\ answer = "none" /\ retained = <<>> /\ omitted = <<>>
  /\ Ambiguous
  /\ answer' = "AmbiguousAllowlist"
  /\ UNCHANGED <<given, retained, omitted, unresolved>>

\* Mutant: the directory keeps the spelling of the host.
AsSpelled(directory, rel, name) == directory
\* The directory of an entry is respelled like the name it leads to, when that
\* name lies below it (Windows only; lines 823-861 of the source).
Respelled(directory, rel, name) ==
  LET below == After(directory.parts, 1)
  IN IF /\ Windows /\ rel # NoPath /\ directory # NoPath
        /\ Len(below) <= Len(rel.parts)
        /\ Folded(below) = SubSeq(Folded(rel.parts), 1, Len(below))
     THEN Path("posix", <<"workspace">> \o SubSeq(name, 1, Len(below)))
     ELSE directory

\* What an entry becomes; a path that is nowhere in the workspace is rewritten
\* as text, which is left out.
Translated(entry, rel, name) ==
  [source |-> entry,
   file |-> IF rel # NoPath THEN Path("posix", <<"workspace">> \o name)
                            ELSE WorkspacePath(entry.file),
   directory |-> Respelled(WorkspacePath(entry.directory), rel, name)]

Running == answer = "none" /\ ~Ambiguous /\ Len(retained) + Len(omitted) < MaxEntries

Entries == [file : Sources, directory : Directories]

Keep(entry) ==
  LET rel == SourceRelative(entry) IN
  /\ \E name \in IF selecting /\ rel # NoPath THEN Canonical(rel.parts) ELSE {rel.parts} :
       retained' = Append(retained, Translated(entry, rel, name))
  /\ unresolved' = IF selecting /\ rel = NoPath THEN unresolved + 1 ELSE unresolved
  /\ UNCHANGED <<given, omitted, answer>>

Omit(entry) ==
  LET rel == SourceRelative(entry) IN
  /\ selecting /\ rel # NoPath /\ Canonical(rel.parts) = {}
  /\ omitted' = Append(omitted, entry)
  /\ UNCHANGED <<given, retained, unresolved, answer>>

Finish ==
  /\ answer = "none" /\ ~Ambiguous /\ answer' = "Ok"
  /\ UNCHANGED <<given, retained, omitted, unresolved>>

Next ==
  \/ Refuse \/ Finish
  \/ Running /\ \E entry \in Entries : Keep(entry) \/ Omit(entry)

Spec == Init /\ [][Next]_vars
=============================================================================

----------------------------- MODULE Discovery -----------------------------
(***************************************************************************)
(* Which files of a workspace `candidates` finds (dispatch.rs), and which  *)
(* of them `dotnet_inputs` takes for covered by a solution.  A file is the *)
(* sequence of names that leads to it from the workspace; <<>> is the      *)
(* workspace itself.  Module Dispatch walks, one directory a step, while   *)
(* the user may change the files.                                          *)
(***************************************************************************)
EXTENDS Order, Paths, SequencesExt

CONSTANTS
  Hidden,        \* the names that begin with a dot
  Links,         \* the paths that are symbolic links
  MaxDiscovery   \* MAX_DISCOVERY

Generated == {"bin", "obj", "node_modules", "target"}

\* read_dir: what is below a directory, as paths.  A directory is one because
\* something is in it.
Entries(dir, files) ==
  {SubSeq(f, 1, Len(dir) + 1) : f \in {g \in files : IsStrictPrefix(dir, g)}}

Visible(path) == Last(path) \notin Hidden
IsFile(path, files) == path \in files /\ path \notin Links
IsDirectory(path, files) == path \notin files /\ path \notin Links

\* Links are never followed and generated projects are not found again.
Subdirectories(dir, recursive, files) ==
  {d \in Entries(dir, files) :
     recursive /\ Visible(d) /\ IsDirectory(d, files) /\ Last(d) \notin Generated}

\* A link to a file is taken only where the walk does not descend.
Matches(dir, recursive, files, wanted) ==
  {f \in Entries(dir, files) \cap wanted :
     Visible(f) /\ (IsFile(f, files) \/ (~recursive /\ f \in files \cap Links))}

\* The absolute path a line of `dotnet sln list` names, "." and ".." resolved
\* by name; ".." above the root stays there.
Workspace == <<"workspace">>
Dotless(path) == InOrder(path, ToSet(path) \ {"."})
Resolve(path) == Normal(Dotless(path))
\* Mutant: the path is joined and left as the SDK prints it.
Verbatim(solution, line) == Workspace \o Front(solution) \o line
Covers(solution, line) == Resolve(Workspace \o Front(solution) \o line)
=============================================================================

------------------------ MODULE SelectionProperties ------------------------
(***************************************************************************)
(* What Selection must get right, against a reference that walks a path    *)
(* from the top instead of keeping a stack of components.                  *)
(***************************************************************************)
EXTENDS Selection

\* The absolute path a source stands for, in the terms of its entry.
Absolute(entry) ==
  IF entry.file.anchor # "relative" THEN entry.file
  ELSE IF entry.directory.anchor \in {"posix", "drive"}
  THEN Path(entry.directory.anchor, entry.directory.parts \o entry.file.parts)
  ELSE NoPath

\* Spelled as a path of the container, or of the host: what it must lie below.
InContainer(path) == path.anchor = "posix" /\ InWorkspace(path.parts)
Top(path) == IF InContainer(path) THEN <<"workspace">> ELSE Place(root.parts)
Alike(a, b, anchor) == a = b \/ (anchor = "drive" /\ Lower[a] = Lower[b])
StartsAt(path, place) ==
  /\ InContainer(path) \/ path.anchor = root.anchor
  /\ Len(Top(path)) <= Len(place)
  /\ \A i \in DOMAIN Top(path) : Alike(Top(path)[i], place[i], path.anchor)

\* Where a path lies below the root, or below /workspace.
Below(path) ==
  IF StartsAt(path, Place(path.parts)) THEN After(Place(path.parts), Len(Top(path))) ELSE <<>>

\* A relative path, from the directory of its entry, never goes above the root.
StaysBelow(entry) ==
  LET path == Absolute(entry) IN
  \A n \in Len(entry.directory.parts)..Len(path.parts) :
    Level(path.parts, n) >= Len(Top(path))

\* A source names "workspace" after a "..": it may leave the root and come back
\* by a sibling of that name, which the code takes for the root.
Climbs(parts) ==
  \E i, j \in 1..Len(parts) : i < j /\ parts[i] = ".." /\ parts[j] = "workspace"

-----------------------------------------------------------------------------
Resolved == {retained[i] : i \in {j \in DOMAIN retained : Len(retained[j].file.parts) > 1}}

(* A kept entry that is given a source below /workspace is given the source it
   stood for on the host, however the path was spelled: docs/compdb-filter.md,
   "A source outside the root, an escaping relative path, or a source that
   cannot be resolved is retained" as unresolved. *)
KeptInPlace ==
  \A kept \in Resolved :
    Folded(After(kept.file.parts, 1)) = Folded(Below(Absolute(kept.source)))

(* With a manifest, what was kept as resolved is spelled as the manifest spells
   it, and in no other way; what was left out lies below the root under a name
   the manifest does not have in any spelling. *)
SelectionExact ==
  selecting =>
    /\ \A kept \in Resolved :
         {n \in manifest : Folded(n) = Folded(After(kept.file.parts, 1))}
           = {After(kept.file.parts, 1)}
    /\ \A i \in DOMAIN omitted :
         LET name == Below(Absolute(omitted[i]))
         IN name # <<>> /\ \A n \in manifest : Folded(n) # Folded(name)

(* An entry below the root is never passed through unresolved, or left out as
   if it were elsewhere, unless a relative path climbs above the root on its
   way. *)
InsideIsResolved ==
  \A i \in DOMAIN retained :
    LET entry == retained[i].source IN
    Below(Absolute(entry)) # <<>> /\ (entry.file.anchor # "relative" \/ StaysBelow(entry)) =>
      retained[i] \in Resolved

(* Windows: when the source of a kept entry lies below its directory, it does so
   in the spelling the container compares: relative references go on working. *)
DirectoryLeadsToSource ==
  Windows => \A kept \in Resolved :
    LET dir == kept.directory.parts IN
    dir # <<>> /\ Len(dir) <= Len(kept.file.parts)
      /\ Folded(dir) = Folded(SubSeq(kept.file.parts, 1, Len(dir)))
    => dir = SubSeq(kept.file.parts, 1, Len(dir))
=============================================================================

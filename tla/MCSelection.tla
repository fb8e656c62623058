---------------------------- MODULE MCSelection ----------------------------
(* Instances of Selection for TLC. *)
EXTENDS SelectionProperties

CONSTANT Climbing  \* a relative source may name "workspace" after a ".."

\* "ss", "SS" and "eszett" are one name to a full case folding, and the first
\* two of them to a lower-casing.
MCNames == {"workspace", "p", "P", "ss", "SS", "eszett"}
Capitals == [P |-> "p", SS |-> "ss"]
MCLower == [n \in MCNames \cup {".."} |-> IF n \in DOMAIN Capitals THEN Capitals[n] ELSE n]
MCFold == [n \in DOMAIN MCLower |-> IF n = "eszett" THEN "ss" ELSE MCLower[n]]

PartsOf(names, n) == UNION {[1..k -> names] : k \in 0..n}
Plain == {"p", "SS", "eszett", ".."}
MCRoots == {Path("posix", <<"p">>), Path("posix", <<"ss", "p">>),
            Path("drive", <<"p">>), Path("drive", <<"ss", "p">>)}
MCSources ==
  {NoPath}
    \cup {Path(anchor, parts) : anchor \in {"posix", "drive"}, parts \in PartsOf(Plain, 3)}
    \cup {Path("relative", parts) :
            parts \in {p \in PartsOf(Plain \cup {"workspace"}, 3) : Climbing \/ ~Climbs(p)}}
    \cup {Path("posix", <<"workspace">> \o parts) : parts \in PartsOf(Plain, 2)}
MCDirectories ==
  {NoPath, Path("posix", <<"p">>), Path("posix", <<"ss", "p", "SS">>),
   Path("posix", <<"p", "..", "p", "ss">>), Path("drive", <<"P">>),
   Path("drive", <<"P", "eszett">>), Path("posix", <<"workspace", "SS">>),
   Path("posix", <<"ss">>)}
MCManifests == {{}, {<<"SS">>}, {<<"ss">>, <<"eszett">>}, {<<"eszett", "SS">>, <<"SS">>}}
=============================================================================

------------------------------ MODULE Release ------------------------------
(***************************************************************************)
(* release-metadata: the families of a release are discovered under        *)
(* images/, rendered, appended to the file the workflow reads, and printed.*)
(* Each call to the file system is a step; between two of them others may  *)
(* change an entry of images/ or make the output a link to a Dockerfile,   *)
(* and any call may fail.                                                  *)
(***************************************************************************)
EXTENDS Order, FiniteSets, SequencesExt

CONSTANTS
  Families,     \* the valid family names there may be, in sorted order
  Invalid,      \* the other names there may be
  MaxFamilies,  \* MAX_FAMILIES
  MaxChanges    \* bound: steps of others

ReleaseNames == ToSet(Families) \cup Invalid

\* Each name is there once, and none is a word for what the output may be.
ASSUME ReleaseAssumption ==
  /\ Families \in Seq(STRING) /\ IsInjective(Families)
  /\ ToSet(Families) \cap (Invalid \cup {"unset", "absent", "link", "other", "own"}) = {}
  /\ MaxFamilies \in Nat /\ MaxChanges \in Nat

\* What an immediate entry of images/ may be: a link, a directory whose
\* Dockerfile is a link ("linked") or a regular file ("image"), or nothing that
\* matters ("other": a file, a directory without a regular Dockerfile, nothing).
Kinds == {"link", "linked", "image", "other"}

VARIABLES
  pc,       \* "tag", "root", "entries", "render", "stat", "alias", "open",
            \* "write", "stdout" or "done"
  tag,      \* RELEASE_TAG is a stable version
  root,     \* images/ itself: "dir", "link" or "other"
  images,   \* the kind of each entry
  output,   \* GITHUB_OUTPUT: "unset", "absent", "link", "other", "own" (a file of
            \* its own) or the family whose Dockerfile it is
  text,     \* lines of the output's own file
  written,  \* the families whose Dockerfile was written to
  unread,   \* the entries read_dir has still to give
  listed,   \* the local `families`
  matrix,   \* Metadata.matrix
  compared, \* how many families the output was compared with
  stdout,   \* "none", "part" or "whole"
  exit,     \* "none", "Ok" or the error
  changes,  \* steps of others so far
  start,    \* history: text at the start, the entries nobody changed since, and
            \* the names that ever were an image
  late      \* history: the output was replaced after it was last looked at

disk == <<root, images, output, text, written>>
locals == <<unread, listed, matrix, compared>>
others == <<changes, start, late>>
vars == <<pc, tag, disk, locals, stdout, exit, others>>

Images == {n \in ReleaseNames : images[n] = "image"}

Init ==
  /\ pc = "tag" /\ tag \in BOOLEAN
  /\ root \in {"dir", "link", "other"}
  /\ images \in [ReleaseNames -> Kinds]
  /\ output \in {"unset", "absent", "link", "other", "own"} \cup (Images \cap ToSet(Families))
  /\ text = <<"existing">> /\ written = {}
  /\ unread = {} /\ listed = {} /\ matrix = <<>> /\ compared = 0
  /\ stdout = "none" /\ exit = "none" /\ changes = 0 /\ late = FALSE
  /\ start = [text |-> text, stable |-> ReleaseNames, images |-> Images]

End(value) == pc' = "done" /\ exit' = value
Goto(label) == pc' = label /\ UNCHANGED exit
Looks == UNCHANGED <<tag, disk, stdout, others>>

\* Arguments, RELEASE_TAG and its grammar.
ReadTag ==
  /\ pc = "tag"
  /\ IF tag THEN Goto("root") ELSE End("Tag")
  /\ Looks /\ UNCHANGED locals

\* Lines 63-69.
OpenRoot ==
  /\ pc = "root"
  /\ \/ root = "link" /\ End("Symlink") /\ UNCHANGED unread
     \/ End("Images") /\ UNCHANGED unread
     \/ root = "dir" /\ Goto("entries") /\ unread' = ReleaseNames
  /\ Looks /\ UNCHANGED <<listed, matrix, compared>>

Full == Cardinality(listed) = MaxFamilies

\* Mutant: a Dockerfile that is a link is passed over like any other file.
PassesLinks(n) ==
  CASE images[n] = "link" -> {"Symlink"}
    [] images[n] = "image" /\ n \in Invalid -> {"Family"}
    [] images[n] = "image" /\ n \notin Invalid /\ Full -> {"Limit"}
    [] OTHER -> {}

\* What makes an entry, as it is now, end the program.
Denied(n) ==
  CASE images[n] \in {"link", "linked"} -> {"Symlink"}
    [] images[n] = "image" /\ n \in Invalid -> {"Family"}
    [] images[n] = "image" /\ n \notin Invalid /\ Full -> {"Limit"}
    [] OTHER -> {}

\* Lines 70-121: read_dir gives the entries in any order.  A row that cannot be
\* reserved is a Limit too.
ReadEntry(n) ==
  /\ pc = "entries" /\ n \in unread
  /\ unread' = unread \ {n}
  /\ \/ \E value \in Denied(n) \cup {"Images", "Limit"} : End(value) /\ UNCHANGED listed
     \/ /\ Denied(n) = {}
        /\ listed' = IF images[n] = "image" THEN listed \cup {n} ELSE listed
        /\ Goto("entries")
  /\ Looks /\ UNCHANGED <<matrix, compared>>

\* Lines 122-138, and both renderings: json here, and github_output before
\* append touches anything.  MaxFamilies rows fit; a buffer that cannot be
\* reserved is a Limit.
Render ==
  /\ pc = "entries" /\ unread = {}
  /\ matrix' = InOrder(Families, listed)
  /\ \/ listed = {} /\ End("Empty")
     \/ listed # {} /\ End("Limit")
     \/ listed # {} /\ Goto(IF output = "unset" THEN "stdout" ELSE "stat")
  /\ Looks /\ UNCHANGED <<unread, listed, compared>>

\* symlink_metadata of the output.
Stat ==
  /\ pc = "stat"
  /\ \/ output = "link" /\ End("Symlink")
     \/ End("Io")
     \/ output \notin {"link", "other"} /\ Goto(IF output = "absent" THEN "open" ELSE "alias")
  /\ Looks /\ UNCHANGED locals

\* Mutant: only the first family is compared.
FirstOnly == compared > 0
ComparedAll == compared = Len(matrix)

\* is_same_file opens both; a link is followed by now.
Compare ==
  /\ pc = "alias"
  /\ IF ComparedAll THEN Goto("open") /\ UNCHANGED compared
     ELSE /\ compared' = compared + 1
          /\ \/ End("Io")
             \/ output = matrix[compared + 1] /\ End("Alias")
             \/ /\ output # matrix[compared + 1]
                /\ images[matrix[compared + 1]] # "other"
                /\ Goto("alias")
  /\ Looks /\ UNCHANGED <<unread, listed, matrix>>

\* Opening creates the file, and follows a link.
OpenOutput ==
  /\ pc = "open"
  /\ \/ End("Io") /\ UNCHANGED output
     \/ output # "other" /\ Goto("write") /\ output' = IF output = "absent" THEN "own" ELSE output
  /\ UNCHANGED <<tag, root, images, text, written, locals, stdout, others>>

\* github_output: one line of matrix, and tags between their delimiters.
Rendered == <<matrix, "tags<<", "tags", "delimiter">>

\* Mutant: what the call to write took is taken for all.
AnyPrefix == {SubSeq(Rendered, 1, n) : n \in 1..Len(Rendered)}
AllOfIt == {Rendered}

\* write_all to the file that was opened: a failure leaves a part.
Append1(lines) ==
  /\ IF output \in ToSet(Families)
     THEN written' = written \cup {output} /\ UNCHANGED text
     ELSE text' = text \o lines /\ UNCHANGED written
WriteOutput ==
  /\ pc = "write"
  /\ \/ End("Io") /\ \E n \in 0..Len(Rendered) - 1 : Append1(SubSeq(Rendered, 1, n))
     \/ Goto("stdout") /\ \E lines \in AllOfIt : Append1(lines)
  /\ UNCHANGED <<tag, root, images, output, locals, stdout, others>>

\* The JSON and a newline; main turns an error into exit status 2.
Report ==
  /\ pc = "stdout"
  /\ \/ stdout' \in {"none", "part"} /\ End("Io")
     \/ stdout' = "whole" /\ End("Ok")
  /\ UNCHANGED <<tag, disk, locals, others>>

-----------------------------------------------------------------------------
(* Others.                                                                 *)

Changes == changes < MaxChanges /\ pc # "done" /\ changes' = changes + 1

ChangeEntry(n) ==
  /\ Changes
  /\ \E kind \in Kinds \ {images[n]} : images' = [images EXCEPT ![n] = kind]
  /\ output # n
  /\ start' = [start EXCEPT !.stable = @ \ {n}, !.images = @ \cup Images']
  /\ UNCHANGED <<pc, tag, root, output, text, written, locals, stdout, exit, late>>

\* The output becomes a hard link to a Dockerfile.
LinkOutput(n) ==
  /\ Changes /\ pc # "write"
  /\ n \in Images \cap ToSet(Families) /\ output \notin {"unset", n}
  /\ output' = n
  /\ late' = (late \/ pc = "open" \/ n \in ToSet(SubSeq(matrix, 1, compared)))
  /\ UNCHANGED <<pc, tag, root, images, text, written, locals, stdout, exit, start>>

Program ==
  \/ ReadTag \/ OpenRoot \/ (\E n \in ReleaseNames : ReadEntry(n)) \/ Render
  \/ Stat \/ Compare \/ OpenOutput \/ WriteOutput \/ Report
Next == Program \/ \E n \in ReleaseNames : ChangeEntry(n) \/ LinkOutput(n)

Spec == Init /\ [][Next]_vars

-----------------------------------------------------------------------------
(* Properties.                                                             *)

\* Success means that the whole record was added once and the whole JSON was
\* printed.  A refusal for what was found, and anything before the append,
\* leaves the output as it was; a failed write leaves a part and is reported,
\* and nothing is printed before the append is done.
AppendedWholeOrReported ==
  /\ IsPrefix(start.text, text) /\ IsPrefix(text, start.text \o Rendered)
  /\ exit = "Ok" => stdout = "whole"
  /\ exit \notin {"none", "Ok", "Io"} => text = start.text /\ stdout = "none"
  /\ stdout # "none" /\ output = "own" => text = start.text \o Rendered

\* No Dockerfile of the release is written to, unless the output was made a
\* link to it when it had been compared.
DockerfilesSurvive == \A n \in written : late \/ n \notin ToSet(matrix)

\* Whatever changes meanwhile, what is printed lists, each once, every family
\* that was there all the time, and nothing that never was, and no more than the
\* cap; and nothing is printed if a link or an image of another name was there
\* all the time.
MatrixExact ==
  stdout # "none" =>
    /\ {n \in start.stable : images[n] = "image"} \subseteq ToSet(matrix)
    /\ ToSet(matrix) \subseteq start.images
    /\ Len(matrix) = Cardinality(ToSet(matrix)) /\ Len(matrix) \in 1..MaxFamilies
    /\ \A n \in start.stable : images[n] \notin {"link", "linked"}
    /\ \A n \in start.stable \cap Invalid : images[n] # "image"
=============================================================================

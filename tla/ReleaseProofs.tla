--------------------------- MODULE ReleaseProofs ----------------------------
(***************************************************************************)
(* For every list of families, any other names, every cap and any number   *)
(* of changes by others: what release-metadata prints lists the families   *)
(* of the release, what it appends is whole or reported, and no Dockerfile *)
(* is written to.                                                          *)
(***************************************************************************)
EXTENDS Release, ListProofs, TLAPS

\* The entries were read and the matrix is rendered.
Rendering == pc \in {"stat", "alias", "open", "write", "stdout"} \/ stdout # "none"

\* Every entry that nobody changed and that was read is passed over or listed.
EntriesInv ==
  /\ images \in [ReleaseNames -> Kinds] /\ start.stable \subseteq ReleaseNames
  /\ start = [text |-> start.text, stable |-> start.stable, images |-> start.images]
  /\ Images \subseteq start.images
  /\ pc \in {"tag", "root"} => listed = {}
  /\ pc = "entries" \/ Rendering =>
       /\ listed \subseteq ToSet(Families) \cap start.images
       /\ IsFiniteSet(listed) /\ Cardinality(listed) <= MaxFamilies
       /\ \A n \in start.stable \ unread :
            images[n] \notin {"link", "linked"} /\ (images[n] = "image" => n \in listed)
  /\ Rendering => unread = {} /\ listed # {} /\ matrix = InOrder(Families, listed)

\* Until it is written to, the output is no Dockerfile it was compared with.
OutputInv ==
  /\ pc \in {"tag", "root", "entries", "stat"} => compared = 0
  /\ pc = "alias" => /\ compared \in 0..Len(matrix)
                     /\ late \/ \A i \in 1..compared : output # matrix[i]
  /\ pc \in {"open", "write"} => late \/ output \notin ToSet(matrix)
  /\ pc \notin {"stdout", "done"} => written = {}
  /\ DockerfilesSurvive

\* What was appended is the beginning of the record, and all of it before
\* anything is printed.
AppendInv ==
  /\ start.text = <<"existing">>
  /\ pc # "done" => stdout = "none" /\ exit = "none"
  /\ pc \notin {"stdout", "done"} => text = start.text
  /\ text = start.text \/ \E n \in 0..4 : text = start.text \o SubSeq(Rendered, 1, n)
  /\ (pc = "stdout" \/ stdout # "none") /\ output = "own" => text = start.text \o Rendered
  /\ exit = "Ok" => stdout = "whole"
  /\ exit \notin {"none", "Ok", "Io"} => text = start.text /\ stdout = "none"

-----------------------------------------------------------------------------
(* The entries.                                                            *)

(* What others change is not stable any more. *)
LEMMA ChangeEntryKeeps ==
  ASSUME EntriesInv, NEW n \in ReleaseNames, ChangeEntry(n)
  PROVE  /\ images' \in [ReleaseNames -> Kinds] /\ start'.text = start.text
         /\ start'.stable = start.stable \ {n}
         /\ start.images \subseteq start'.images /\ Images' \subseteq start'.images
         /\ start' = [text |-> start'.text, stable |-> start'.stable, images |-> start'.images]
         /\ \A m \in start'.stable : images'[m] = images[m]
<1>1. PICK kind \in Kinds : images' = [images EXCEPT ![n] = kind]
  BY DEF ChangeEntry
<1>2. start' = [start EXCEPT !.stable = start.stable \ {n},
                             !.images = start.images \cup Images']
  BY DEF ChangeEntry
<1>3. start = [text |-> start.text, stable |-> start.stable, images |-> start.images]
  BY DEF EntriesInv
<1>4. images \in [ReleaseNames -> Kinds] /\ start.stable \subseteq ReleaseNames
  BY DEF EntriesInv
<1>. DEFINE now == Images'
<1>. HIDE DEF now
<1>5. /\ start'.text = start.text /\ start'.stable = start.stable \ {n}
      /\ start'.images = start.images \cup now
      /\ start' = [text |-> start'.text, stable |-> start'.stable, images |-> start'.images]
  BY <1>2, <1>3 DEF now
<1>6. images' \in [ReleaseNames -> Kinds]
  BY <1>1, <1>4
<1>7. ASSUME NEW m \in start'.stable PROVE images'[m] = images[m]
  BY <1>1, <1>4, <1>5
<1>8. QED
  BY <1>5, <1>6, <1>7 DEF now

(* An entry is read as it is now. *)
LEMMA EntryRead ==
  ASSUME EntriesInv, stdout = "none", NEW n \in ReleaseNames, ReadEntry(n)
  PROVE  EntriesInv'
<1>1. /\ pc = "entries" /\ unread' = unread \ {n} /\ images' = images /\ start' = start
      /\ stdout' = stdout /\ matrix' = matrix
  BY DEF ReadEntry, Looks, disk, others
<1>2. /\ images \in [ReleaseNames -> Kinds] /\ Images \subseteq start.images
      /\ listed \subseteq ToSet(Families) \cap start.images
      /\ IsFiniteSet(listed) /\ Cardinality(listed) <= MaxFamilies
      /\ \A m \in start.stable \ unread :
           images[m] \notin {"link", "linked"} /\ (images[m] = "image" => m \in listed)
  BY <1>1 DEF EntriesInv
<1>3. Images' = Images /\ ReleaseNames' = ReleaseNames
  BY <1>1 DEF Images, ReleaseNames
<1>4. CASE pc' = "done"
  <2>1. ~Rendering'
    BY <1>1, <1>4 DEF Rendering
  <2>2. QED
    BY <1>1, <1>3, <1>4, <2>1 DEF EntriesInv
<1>5. CASE pc' # "done"
  <2>1. /\ pc' = "entries" /\ Denied(n) = {}
        /\ listed' = IF images[n] = "image" THEN listed \cup {n} ELSE listed
    BY <1>5 DEF ReadEntry, End, Goto
  <2>2. /\ images[n] \notin {"link", "linked"}
        /\ images[n] = "image" => n \notin Invalid /\ ~Full
    BY <2>1 DEF Denied
  <2>3. CASE images[n] = "image"
    <3>1. n \in ToSet(Families) /\ n \in start.images
      BY <1>2, <2>2, <2>3 DEF ReleaseNames, Images
    <3>2. listed' = listed \cup {n} /\ IsFiniteSet(listed')
      BY <1>2, <2>1, <2>3, FS_AddElement
    <3>3. Cardinality(listed') <= MaxFamilies
      <4>1. Cardinality(listed) # MaxFamilies /\ Cardinality(listed) \in Nat /\ MaxFamilies \in Nat
        BY <1>2, <2>2, <2>3, FS_CardinalityType, ReleaseAssumption DEF Full
      <4>2. Cardinality(listed') \in {Cardinality(listed), Cardinality(listed) + 1}
        BY <1>2, <3>2, FS_AddElement
      <4>3. QED
        BY <1>2, <4>1, <4>2
    <3>4. \A m \in start.stable \ unread' :
            images[m] \notin {"link", "linked"} /\ (images[m] = "image" => m \in listed')
      BY <1>1, <1>2, <2>2, <3>2
    <3>5. ~Rendering'
      BY <1>1, <2>1 DEF Rendering
    <3>6. QED
      BY <1>1, <1>2, <1>3, <2>1, <3>1, <3>2, <3>3, <3>4, <3>5 DEF EntriesInv
  <2>4. CASE images[n] # "image"
    <3>1. ~Rendering'
      BY <1>1, <2>1 DEF Rendering
    <3>2. QED
      BY <1>1, <1>2, <1>3, <2>1, <2>2, <2>4, <3>1 DEF EntriesInv
  <2>5. QED
    BY <2>3, <2>4
<1>6. QED
  BY <1>4, <1>5

(* Steps of the program, and of others, keep what is known of the entries. *)
LEMMA EntriesStep ==
  ASSUME EntriesInv, AppendInv, [Next]_vars
  PROVE  EntriesInv'
<1>. USE DEF Looks, disk, locals, others, End, Goto
<1>1. CASE \E n \in ReleaseNames : ReadEntry(n)
  BY <1>1, EntryRead DEF AppendInv, ReadEntry
<1>2. CASE \E n \in ReleaseNames : ChangeEntry(n)
  <2>1. PICK n \in ReleaseNames : ChangeEntry(n)
    BY <1>2
  <2>2. /\ images' \in [ReleaseNames -> Kinds] /\ start'.stable = start.stable \ {n}
        /\ start.images \subseteq start'.images /\ Images' \subseteq start'.images
        /\ start' = [text |-> start'.text, stable |-> start'.stable, images |-> start'.images]
        /\ \A m \in start'.stable : images'[m] = images[m]
    BY <2>1, ChangeEntryKeeps
  <2>3. pc' = pc /\ stdout' = stdout /\ listed' = listed /\ unread' = unread /\ matrix' = matrix
    BY <2>1 DEF ChangeEntry
  <2>4. Rendering' = Rendering /\ \A m \in start'.stable \ unread' : m \in start.stable \ unread
    BY <2>2, <2>3 DEF Rendering
  <2>5. start'.stable \subseteq ReleaseNames
    BY <2>2 DEF EntriesInv
  <2>6. QED
    BY <2>2, <2>3, <2>4, <2>5 DEF EntriesInv
<1>3. CASE OpenRoot
  <2>1. /\ pc = "root" /\ pc' \in {"done", "entries"} /\ images' = images /\ start' = start
        /\ stdout' = stdout /\ listed' = listed /\ (pc' = "entries" => unread' = ReleaseNames)
    BY <1>3 DEF OpenRoot
  <2>2. stdout = "none" /\ listed = {} /\ IsFiniteSet({}) /\ Cardinality({}) = 0
    BY <2>1, FS_EmptySet DEF AppendInv, EntriesInv
  <2>3. ~Rendering' /\ Images' = Images /\ 0 <= MaxFamilies
    BY <2>1, <2>2, ReleaseAssumption DEF Rendering, Images
  <2>4. QED
    BY <2>1, <2>2, <2>3 DEF EntriesInv
<1>4. CASE Render
  <2>1. /\ pc = "entries" /\ unread = {} /\ matrix' = InOrder(Families, listed)
        /\ (pc' # "done" => listed # {}) /\ images' = images /\ start' = start
        /\ stdout' = stdout /\ listed' = listed /\ unread' = unread
        /\ pc' \in {"done", "stdout", "stat"}
    BY <1>4 DEF Render
  <2>2. stdout = "none" /\ Images' = Images
    BY <2>1 DEF AppendInv, Images
  <2>3. Rendering' => listed # {}
    BY <2>1, <2>2 DEF Rendering
  <2>4. QED
    BY <2>1, <2>2, <2>3 DEF EntriesInv
<1>5. CASE ReadTag
  <2>1. /\ pc = "tag" /\ pc' \in {"done", "root"} /\ images' = images /\ start' = start
        /\ stdout' = stdout /\ listed' = listed
    BY <1>5 DEF ReadTag
  <2>2. ~Rendering' /\ Images' = Images
    BY <2>1 DEF AppendInv, Rendering, Images
  <2>3. QED
    BY <2>1, <2>2 DEF EntriesInv
<1>6. CASE Stat \/ Compare \/ OpenOutput \/ WriteOutput \/ Report
  <2>1. /\ pc \in {"stat", "alias", "open", "write", "stdout"}
        /\ pc' \in {"alias", "open", "write", "stdout", "done"}
        /\ images' = images /\ start' = start /\ listed' = listed /\ unread' = unread
        /\ matrix' = matrix
    BY <1>6 DEF Stat, Compare, OpenOutput, WriteOutput, Report
  <2>2. Rendering /\ Images' = Images
    BY <2>1 DEF Rendering, Images
  <2>3. QED
    BY <2>1, <2>2 DEF EntriesInv
<1>7. CASE (\E n \in ReleaseNames : LinkOutput(n)) \/ UNCHANGED vars
  <2>1. /\ pc' = pc /\ stdout' = stdout /\ images' = images /\ start' = start
        /\ listed' = listed /\ unread' = unread /\ matrix' = matrix
    BY <1>7 DEF LinkOutput, vars
  <2>2. Rendering' = Rendering /\ Images' = Images
    BY <2>1 DEF Rendering, Images
  <2>3. QED
    BY <2>1, <2>2 DEF EntriesInv
<1>8. QED
  BY <1>1, <1>2, <1>3, <1>4, <1>5, <1>6, <1>7 DEF Next, Program

-----------------------------------------------------------------------------
(* The output.                                                             *)

(* What is rendered is every family listed, once. *)
LEMMA MatrixIsListed ==
  ASSUME EntriesInv, Rendering
  PROVE  /\ matrix \in Seq(STRING) /\ ToSet(matrix) = listed
         /\ ToSet(matrix) \subseteq ToSet(Families)
         /\ Len(matrix) = Cardinality(listed) /\ Len(matrix) \in 1..MaxFamilies
<1>1. /\ listed \subseteq ToSet(Families) /\ IsFiniteSet(listed) /\ listed # {}
      /\ Cardinality(listed) <= MaxFamilies /\ matrix = InOrder(Families, listed)
  BY DEF EntriesInv
<1>2. Families \in Seq(STRING) /\ IsInjective(Families) /\ MaxFamilies \in Nat
  BY ReleaseAssumption
<1>3. /\ matrix \in Seq(STRING) /\ IsInjective(matrix)
      /\ {matrix[k] : k \in 1..Len(matrix)} = {Families[i] : i \in 1..Len(Families)} \cap listed
  BY <1>1, <1>2, InOrderProperties
<1>4. DOMAIN matrix = 1..Len(matrix) /\ DOMAIN Families = 1..Len(Families)
  BY <1>2, <1>3, LenProperties
<1>5. ToSet(matrix) = {matrix[k] : k \in 1..Len(matrix)}
  BY <1>4 DEF ToSet
<1>6. ToSet(Families) = {Families[i] : i \in 1..Len(Families)}
  BY <1>4 DEF ToSet
<1>7. ToSet(matrix) = listed
  BY <1>1, <1>3, <1>5, <1>6
<1>8. Cardinality(ToSet(matrix)) = Len(matrix)
  BY <1>3, <1>5, DistinctCardinality
<1>9. Cardinality(listed) \in Nat /\ Cardinality(listed) # 0
  BY <1>1, FS_CardinalityType, FS_EmptySet
<1>10. QED
  BY <1>1, <1>2, <1>3, <1>7, <1>8, <1>9

(* No name of a family is a word for something else. *)
LEMMA WordsAreNoFamilies ==
  "unset" \notin ToSet(Families) /\ "absent" \notin ToSet(Families)
    /\ "own" \notin ToSet(Families)
BY ReleaseAssumption

(* An output that was compared with every Dockerfile is none of them. *)
LEMMA ComparedWithAll ==
  ASSUME EntriesInv, OutputInv, Compare, ComparedAll
  PROVE  late \/ output \notin ToSet(matrix)
<1>1. pc = "alias" /\ Rendering
  BY DEF Compare, Rendering
<1>2. late \/ \A i \in 1..compared : output # matrix[i]
  BY <1>1 DEF OutputInv
<1>3. matrix \in Seq(STRING)
  BY <1>1, MatrixIsListed
<1>4. DOMAIN matrix = 1..Len(matrix) /\ compared = Len(matrix)
  BY <1>3, LenProperties DEF ComparedAll
<1>5. QED
  BY <1>2, <1>4 DEF ToSet

(* A Dockerfile the output was already compared with is among the first. *)
LEMMA LinkedLate ==
  ASSUME EntriesInv, OutputInv, pc = "alias", NEW n,
         n \notin ToSet(SubSeq(matrix, 1, compared))
  PROVE  \A i \in 1..compared : n # matrix[i]
<1>1. matrix \in Seq(STRING) /\ compared \in 0..Len(matrix)
  BY MatrixIsListed DEF OutputInv, Rendering
<1>2. Len(matrix) \in Nat /\ compared \in Int /\ 1 \in Int
  BY <1>1, LenProperties
<1>3. \A i \in 1..compared : matrix[i] \in STRING
  BY <1>1, <1>2, ElementOfSeq
<1>. DEFINE s == SubSeq(matrix, 1, compared)
<1>4. /\ s \in Seq(STRING) /\ Len(s) = compared
      /\ \A i \in 1..compared : s[i] = matrix[i]
  <2>1. /\ s \in Seq(STRING) /\ Len(s) = (IF 1 <= compared THEN compared - 1 + 1 ELSE 0)
        /\ \A i \in 1..compared - 1 + 1 : s[i] = matrix[1 + i - 1]
    BY <1>2, <1>3, SubSeqProperties
  <2>. HIDE DEF s
  <2>2. QED
    BY <1>1, <1>2, <2>1
<1>5. DOMAIN s = 1..compared
  BY <1>4, LenProperties
<1>6. QED
  BY <1>4, <1>5 DEF ToSet

(* Until it is written to, the output is no Dockerfile it was compared with,
   unless it was replaced too late to be seen. *)
LEMMA OutputStep ==
  ASSUME EntriesInv, OutputInv, [Next]_vars
  PROVE  OutputInv'
<1>. USE DEF Looks, disk, locals, others, End, Goto
<1>1. CASE ReadTag \/ OpenRoot \/ (\E n \in ReleaseNames : ReadEntry(n)) \/ Render
  <2>1. /\ pc \in {"tag", "root", "entries"} /\ compared' = compared /\ written' = written
        /\ pc' \in {"root", "entries", "stat", "stdout", "done"}
    BY <1>1 DEF ReadTag, OpenRoot, ReadEntry, Render
  <2>2. compared = 0 /\ written = {}
    BY <2>1 DEF OutputInv
  <2>3. QED
    BY <2>1, <2>2 DEF OutputInv, DockerfilesSurvive
<1>2. CASE Stat
  <2>1. /\ pc = "stat" /\ compared' = compared /\ written' = written
        /\ output' = output /\ matrix' = matrix
        /\ pc' \in {"open", "alias", "done"} /\ (pc' = "open" => output = "absent")
    BY <1>2 DEF Stat
  <2>2. compared = 0 /\ written = {} /\ Rendering
    BY <2>1 DEF OutputInv, Rendering
  <2>3. matrix \in Seq(STRING) /\ "absent" \notin ToSet(matrix)
    BY <2>2, MatrixIsListed, WordsAreNoFamilies
  <2>4. 0 \in 0..Len(matrix) /\ \A i \in 1..0 : output # matrix[i]
    BY <2>3, LenProperties
  <2>5. pc' = "open" => output' \notin ToSet(matrix')
    BY <2>1, <2>3
  <2>6. compared' = 0 /\ written' = {}
    BY <2>1, <2>2
  <2>7. pc' = "alias" => /\ compared' \in 0..Len(matrix')
                         /\ \A i \in 1..compared' : output' # matrix'[i]
    BY <2>1, <2>4, <2>6
  <2>8. QED
    BY <2>1, <2>5, <2>6, <2>7 DEF OutputInv, DockerfilesSurvive
<1>3. CASE Compare
  <2>1. /\ pc = "alias" /\ written' = written /\ output' = output /\ matrix' = matrix
        /\ late' = late /\ pc' \in {"open", "alias", "done"}
    BY <1>3 DEF Compare
  <2>2. written = {} /\ Rendering /\ compared \in 0..Len(matrix)
        /\ (late \/ \A i \in 1..compared : output # matrix[i])
    BY <2>1 DEF OutputInv, Rendering
  <2>3. CASE ComparedAll
    <3>1. late \/ output \notin ToSet(matrix)
      BY <1>3, <2>3, ComparedWithAll
    <3>2. pc' = "open"
      BY <1>3, <2>3 DEF Compare
    <3>3. QED
      BY <2>1, <2>2, <3>1, <3>2 DEF OutputInv, DockerfilesSurvive
  <2>4. CASE ~ComparedAll
    <3>1. /\ compared' = compared + 1 /\ pc' \in {"alias", "done"}
          /\ pc' = "alias" => output # matrix[compared + 1]
      BY <1>3, <2>4 DEF Compare
    <3>2. matrix \in Seq(STRING) /\ Len(matrix) \in Nat
      BY <2>2, MatrixIsListed, LenProperties
    <3>3. compared' \in 0..Len(matrix)
      BY <2>2, <2>4, <3>1, <3>2 DEF ComparedAll
    <3>4. \A i \in 1..compared' : i \in 1..compared \/ i = compared + 1
      BY <2>2, <3>1, <3>2
    <3>5. pc' = "alias" => late' \/ \A i \in 1..compared' : output' # matrix'[i]
      BY <2>1, <2>2, <3>1, <3>4
    <3>6. QED
      BY <2>1, <2>2, <3>1, <3>3, <3>5 DEF OutputInv, DockerfilesSurvive
  <2>5. QED
    BY <2>3, <2>4
<1>4. CASE OpenOutput
  <2>1. /\ pc = "open" /\ written' = written /\ matrix' = matrix /\ late' = late
        /\ pc' \in {"write", "done"} /\ output' \in {output, "own"}
    BY <1>4 DEF OpenOutput
  <2>2. written = {} /\ (late \/ output \notin ToSet(matrix)) /\ Rendering
    BY <2>1 DEF OutputInv, Rendering
  <2>3. "own" \notin ToSet(matrix)
    BY <2>2, MatrixIsListed, WordsAreNoFamilies
  <2>4. late' \/ output' \notin ToSet(matrix')
    BY <2>1, <2>2, <2>3
  <2>5. QED
    BY <2>1, <2>2, <2>4 DEF OutputInv, DockerfilesSurvive
<1>5. CASE WriteOutput
  <2>1. /\ pc = "write" /\ matrix' = matrix /\ late' = late /\ pc' \in {"stdout", "done"}
        /\ written' \in {written, written \cup {output}}
    BY <1>5 DEF WriteOutput, Append1
  <2>2. written = {} /\ (late \/ output \notin ToSet(matrix))
    BY <2>1 DEF OutputInv
  <2>3. QED
    BY <2>1, <2>2 DEF OutputInv, DockerfilesSurvive
<1>6. CASE Report
  <2>1. /\ pc' = "done" /\ written' = written /\ matrix' = matrix /\ late' = late
    BY <1>6 DEF Report
  <2>2. QED
    BY <2>1 DEF OutputInv, DockerfilesSurvive
<1>7. CASE (\E n \in ReleaseNames : ChangeEntry(n)) \/ UNCHANGED vars
  <2>1. /\ pc' = pc /\ written' = written /\ matrix' = matrix /\ late' = late
        /\ output' = output /\ compared' = compared
    BY <1>7 DEF ChangeEntry, vars
  <2>2. QED
    BY <2>1 DEF OutputInv, DockerfilesSurvive
<1>8. CASE \E n \in ReleaseNames : LinkOutput(n)
  <2>1. PICK n \in ReleaseNames : LinkOutput(n)
    BY <1>8
  <2>2. /\ pc' = pc /\ pc # "write" /\ written' = written /\ matrix' = matrix
        /\ compared' = compared /\ output' = n
        /\ late' = (late \/ pc = "open" \/ n \in ToSet(SubSeq(matrix, 1, compared)))
    BY <2>1 DEF LinkOutput
  <2>3. CASE pc = "alias"
    <3>1. late' \/ \A i \in 1..compared : n # matrix[i]
      BY <2>2, <2>3, LinkedLate
    <3>2. QED
      BY <2>2, <2>3, <3>1 DEF OutputInv, DockerfilesSurvive
  <2>4. CASE pc # "alias"
    BY <2>2, <2>4 DEF OutputInv, DockerfilesSurvive
  <2>5. QED
    BY <2>3, <2>4
<1>9. QED
  BY <1>1, <1>2, <1>3, <1>4, <1>5, <1>6, <1>7, <1>8 DEF Next, Program

-----------------------------------------------------------------------------
(* What is appended.                                                       *)

(* Sequences that begin alike have the same beginning. *)
LEMMA SubSeqAlike ==
  ASSUME NEW U, NEW s, NEW t, NEW n \in Nat,
         \A i \in 1..n : s[i] \in U /\ t[i] \in U /\ s[i] = t[i]
  PROVE  SubSeq(s, 1, n) = SubSeq(t, 1, n)
<1>. DEFINE a == SubSeq(s, 1, n)
     b == SubSeq(t, 1, n)
<1>1. /\ a \in Seq(U) /\ Len(a) = (IF 1 <= n THEN n - 1 + 1 ELSE 0)
      /\ \A i \in 1..n - 1 + 1 : a[i] = s[1 + i - 1]
  BY SubSeqProperties
<1>2. /\ b \in Seq(U) /\ Len(b) = (IF 1 <= n THEN n - 1 + 1 ELSE 0)
      /\ \A i \in 1..n - 1 + 1 : b[i] = t[1 + i - 1]
  BY SubSeqProperties
<1>. HIDE DEF a, b
<1>3. Len(a) = n /\ Len(b) = n /\ \A i \in 1..n : a[i] = s[i] /\ b[i] = t[i]
  BY <1>1, <1>2
<1>4. a = b
  BY <1>1, <1>2, <1>3, SeqEqual
<1>5. QED
  BY <1>4 DEF a, b

(* A part of what was to be appended is the beginning of all of it. *)
LEMMA PartIsPrefix ==
  ASSUME NEW U, NEW s \in Seq(U), NEW r \in Seq(U), NEW n \in 0..Len(r)
  PROVE  /\ IsPrefix(s, s \o SubSeq(r, 1, n))
         /\ IsPrefix(s \o SubSeq(r, 1, n), s \o r)
<1>. DEFINE part == SubSeq(r, 1, n)
     a == s \o part
     b == s \o r
<1>1. Len(r) \in Nat /\ Len(s) \in Nat /\ n \in Nat /\ n <= Len(r)
  BY LenProperties
<1>2. /\ part \in Seq(U) /\ Len(part) = n /\ \A i \in 1..n : part[i] = r[i]
  <2>1. \A i \in 1..n : r[i] \in U
    BY <1>1, ElementOfSeq
  <2>2. /\ part \in Seq(U) /\ Len(part) = (IF 1 <= n THEN n - 1 + 1 ELSE 0)
        /\ \A i \in 1..n - 1 + 1 : part[i] = r[1 + i - 1]
    BY <1>1, <2>1, SubSeqProperties
  <2>. HIDE DEF part
  <2>3. QED
    BY <1>1, <2>2
<1>. HIDE DEF part
<1>3. /\ a \in Seq(U) /\ Len(a) = Len(s) + n
      /\ \A i \in 1..Len(s) + n : a[i] = IF i <= Len(s) THEN s[i] ELSE part[i - Len(s)]
  BY <1>2, ConcatProperties
<1>4. /\ b \in Seq(U) /\ Len(b) = Len(s) + Len(r)
      /\ \A i \in 1..Len(s) + Len(r) : b[i] = IF i <= Len(s) THEN s[i] ELSE r[i - Len(s)]
  BY ConcatProperties
<1>. HIDE DEF a, b
<1>5. ASSUME NEW i \in 1..Len(s) + n PROVE a[i] = b[i]
  <2>1. i \in 1..Len(s) + Len(r)
    BY <1>1
  <2>2. CASE i <= Len(s)
    BY <1>3, <1>4, <2>1, <2>2
  <2>3. CASE ~(i <= Len(s))
    <3>1. a[i] = part[i - Len(s)] /\ b[i] = r[i - Len(s)]
      BY <1>3, <1>4, <2>1, <2>3
    <3>2. i - Len(s) \in 1..n
      BY <1>1, <2>3
    <3>3. QED
      BY <1>2, <3>1, <3>2
  <2>4. QED
    BY <2>2, <2>3
<1>6. /\ \A i \in 1..Len(s) : s[i] \in U /\ a[i] = s[i] /\ i \in 1..Len(s) + n
      /\ \A i \in 1..Len(s) + n : a[i] \in U /\ b[i] \in U
  BY <1>1, <1>3, <1>4, <1>5, ElementOfSeq
<1>7. SubSeq(s, 1, Len(s)) = SubSeq(a, 1, Len(s))
  BY <1>1, <1>6, SubSeqAlike
<1>8. SubSeq(a, 1, Len(s) + n) = SubSeq(b, 1, Len(s) + n)
  BY <1>1, <1>5, <1>6, SubSeqAlike
<1>9. QED
  BY <1>1, <1>3, <1>4, <1>7, <1>8 DEF IsPrefix, a, b

(* The record to append, as it is when it is appended. *)
LEMMA RenderedParts ==
  /\ Len(Rendered) = 4 /\ SubSeq(Rendered, 1, 4) = Rendered
  /\ \E U : Rendered \in Seq(U) /\ <<"existing">> \in Seq(U)
<1>. DEFINE U == {matrix, "tags<<", "tags", "delimiter", "existing"}
<1>1. Rendered \in Seq(U) /\ <<"existing">> \in Seq(U)
  BY DEF Rendered
<1>2. Len(Rendered) = 4
  BY DEF Rendered
<1>. HIDE DEF U
<1>3. QED
  BY <1>1, <1>2, SubSeqFull

(* The output's own file has what it had and a beginning of the record. *)
LEMMA AppendStep ==
  ASSUME EntriesInv, AppendInv, [Next]_vars
  PROVE  AppendInv'
<1>. USE DEF Looks, disk, locals, others, End, Goto
<1>1. CASE ReadTag \/ OpenRoot \/ (\E n \in ReleaseNames : ReadEntry(n)) \/ Render
             \/ Stat \/ Compare \/ OpenOutput
  <2>1. /\ pc \in {"tag", "root", "entries", "stat", "alias", "open"} /\ start' = start
        /\ text' = text /\ stdout' = stdout
        /\ pc' = "done" \/ exit' = exit
        /\ pc' = "done" => exit' \notin {"none", "Ok"}
        /\ pc' = "stdout" => output' = "unset"
    BY <1>1 DEF ReadTag, OpenRoot, ReadEntry, Render, Stat, Compare, OpenOutput, Denied
  <2>2. /\ stdout = "none" /\ exit = "none" /\ text = start.text
    BY <2>1 DEF AppendInv
  <2>3. QED
    BY <2>1, <2>2 DEF AppendInv
<1>2. CASE WriteOutput
  <2>1. /\ pc = "write" /\ start' = start /\ stdout' = stdout /\ matrix' = matrix
        /\ output' = output
        /\ pc' \in {"done", "stdout"} /\ (pc' = "done" => exit' = "Io")
        /\ pc' = "stdout" => exit' = exit
    BY <1>2 DEF WriteOutput
  <2>2. stdout = "none" /\ exit = "none" /\ text = start.text
    BY <2>1 DEF AppendInv
  <2>3. Rendered' = Rendered
    BY <2>1 DEF Rendered
  <2>4. /\ text' = text \/ \E n \in 0..4 : text' = text \o SubSeq(Rendered, 1, n)
        /\ pc' = "stdout" /\ output = "own" => text' = text \o Rendered
    <3>1. CASE pc' = "stdout"
      <4>1. Append1(Rendered)
        BY <1>2, <3>1 DEF WriteOutput, AllOfIt
      <4>2. text' = text \o Rendered \/ (output # "own" /\ text' = text)
        BY <4>1, WordsAreNoFamilies DEF Append1
      <4>3. text \o Rendered = text \o SubSeq(Rendered, 1, 4)
        BY RenderedParts
      <4>4. 4 \in 0..4
        OBVIOUS
      <4>5. QED
        BY <4>2, <4>3, <4>4
    <3>2. CASE pc' # "stdout"
      <4>1. PICK n \in 0..Len(Rendered) - 1 : Append1(SubSeq(Rendered, 1, n))
        BY <1>2, <3>2 DEF WriteOutput
      <4>2. n \in 0..4
        BY RenderedParts
      <4>3. QED
        BY <3>2, <4>1, <4>2 DEF Append1
    <3>3. QED
      BY <3>1, <3>2
  <2>5. QED
    BY <2>1, <2>2, <2>3, <2>4 DEF AppendInv
<1>3. CASE Report
  <2>1. /\ pc = "stdout" /\ pc' = "done" /\ start' = start /\ text' = text
        /\ matrix' = matrix /\ output' = output
        /\ exit' = "Io" \/ (exit' = "Ok" /\ stdout' = "whole")
    BY <1>3 DEF Report
  <2>2. Rendered' = Rendered
    BY <2>1 DEF Rendered
  <2>3. QED
    BY <2>1, <2>2 DEF AppendInv
<1>4. CASE (\E n \in ReleaseNames : ChangeEntry(n) \/ LinkOutput(n)) \/ UNCHANGED vars
  <2>1. start'.text = start.text
    BY <1>4, ChangeEntryKeeps DEF LinkOutput, vars
  <2>2. /\ pc' = pc /\ text' = text /\ matrix' = matrix
        /\ stdout' = stdout /\ exit' = exit
    BY <1>4 DEF ChangeEntry, LinkOutput, vars
  <2>3. output' = "own" => output = "own"
    <3>1. CASE \E n \in ReleaseNames : LinkOutput(n)
      BY <3>1, WordsAreNoFamilies DEF LinkOutput
    <3>2. CASE (\E n \in ReleaseNames : ChangeEntry(n)) \/ UNCHANGED vars
      BY <3>2 DEF ChangeEntry, vars
    <3>3. QED
      BY <1>4, <3>1, <3>2
  <2>4. Rendered' = Rendered
    BY <2>2 DEF Rendered
  <2>5. QED
    BY <2>1, <2>2, <2>3, <2>4 DEF AppendInv
<1>5. QED
  BY <1>1, <1>2, <1>3, <1>4 DEF Next, Program

-----------------------------------------------------------------------------
(* The theorems.                                                           *)

(* The invariants hold when the program starts. *)
LEMMA InitInvariants ==
  ASSUME Init
  PROVE  EntriesInv /\ OutputInv /\ AppendInv
<1>1. EntriesInv
  BY DEF Init, EntriesInv, Rendering
<1>2. OutputInv
  BY DEF Init, OutputInv, DockerfilesSurvive
<1>3. AppendInv
  BY DEF Init, AppendInv
<1>4. QED
  BY <1>1, <1>2, <1>3

(* They hold in every state of a run. *)
LEMMA Invariants == Spec => [](EntriesInv /\ OutputInv /\ AppendInv)
<1>1. Init => EntriesInv /\ OutputInv /\ AppendInv
  BY InitInvariants
<1>2. EntriesInv /\ OutputInv /\ AppendInv /\ [Next]_vars
        => (EntriesInv /\ OutputInv /\ AppendInv)'
  BY EntriesStep, OutputStep, AppendStep
<1>3. QED
  BY <1>1, <1>2, PTL DEF Spec

(* release-metadata: whatever others change in images/ or make of the output,
   and whatever fails, what was appended is the beginning of the record; a
   refusal appends nothing, and success means the whole record and the whole
   JSON. *)
THEOREM AppendedOrReported == Spec => []AppendedWholeOrReported
<1>1. ASSUME AppendInv PROVE AppendedWholeOrReported
  <2>1. PICK U : Rendered \in Seq(U) /\ <<"existing">> \in Seq(U)
    BY RenderedParts
  <2>2. start.text \in Seq(U) /\ Len(Rendered) = 4
    BY <1>1, <2>1, RenderedParts DEF AppendInv
  <2>3. /\ start.text \o SubSeq(Rendered, 1, 0) = start.text
        /\ \A n \in 0..4 : /\ IsPrefix(start.text, start.text \o SubSeq(Rendered, 1, n))
                           /\ IsPrefix(start.text \o SubSeq(Rendered, 1, n), start.text \o Rendered)
    <3>1. SubSeq(Rendered, 1, 0) = <<>>
      BY SubSeqEmpty
    <3>2. start.text \o <<>> = start.text
      BY <2>2, ConcatEmptySeq
    <3>3. QED
      BY <2>1, <2>2, <3>1, <3>2, PartIsPrefix
  <2>4. \E n \in 0..4 : text = start.text \o SubSeq(Rendered, 1, n)
    BY <1>1, <2>3 DEF AppendInv
  <2>5. IsPrefix(start.text, text) /\ IsPrefix(text, start.text \o Rendered)
    BY <2>3, <2>4
  <2>6. QED
    BY <1>1, <2>5 DEF AppendInv, AppendedWholeOrReported
<1>2. QED
  BY <1>1, Invariants, PTL

(* The output is compared with every Dockerfile of the release before it is
   opened: none is written to, unless the output was made a link to it after it
   had been compared. *)
THEOREM NoDockerfileWritten == Spec => []DockerfilesSurvive
<1>1. OutputInv => DockerfilesSurvive
  BY DEF OutputInv
<1>2. QED
  BY <1>1, Invariants, PTL

(* Whatever order read_dir gives and whatever others change meanwhile, what is
   printed has every family that was there all the time, each once and never
   more than the cap, and nothing that never was an image; nothing is printed
   when a link or an image of another name was there all the time. *)
THEOREM PrintedExactly == Spec => []MatrixExact
<1>1. ASSUME EntriesInv, stdout # "none" PROVE MatrixExact
  <2>1. Rendering
    BY <1>1 DEF Rendering
  <2>2. /\ ToSet(matrix) = listed /\ ToSet(matrix) \subseteq ToSet(Families)
        /\ Len(matrix) = Cardinality(listed) /\ Len(matrix) \in 1..MaxFamilies
    BY <1>1, <2>1, MatrixIsListed
  <2>3. /\ listed \subseteq start.images /\ unread = {}
        /\ \A n \in start.stable \ unread :
             images[n] \notin {"link", "linked"} /\ (images[n] = "image" => n \in listed)
    BY <1>1, <2>1 DEF EntriesInv
  <2>4. \A n \in start.stable :
          images[n] \notin {"link", "linked"} /\ (images[n] = "image" => n \in listed)
    BY <2>3
  <2>5. \A n \in start.stable \cap Invalid : images[n] # "image"
    BY <2>2, <2>4, ReleaseAssumption
  <2>6. QED
    BY <2>2, <2>3, <2>4, <2>5 DEF MatrixExact
<1>2. EntriesInv => MatrixExact
  BY <1>1 DEF MatrixExact
<1>3. QED
  BY <1>2, Invariants, PTL
=============================================================================

------------------------- MODULE RewriteProperties -------------------------
(***************************************************************************)
(* What Rewrite must get right, and the references it is compared with: the *)
(* words of a shell, and the characters between two boundaries.            *)
(***************************************************************************)
EXTENDS Rewrite

-----------------------------------------------------------------------------
(* The words of a command, as a shell that knows quotes and, on POSIX, the
   backslash would take them: the state after each character. *)
After(was, c) ==
  IF was \in Quotes
  THEN IF c = was THEN "word"
       ELSE IF was = "\"" /\ c = "\\" /\ ~windows THEN "\"escaped" ELSE was
  ELSE IF was = "escaped" THEN "word"
  ELSE IF was = "\"escaped" THEN "\""
  ELSE IF c \in Blank THEN "start"
  ELSE IF c \in Quotes THEN c
  ELSE IF c = "\\" /\ ~windows THEN "escaped" ELSE "word"
Reading(t) ==
  LET upTo[n \in 0..Len(t)] ==
        IF n = 0 THEN "start" ELSE After(upTo[n - 1], t[n])
  IN upTo
WordAt(i) == IF single THEN i = 1 ELSE Reading(text)[i - 1] = "start"

\* The argument begins with the root, after a quote or a flag it may have.
BeginsWithRoot(i) ==
  /\ text[i] \in Spellings /\ (i = Len(text) \/ Follows(text[i + 1]))
  /\ WordAt(i) \/ (i > 1 /\ WordAt(i - 1) /\ text[i - 1] \in Quotes \cup {"-I"})

TranslatedAt(i) == text[i] \in Spellings /\ rooted[i] = "/workspace"
\* A root whose argument the code takes to go on until i: every blank between
\* comes after a backslash, or the quote before that root closed a quotation.
Swallowed(i) ==
  \E j \in 1..i - 1 :
    /\ TranslatedAt(j)
    /\ \/ j > 1 /\ text[j - 1] \in Quotes /\ ~WordAt(j - 1)
       \/ \A k \in j + 1..i - 1 : text[k] \in Blank => text[k - 1] = "\\"

(* Every argument that begins with the host root is translated, and nothing is
   but a root that is a whole argument or followed by a separator: a sibling of
   the root whose name goes on stays.  Every other symbol stays, or is a
   separator that was turned behind a translated root.  One argument escapes:
   when the argument before it ends in a backslash, which escapes no blank on
   Windows, the code takes both for one and leaves the second root. *)
RootsTranslated ==
  rooted # <<>> =>
    /\ Len(rooted) = Len(text)
    /\ \A i \in DOMAIN text :
         /\ TranslatedAt(i) => i = Len(text) \/ Follows(text[i + 1])
         /\ BeginsWithRoot(i) => TranslatedAt(i) \/ Swallowed(i)
         /\ ~TranslatedAt(i) /\ rooted[i] # text[i] =>
              windows /\ rooted[i] = Slash(text[i]) /\ \E j \in 1..i - 1 : TranslatedAt(j)

-----------------------------------------------------------------------------
(* The reference for canonicalize, on characters only: from left to right, the
   characters that stand between two boundaries and spell the name.  The code
   takes "-" and any letter that is not of ASCII for a boundary. *)
Boundary == Blank \cup Quotes \cup {"=", ",", ":", "-", "eszett"}

\* On Windows a text, and a name of the manifest, is made of these boundaries,
\* which stand for every other one, and of what a name goes on with.
PartOfName == (Letters \ {"-"}) \cup Spelt(TRUE) \cup {"/workspace", ".", "/", "\\"}
Alphabet == PartOfName \cup Boundary
AlphabetKnown ==
  /\ PartOfName \cap Boundary = {}
  /\ \A input \in Inputs :
       input.windows =>
         /\ input.texts \subseteq Seq(Alphabet)
         /\ \A pairs \in input.names : \A n \in DOMAIN pairs : pairs[n].new \in Seq(Alphabet)
ASSUME AlphabetAssumption == AlphabetKnown

Spells(t, old, i, j) ==
  /\ Fold(SubSeq(t, i, j)) = Fold(old)
  /\ i = 1 \/ t[i - 1] \in Boundary
  /\ j = Len(t) \/ t[j + 1] \in Blank \cup Quotes
Spelling(t, old, i) == CHOOSE j \in i..Len(t) : Spells(t, old, i, j)
Reference(t, old, new) ==
  LET from[i \in 1..Len(t) + 1] ==
        IF i > Len(t) THEN <<>>
        ELSE IF \E j \in i..Len(t) : Spells(t, old, i, j)
        THEN new \o from[Spelling(t, old, i) + 1]
        ELSE <<t[i]>> \o from[i + 1]
  IN from[1]
\* First the name below /workspace, then the name alone.
AsInManifest(t, old, new) ==
  Reference(Reference(t, InWorkspace(old), InWorkspace(new)), old, new)

(* Every name that spells the source is replaced, whole and never from within
   an expanded character, and nothing else is, though the code looks for it in
   the folded text and keeps two positions in the other. *)
SourceRespelled ==
  last.old # <<>> =>
    value \in LET respelled == AsInManifest(last.before, last.old, last.new)
              IN {respelled, NormalizeArgument(respelled), NormalizeCommand(respelled)}

(* Whatever is respelled, folded the text stays what it was: no part of an
   argument is lost, repeated or moved.  On POSIX only roots are changed. *)
NothingLost ==
  step = "done" => IF windows THEN Fold(value) = Fold(rooted) ELSE value = rooted
=============================================================================

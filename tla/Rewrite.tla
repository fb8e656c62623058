------------------------------ MODULE Rewrite ------------------------------
(***************************************************************************)
(* What `transform` (compdb.rs) makes of the text of one `command`, or of  *)
(* one of the `arguments`: host roots become /workspace, on Windows the    *)
(* source is spelled as the manifest spells it, and the separators of      *)
(* include and output flags are turned.  A text is a sequence of symbols:  *)
(* a spelling of the root, "/workspace", a flag of FLAGS and "eszett" are  *)
(* one symbol each, every other symbol is a character.                     *)
(***************************************************************************)
EXTENDS Integers, Sequences, SequencesExt

CONSTANTS
  Inputs,     \* a bound: records [windows, texts, names], see RewriteInit
  Variants,   \* of each platform, the spellings each prefix matches, in order
  Letters     \* characters of names, and the flag: what \w or "-" matches

VARIABLES
  windows,   \* the host root is a Windows path
  single,    \* an element of `arguments`, not a `command`
  text,      \* what the database says
  step,      \* "roots", "names", "done" or "refused"
  names,     \* the pairs (original, canonical) to come
  value,     \* the local `value_new`
  rooted,    \* history: value after `rewrite`
  last       \* history: the last pair, and value before it

given == <<windows, single, text>>
rewriteVars == <<given, step, names, value, rooted, last>>

Spelt(w) == UNION ToSet(Variants[w])
Spellings == Spelt(windows)
Blank == {" "}
Quotes == {"\"", "'"}

\* A drive root, in the spellings there are of it; each is matched ignoring case.
Turned == [c \in {"\\", "C:\\W"} |-> IF c = "\\" THEN "/" ELSE "C:/W"]
Slash(c) == IF c \in DOMAIN Turned THEN Turned[c] ELSE c
Slashed(t) == [i \in DOMAIN t |-> Slash(t[i])]

-----------------------------------------------------------------------------
(* Rewriter.                                                               *)

\* The regular expression (?:^|\s)-[A-Za-z][A-Za-z0-9_-]*$ before position i.
JoinedFlag(t, i) ==
  \E j \in 1..i - 1 :
    /\ t[j] = "-I" \/ (t[j] = "-" /\ t[j + 1] \in Letters \ {"-", "-I"})
    /\ j = 1 \/ t[j - 1] \in Blank
    /\ \A k \in j + 1..i - 1 : t[k] \in Letters

\* A path below a POSIX root may begin like the root itself.
Follows(c) == c \in Blank \cup Quotes \cup {"\\", "/", "/workspace"}
                \/ (~windows /\ c \in Spellings)
\* Mutant: what follows the prefix is not looked at.
AnyPrefix(t, i) ==
  i = 1 \/ t[i - 1] \in Blank \cup Quotes \cup {"=", ",", ":"} \/ JoinedFlag(t, i)
Replaceable(t, i) ==
  /\ i = Len(t) \/ Follows(t[i + 1])
  /\ i = 1 \/ t[i - 1] \in Blank \cup Quotes \cup {"=", ",", ":"} \/ JoinedFlag(t, i)

\* The argument that begins with the root at i ends before k: at the quote that
\* opened it, or else, in a command, at any quote and any blank that does not
\* come after a backslash.
Stops(t, i, k) ==
  IF i > 1 /\ t[i - 1] \in Quotes THEN t[k] = t[i - 1]
  ELSE /\ ~single
       /\ t[k] \in Quotes \/ (t[k] \in Blank /\ t[k - 1] # "\\")
SuffixEnd(t, i) ==
  CHOOSE k \in i + 1..Len(t) + 1 :
    /\ k > Len(t) \/ Stops(t, i, k)
    /\ \A j \in i + 1..k - 1 : ~Stops(t, i, j)

\* One prefix, from left to right; what was copied is not looked at again.
Scanned(t, spellings, acc, i) ==
  IF i < acc.cursor \/ t[i] \notin spellings \/ ~Replaceable(t, i) THEN acc
  ELSE LET end == SuffixEnd(t, i)
           suffix == SubSeq(t, i + 1, end - 1)
       IN [out |-> acc.out \o SubSeq(t, acc.cursor, i - 1) \o <<"/workspace">>
                     \o (IF windows THEN Slashed(suffix) ELSE suffix),
           cursor |-> end]
Pass(t, spellings) ==
  LET upTo[i \in 0..Len(t)] ==
        IF i = 0 THEN [out |-> <<>>, cursor |-> 1]
        ELSE Scanned(t, spellings, upTo[i - 1], i)
      all == upTo[Len(t)]
  IN all.out \o SubSeq(t, all.cursor, Len(t))

\* One prefix after another, the longest first.
Rooted(t) ==
  LET prefixes == Variants[windows]
      upTo[n \in 0..Len(prefixes)] ==
        IF n = 0 THEN t ELSE Pass(upTo[n - 1], prefixes[n])
  IN upTo[Len(prefixes)]

-----------------------------------------------------------------------------
(* canonicalize.                                                           *)

\* windows_fold: "eszett" is one character and two when folded.
FoldOf(c) ==
  CASE c = "eszett" -> <<"s", "s">>
    [] c = "S" -> <<"s">>
    [] c \in {"C:/W", "C:\\W", "c:/w"} -> <<"c:/w">>
    [] OTHER -> <<Slash(c)>>
Fold(t) ==
  LET upTo[n \in 0..Len(t)] == IF n = 0 THEN <<>> ELSE upTo[n - 1] \o FoldOf(t[n])
  IN upTo[Len(t)]
Folded(t, n) == Len(Fold(SubSeq(t, 1, n)))

\* FoldPosition: how many characters were taken; it only moves on.
Advance(t, taken, target) ==
  CHOOSE n \in taken..Len(t) :
    /\ n = Len(t) \/ Folded(t, n) >= target
    /\ \A m \in taken..n - 1 : Folded(t, m) < target
\* Mutant: a position within an expanded character is taken for its end.
Nearest(t, n, target) == TRUE
Hit(t, n, target) == Folded(t, n) = target

\* Mutant: only what follows the name is looked at.
EndsThere(t, from, to) == to = Len(t) \/ t[to + 1] \in Blank \cup Quotes
WholeName(t, from, to) ==
  /\ from = 0 \/ t[from] \notin (Letters \ {"-"}) \cup Spellings \cup {"/workspace", ".", "/", "\\"}
  /\ to = Len(t) \/ t[to + 1] \in Blank \cup Quotes

\* Every place of the folded needle, overlapping ones too; the cursor is behind
\* what was replaced last.
Found(t, new, needle, acc, k) ==
  LET from == Advance(t, acc.from, k - 1)
      to == Advance(t, acc.to, k - 1 + Len(needle))
  IN IF SubSeq(Fold(t), k, k - 1 + Len(needle)) # needle THEN acc
     ELSE IF /\ Hit(t, from, k - 1) /\ Hit(t, to, k - 1 + Len(needle))
             /\ from >= acc.cursor /\ WholeName(t, from, to)
     THEN [from |-> from, to |-> to, cursor |-> to,
           out |-> acc.out \o SubSeq(t, acc.cursor + 1, from) \o new]
     ELSE [acc EXCEPT !.from = from, !.to = to]
ReplaceSource(t, old, new) ==
  LET needle == Fold(old)
      places == Len(Fold(t)) + 1 - Len(needle)
      upTo[k \in 0..places] ==
        IF k = 0 THEN [from |-> 0, to |-> 0, cursor |-> 0, out |-> <<>>]
        ELSE Found(t, new, needle, upTo[k - 1], k)
      all == upTo[places]
  IN IF Fold(t) = needle THEN new
     ELSE IF needle = <<>> \/ places <= 0 THEN t
     ELSE all.out \o SubSeq(t, all.cursor + 1, Len(t))

InWorkspace(name) == <<"/workspace", "/">> \o name
Canonicalize(t, pair) ==
  ReplaceSource(ReplaceSource(t, InWorkspace(pair.old), InWorkspace(pair.new)),
                pair.old, pair.new)

-----------------------------------------------------------------------------
(* The separators of flags, on Windows.                                    *)

IsWindows(t) == \/ t # <<>> /\ t[1] \in {"C:/W", "C:\\W", "c:/w"}
                \/ Len(t) > 1 /\ t[1] = "\\" /\ t[2] = "\\"
NormalizeArgument(t) ==
  IF IsWindows(t) \/ (t # <<>> /\ t[1] = "-") THEN t ELSE Slashed(t)
NormalizeCommand(t) ==
  LET InFlag(i) == \E j \in 1..i - 1 :
        /\ t[j] = "-I" /\ (j = 1 \/ t[j - 1] \in Blank)
        /\ \A k \in j + 1..i : t[k] \notin Blank \cup Quotes
  IN [i \in DOMAIN t |-> IF InFlag(i) THEN Slash(t[i]) ELSE t[i]]

-----------------------------------------------------------------------------

\* What the patterns and what is given are made of.  No spelling of the root is
\* one of the symbols the code tells apart or a letter, and a drive root is known
\* with either separator.  The names of the manifest fold like those of the entry;
\* only Windows respells.
WellFormed ==
  /\ Variants \in [BOOLEAN -> Seq(SUBSET STRING)]
  /\ \A w \in BOOLEAN :
       Spelt(w) \cap ({" ", "\"", "'", "=", ",", ":", "-I", "-", "\\", "/", "/workspace"}
                        \cup Letters) = {}
  /\ "C:/W" \in Spelt(TRUE) <=> "C:\\W" \in Spelt(TRUE)
  /\ Letters \cap {"\\", "C:\\W", "/workspace"} = {}
  /\ \A input \in Inputs :
       /\ input.windows \in BOOLEAN /\ input.texts \subseteq Seq(STRING)
       /\ \A pairs \in input.names :
            /\ pairs \in Seq([old : Seq(STRING), new : Seq(STRING)])
            /\ \A n \in DOMAIN pairs : Fold(pairs[n].old) = Fold(pairs[n].new)
            /\ input.windows \/ pairs = <<>>
ASSUME RewriteAssumption == WellFormed

\* The names of a source are its relative name and what is left of it below
\* the entry's directory, as in the entry and as in the manifest.
RewriteInit ==
  /\ \E input \in Inputs :
       windows = input.windows /\ text \in input.texts /\ names \in input.names
  /\ single \in BOOLEAN
  /\ step = "roots" /\ value = text /\ rooted = <<>>
  /\ last = [old |-> <<>>, new |-> <<>>, before |-> text]

Roots ==
  /\ step = "roots" /\ step' = "names"
  /\ value' = Rooted(value)
  /\ rooted' = value'
  /\ UNCHANGED <<given, names, last>>

Canonical ==
  /\ step = "names" /\ names # <<>>
  /\ value' = Canonicalize(value, Head(names))
  /\ last' = [old |-> Head(names).old, new |-> Head(names).new, before |-> value]
  /\ names' = Tail(names)
  /\ UNCHANGED <<given, step, rooted>>

Flags ==
  /\ step = "names" /\ names = <<>> /\ step' = "done"
  /\ value' = CASE ~windows -> value
                [] windows /\ single -> NormalizeArgument(value)
                [] OTHER -> NormalizeCommand(value)
  /\ UNCHANGED <<given, names, rooted, last>>

\* append, and the patterns, have limits: the filter ends without a database.
LimitReached ==
  /\ step \in {"roots", "names"} /\ step' = "refused"
  /\ UNCHANGED <<given, names, value, rooted, last>>

RewriteNext == Roots \/ Canonical \/ Flags \/ LimitReached

RewriteSpec == RewriteInit /\ [][RewriteNext]_rewriteVars
=============================================================================

----------------------------- MODULE EffectPaths -----------------------------
(***************************************************************************)
(* The text of a path: how the place of a continuation is written into a   *)
(* compiled contract and read again as the key of an effect                *)
(* (sapio-base/src/effects/path_fragment.rs and reverse_path.rs).          *)
(*                                                                         *)
(* A text is a sequence of characters.  A reserved word such as "@root" or *)
(* a numeral stands for one character here, since neither is ever split.   *)
(***************************************************************************)
EXTENDS Integers, Sequences, SequencesExt

CONSTANTS Reserved,        \* "@root", "@action", "@guard", ...
          Letters,         \* ASCII letters and "_"
          Numerals,        \* texts of a u64
          Huge             \* numerals too large for a u64

\* A word in a name is none of the reserved ones; they begin with "@".
NameChars == Letters \cup Numerals \cup Huge

ASSUME TextAssumption ==
    /\ {"#", "/"} \cap (Reserved \cup NameChars) = {}
    /\ Reserved \cap NameChars = {}

\* A fragment is what PathFragment distinguishes.
PathFragment ==
    [is : {"reserved"}, word : Reserved] \cup [is : {"branch"}, n : Numerals] \cup
    [is : {"named"}, name : Seq(NameChars)]

Reserve(word) == [is |-> "reserved", word |-> word]
Branch(n) == [is |-> "branch", n |-> n]
Named(name) == [is |-> "named", name |-> name]
Bad == [is |-> "error"]

\* From<&PathFragment> for String
FragmentText(fragment) ==
    CASE fragment.is = "reserved" -> <<fragment.word>>
      [] fragment.is = "branch" -> <<"#", fragment.n>>
      [] fragment.is = "named" -> fragment.name

IsNameChar(c) == c \in NameChars

\* TryFrom<&str> for PathFragment; an empty text is an empty name.
MutParseFragment(text) ==
    IF \A i \in DOMAIN text : IsNameChar(text[i]) \/ text[i] = "#"
    THEN Named(text)
    ELSE IF Len(text) = 1 /\ text[1] \in Reserved THEN Reserve(text[1])
    ELSE Bad

ParseFragment(text) ==
    IF Len(text) = 1 /\ text[1] \in Reserved THEN Reserve(text[1])
    ELSE IF text # <<>> /\ text[1] = "#"
    THEN IF Len(text) = 2 /\ text[2] \in Numerals THEN Branch(text[2]) ELSE Bad
    ELSE IF \A i \in DOMAIN text : IsNameChar(text[i]) THEN Named(text)
    ELSE Bad

\* A ReversePath is pushed from the root down and iterated from its tip up.
Pushed(path, fragment) == <<fragment>> \o path
ReversePathOf(fragments) == FoldLeft(Pushed, <<>>, fragments)
Iter(path) == path

\* From<ReversePath> for String: reverse what iter gives, join with "/".  A
\* path has at least one fragment.
Joined(text, next) == text \o <<"/">> \o next
Join(texts) == FoldLeft(Joined, Head(texts), Tail(texts))
PathText(path) == Join([i \in DOMAIN path |-> FragmentText(Reverse(Iter(path))[i])])

\* The pieces of a text between its slashes.
Cut(pieces, c) ==
    IF c = "/" THEN Append(pieces, <<>>)
    ELSE [pieces EXCEPT ![Len(pieces)] = Append(@, c)]
Split(text) == FoldLeft(Cut, <<<<>>>>, text)

\* TryFrom<&str> for ReversePath: one bad fragment refuses the path.
ParsePath(text) ==
    LET fragments == [k \in DOMAIN Split(text) |-> ParseFragment(Split(text)[k])]
    IN  IF \E k \in DOMAIN fragments : fragments[k] = Bad THEN Bad
        ELSE [is |-> "path", path |-> ReversePathOf(fragments)]
=============================================================================

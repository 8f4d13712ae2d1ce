----------------------------- MODULE ArgumentText -----------------------------
(***************************************************************************)
(* How the text of a runtime argument, name:type=value or name=value, is   *)
(* taken apart: at the first colon and the first equals sign that have no  *)
(* backslash before them, which is itself without one.  The text is typed  *)
(* character by character.                                                 *)
(***************************************************************************)
EXTENDS Texts, FiniteSetsExt

CONSTANTS
  Character, \* the characters typed, besides those with a meaning and the space
  MaxLine    \* bound: the length of a text

Special == {":", "=", "\\"}

ASSUME LineAssumption == MaxLine \in Nat /\ Character \cap (Special \cup {" "}) = {}

VARIABLE line \* the text of an argument

LineInit == line = <<>>

TypeCharacter(c) ==
  /\ Len(line) < MaxLine
  /\ line' = Append(line, c)

LineNext == \E c \in Character \cup Special \cup {" "} : TypeCharacter(c)

LineSpec == LineInit /\ [][LineNext]_line

-----------------------------------------------------------------------------
\* Mutant: whatever stands behind a backslash is escaped, a backslash that is so too.
AfterBackslash(word) == [i \in DOMAIN word |-> i > 1 /\ word[i - 1] = "\\"]

\* Whether the character at a place is escaped: a backslash is before it that is
\* not escaped itself.
Escaped(word) ==
  LET escaped[i \in DOMAIN word] == i > 1 /\ word[i - 1] = "\\" /\ ~escaped[i - 1]
  IN escaped

\* split_once_unescaped: the place of the delimiter, 0 if there is none.
Delimiter(word, c) ==
  LET escaped == Escaped(word)
      found == {i \in DOMAIN word : word[i] = c /\ ~escaped[i]}
  IN IF found = {} THEN 0 ELSE Min(found)

\* The characters that are left when those that escape others are not written.
Kept(word) ==
  LET escaped == Escaped(word)
  IN FlattenSeq([i \in DOMAIN word |->
       IF word[i] = "\\" /\ ~escaped[i] THEN <<>> ELSE <<word[i]>>])

\* unescape_argument: the set of the one text, empty for a backslash that escapes
\* nothing with a meaning.
Unescaped(word) ==
  LET escaped == Escaped(word)
      escapes == {i \in DOMAIN word : word[i] = "\\" /\ ~escaped[i]}
  IN IF \E i \in escapes : i = Len(word) \/ word[i + 1] \notin Special THEN {} ELSE {Kept(word)}

\* The name of the type of an argument without one.
AnyType == <<"AnyType">>

\* parse_argument: name, type and value.
ParsedLine(word) ==
  LET equals == Delimiter(word, "=")
      left == Before(word, equals)
      colon == Delimiter(left, ":")
      behind == After(left, colon)
      names == Unescaped(IF colon = 0 THEN left ELSE Before(left, colon))
      types == IF colon = 0 THEN {AnyType} ELSE Unescaped(behind)
  IN IF equals = 0 \/ (colon # 0 /\ Trimmed(behind) = <<>>) THEN {}
     ELSE {[name |-> n, type |-> t, value |-> After(word, equals)] :
             n \in names \ {<<>>}, t \in types}

-----------------------------------------------------------------------------
(***************************************************************************)
(* Properties.                                                             *)
(***************************************************************************)

\* Reference: how an argument of any name is written.
Escape(word) ==
  FlattenSeq([i \in DOMAIN word |-> IF word[i] \in Special THEN <<"\\", word[i]>> ELSE <<word[i]>>])

LineFor(a) ==
  Escape(a.name) \o (IF a.type = AnyType THEN <<>> ELSE <<":">> \o Escape(a.type))
    \o <<"=">> \o a.value

\* Reference: arguments that somebody may want to give, by the text for them.
Wanted ==
  LET texts(n) == SeqOf(Character \cup Special, n)
      wanted == [name : texts(2) \ {<<>>}, type : (texts(1) \ {<<>>}) \cup {AnyType}, value : texts(2)]
  IN [word \in {LineFor(a) : a \in wanted} |-> {a \in wanted : LineFor(a) = word}]

\* arguments.rs: the name may contain colon, equals sign or backslash if escaped with
\* a backslash.  AnyType argument can be given, whatever is in its name, type and value,
\* and is taken for that argument and no other; and whatever is accepted, however
\* many backslashes and delimiters it has in a row, is what its parts say.
ArgumentReadBack ==
  /\ line \in DOMAIN Wanted => ParsedLine(line) = Wanted[line]
  /\ \A a \in ParsedLine(line) : ParsedLine(LineFor(a)) = {a}
===============================================================================

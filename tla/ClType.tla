-------------------------------- MODULE ClType --------------------------------
(***************************************************************************)
(* The parser of type names, parse_cl_type: a stack of frames, one for     *)
(* each generic type or tuple that is open, over a text of tokens.         *)
(*                                                                         *)
(* A step is one turn of the parser's loop and takes the tokens that it    *)
(* looks at.  Positions and the wording of errors are left out.            *)
(***************************************************************************)
EXTENDS Naturals, Sequences, SequencesExt

CONSTANTS
  Basic,       \* the names of types without arguments
  Number,      \* Number[n]: the value of number token n
  HashLength,  \* the length of an account hash
  MaxNesting,  \* MAX_TYPE_NESTING
  MaxTokens    \* bound: the tokens of a text

Generic == {"option", "list", "result", "map", "tuple1", "tuple2", "tuple3"}

Arity(g) ==
  IF g \in {"option", "list", "tuple1"} THEN 1
  ELSE IF g \in {"result", "map", "tuple2"} THEN 2 ELSE 3

Name == Basic \cup Generic \cup {"accounthash", "bytearray"}

Closing == [b \in {"<", "[", "("} |-> IF b = "<" THEN ">" ELSE IF b = "[" THEN "]" ELSE ")"]

Punctuation == {"<", ">", "[", "]", "(", ")", ","}

Token == Name \cup DOMAIN Number \cup Punctuation

\* A token is of one kind.
ASSUME TypeAssumption ==
  /\ {"bool", "unit", "any"} \subseteq Basic
  /\ Basic \cap (Generic \cup Punctuation \cup {"accounthash", "bytearray", "none"}) = {}
  /\ DOMAIN Number \cap (Name \cup Punctuation) = {}
  /\ \A n \in DOMAIN Number : Number[n] \in Nat
  /\ HashLength \in Nat /\ MaxNesting \in Nat /\ MaxTokens \in Nat

\* CLType: a constructor and the types it is applied to.
Type(name, args) == [ctor |-> name, args |-> args, length |-> 0]

ByteArray(n) == [ctor |-> "bytearray", args |-> <<>>, length |-> n]

Named(name) == IF name = "accounthash" THEN ByteArray(HashLength) ELSE Type(name, <<>>)

VARIABLES
  text,    \* the tokens so far
  frames,  \* the open frames, the root first
  pending, \* the name whose opening delimiter must follow
  status   \* reading, accepted, rejected at a token, or incomplete at the end

typeVars == <<text, frames, pending, status>>

Frame(kind) == [kind |-> kind, args |-> <<>>, expecting |-> TRUE, comma |-> FALSE]

Top == Last(frames)

TypeInit ==
  /\ text = <<>>
  /\ frames = <<Frame("root")>>
  /\ pending = "none"
  /\ status = "reading"

Read(tokens) ==
  /\ status = "reading"
  /\ Len(text \o tokens) <= MaxTokens
  /\ text' = text \o tokens

\* An error is returned at once.
Stop(reason) ==
  /\ status' = reason
  /\ UNCHANGED <<frames, pending>>

Reject == Stop("rejected")

\* push_type, on the frame that is on top in fs.
PushType(fs, type) ==
  IF Last(fs).expecting
  THEN /\ frames' = [fs EXCEPT ![Len(fs)].args = Append(@, type),
                               ![Len(fs)].expecting = FALSE]
       /\ pending' = "none"
       /\ UNCHANGED status
  ELSE Reject

\* Mutant: the root counts as well.
LessRoom == Len(frames) < MaxNesting

\* The root is a frame, too, and does not count.
Room == Len(frames) <= MaxNesting

PushFrame(kind) ==
  IF Room
  THEN /\ frames' = Append(frames, Frame(kind))
       /\ pending' = "none"
       /\ UNCHANGED status
  ELSE Reject

-----------------------------------------------------------------------------
ReadName(name) ==
  /\ Read(<<name>>)
  /\ IF pending # "none" \/ ~Top.expecting THEN Reject
     ELSE IF name \in Generic \cup {"bytearray"}
          THEN pending' = name /\ UNCHANGED <<frames, status>>
          ELSE PushType(frames, Named(name))

ReadNumber(n) == Read(<<n>>) /\ Reject

\* < and [, but for a byte array.
ReadOpen(b) ==
  /\ pending # "bytearray"
  /\ Read(<<b>>)
  /\ IF pending # "none" /\ b = "<" THEN PushFrame(pending) ELSE Reject

\* parse_byte_array_len looks two tokens ahead.
ReadLength(b) ==
  /\ pending = "bytearray"
  /\ \E n \in DOMAIN Number :
       \/ Read(<<b, n, Closing[b]>>) /\ PushType(frames, ByteArray(Number[n]))
       \/ \E other \in Token \ {Closing[b]} : Read(<<b, n, other>>) /\ Reject
       \/ Read(<<b, n>>) /\ Stop("incomplete")
       \/ \E other \in Token \ DOMAIN Number : Read(<<b, other>>) /\ Reject
       \/ Read(<<b>>) /\ Stop("incomplete")

\* ( that is followed by ).
ReadUnit ==
  /\ Read(<<"(", ")">>)
  /\ IF pending # "none" THEN Reject ELSE PushType(frames, Named("unit"))

\* ( that is not.
OpenTuple ==
  /\ Read(<<"(">>)
  /\ IF pending # "none" \/ ~Top.expecting THEN Reject ELSE PushFrame("tuple")

\* Mutant: a comma is taken outside of all brackets, too.
CommaInRoot ==
  /\ Read(<<",">>)
  /\ IF pending # "none" \/ Top.expecting THEN Reject
     ELSE /\ frames' = [frames EXCEPT ![Len(frames)].expecting = TRUE,
                                      ![Len(frames)].comma = TRUE]
          /\ UNCHANGED <<pending, status>>

ReadComma ==
  /\ Read(<<",">>)
  /\ IF pending # "none" \/ Top.kind = "root" \/ Top.expecting THEN Reject
     ELSE /\ frames' = [frames EXCEPT ![Len(frames)].expecting = TRUE,
                                      ![Len(frames)].comma = TRUE]
          /\ UNCHANGED <<pending, status>>

\* Mutant: a trailing comma is allowed in every frame.
CommaAnywhere(f) == ~f.expecting \/ (f.comma /\ f.args # <<>>)

\* A type is missing at the end, unless a tuple has a trailing comma.
Complete(f) == ~f.expecting \/ (f.kind = "tuple" /\ f.comma /\ f.args # <<>>)

\* build_tuple and build_generic take so many arguments.
Fits(f) ==
  IF f.kind = "tuple"
  THEN Len(f.args) \in 1..3 /\ (Len(f.args) = 1 => f.comma)
  ELSE Len(f.args) = Arity(f.kind)

Built(f) ==
  Type(IF f.kind # "tuple" THEN f.kind
       ELSE CASE Len(f.args) = 1 -> "tuple1"
              [] Len(f.args) = 2 -> "tuple2"
              [] OTHER -> "tuple3", f.args)

Matches(delimiter, kind) ==
  \/ delimiter = ">" /\ kind \in Generic
  \/ delimiter = ")" /\ kind = "tuple"

\* close_frame.  A ) right after its ( was taken by ReadUnit.
ReadClose(delimiter) ==
  /\ ~(delimiter = ")" /\ pending = "none" /\ text # <<>> /\ Last(text) = "(")
  /\ Read(<<delimiter>>)
  /\ IF pending = "none" /\ Matches(delimiter, Top.kind) /\ Complete(Top) /\ Fits(Top)
     THEN PushType(Front(frames), Built(Top))
     ELSE Reject

End ==
  /\ status = "reading"
  /\ Stop(IF pending = "none" /\ Len(frames) = 1 /\ ~Top.expecting
          THEN "accepted" ELSE "incomplete")
  /\ UNCHANGED text

TypeNext ==
  \/ \E name \in Name : ReadName(name)
  \/ \E n \in DOMAIN Number : ReadNumber(n)
  \/ \E b \in {"<", "["} : ReadOpen(b) \/ ReadLength(b)
  \/ ReadUnit \/ OpenTuple \/ ReadComma
  \/ \E delimiter \in {">", "]", ")"} : ReadClose(delimiter)
  \/ End

TypeSpec == TypeInit /\ [][TypeNext]_typeVars

\* What an accepted text stands for.
Parsed == frames[1].args[1]

-----------------------------------------------------------------------------
(***************************************************************************)
(* Reference: the syntax of types, as the texts of each length.            *)
(***************************************************************************)

\* A text, the type it stands for, and how many types are nested in it.
Phrase(tokens, t, d) == [text |-> tokens, type |-> t, nesting |-> d]

Join(s, t) ==
  [text |-> s.text \o <<",">> \o t.text, args |-> s.args \o t.args,
   nesting |-> IF s.nesting > t.nesting THEN s.nesting ELSE t.nesting]

\* With n tokens: one type, two types with a comma between them, and three.
One(phrases, n) ==
  {[text |-> s.text, args |-> <<s.type>>, nesting |-> s.nesting] : s \in phrases[n]}

Joined(S, T) == {Join(s, t) : s \in S, t \in T}

Two(phrases, n) ==
  UNION {Joined(One(phrases, i), One(phrases, n - 1 - i)) : i \in 1..(n - 2)}

Three(phrases, n) ==
  UNION {Joined(Two(phrases, i), One(phrases, n - 1 - i)) : i \in 1..(n - 2)}

Separated(phrases, k, n) ==
  IF n < 1 THEN {}
  ELSE CASE k = 1 -> One(phrases, n) [] k = 2 -> Two(phrases, n) [] OTHER -> Three(phrases, n)

\* A type that is applied to such a list, with some text around it.
Applied(name, before, lists, behind) ==
  {Phrase(before \o l.text \o behind, Type(name, l.args), l.nesting + 1) :
     l \in {x \in lists : x.nesting < MaxNesting}}

ByteArrays(n) ==
  {Phrase(<<"bytearray", b, k, Closing[b]>>, ByteArray(Number[k]), 0) :
     b \in {"<", "["}, k \in {x \in DOMAIN Number : n = 4}}

Generics(phrases, n) ==
  UNION {Applied(g, <<g, "<">>, Separated(phrases, Arity(g), n - 3), <<">">>) : g \in Generic}

Tuples(phrases, n) ==
  UNION {Applied(g, <<"(">>, Separated(phrases, Arity(g), n - 2), <<")">>) :
           g \in {"tuple2", "tuple3"}}

\* One type alone is a tuple with a comma behind it only.
TuplesWithComma(phrases, n) ==
  UNION {Applied(g, <<"(">>, Separated(phrases, Arity(g), n - 3), <<",", ")">>) :
           g \in {"tuple1", "tuple2", "tuple3"}}

\* The types that are written with n tokens, from those that are written with fewer.
PhrasesFrom(phrases, n) ==
  CASE n = 0 -> {}
    [] n = 1 -> {Phrase(<<name>>, Named(name), 0) : name \in Basic \cup {"accounthash"}}
    [] n = 2 -> {Phrase(<<"(", ")">>, Named("unit"), 0)}
    [] OTHER -> ByteArrays(n) \cup Generics(phrases, n) \cup Tuples(phrases, n)
                  \cup TuplesWithComma(phrases, n)

Phrases[n \in 0..MaxTokens] == PhrasesFrom(Phrases, n)

Written == UNION {Phrases[n] : n \in 0..MaxTokens}

\* The token that stands for a length.
Decimal(length) == CHOOSE k \in DOMAIN Number : Number[k] = length

PrintedByteArrays(n) ==
  {Phrase(<<"bytearray", "[", Decimal(length), "]">>, ByteArray(length), 0) :
     length \in {x \in Range(Number) : n = 4}}

PrintedGenerics(phrases, n) ==
  UNION {Applied(g, <<g, "<">>, Separated(phrases, Arity(g), n - 3), <<">">>) :
           g \in {"option", "list", "result", "map"}}

PrintedOneTuples(phrases, n) ==
  Applied("tuple1", <<"(">>, Separated(phrases, 1, n - 3), <<",", ")">>)

\* The types that cl_type_to_string prints with n tokens, each in one way, from
\* those that it prints with fewer.
CanonicalFrom(canonical, n) ==
  CASE n = 1 -> {Phrase(<<name>>, Named(name), 0) : name \in Basic}
    [] n \in {0, 2} -> {}
    [] OTHER -> PrintedByteArrays(n) \cup PrintedGenerics(canonical, n)
                  \cup PrintedOneTuples(canonical, n) \cup Tuples(canonical, n)

Canonical[n \in 0..MaxTokens] == CanonicalFrom(Canonical, n)

CanonicalTypes == UNION {{<<s.text, s.type>> : s \in Canonical[n]} : n \in 0..MaxTokens}

CanonicalTexts == {x[1] : x \in CanonicalTypes}

CanonicalBeginnings == UNION {{SubSeq(s, 1, n) : n \in 0..Len(s)} : s \in CanonicalTexts}

-----------------------------------------------------------------------------
(***************************************************************************)
(* Properties.                                                             *)
(***************************************************************************)

\* The parser's stack is never empty, the root is at its bottom and nowhere else,
\* and each frame waits for the type that is read above it: what a delimiter
\* closes always has a place to go, and the internal errors that close_frame and
\* push_type provide for cannot occur.  No more than MAX_TYPE_NESTING types are
\* open, and what is accepted is a single type.
StackSound ==
  /\ frames # <<>>
  /\ \A i \in DOMAIN frames :
       /\ frames[i].kind = "root" <=> i = 1
       /\ i < Len(frames) => frames[i].expecting
  /\ Len(frames) <= MaxNesting + 1
  /\ status = "accepted" => Len(frames[1].args) = 1

\* cl_type.rs: the accepted syntax, and beside what the comment there lists, () for
\* the unit type and a comma behind the last type of a longer tuple.  Whatever is
\* accepted is a phrase of it and is read as what it means, for all the commas and
\* brackets one may mix up.
OnlyPhrases ==
  status = "accepted" =>
    \E nesting \in 0..MaxNesting : Phrase(text, Parsed, nesting) \in Written

\* cl_type.rs: the output of cl_type_to_string round-trips with parse_cl_type,
\* for all types up to the limit of nesting.
RoundTrip ==
  /\ status = "rejected" => text \notin CanonicalBeginnings
  /\ status = "incomplete" => text \notin CanonicalTexts
  /\ status = "accepted" /\ text \in CanonicalTexts => <<text, Parsed>> \in CanonicalTypes
===============================================================================

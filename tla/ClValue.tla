-------------------------------- MODULE ClValue --------------------------------
(***************************************************************************)
(* The bytes of a value: parse_cl_value, which validates hex input with a  *)
(* stack of tasks, and cl_value_to_string, which walks the same bytes by   *)
(* recursion.                                                              *)
(*                                                                         *)
(* A step is one turn of the validator's loop.  A length takes one byte    *)
(* instead of four, and the basic types are decoded by casper-types, which *)
(* is external.                                                            *)
(***************************************************************************)
EXTENDS ClType

CONSTANTS
  Byte,     \* the bytes, lengths and tags among them
  Encoding, \* Encoding[b]: the byte strings of the values of basic type b
  MaxBytes  \* bound: the bytes of a value

Bytes == BoundedSeq(Byte, MaxBytes)

\* Bytes are decoded in one way: no value's bytes begin with those of another.
ASSUME ValueAssumption ==
  /\ {0, 1} \subseteq Byte /\ Byte \subseteq Nat
  /\ MaxBytes \in Nat
  /\ \A b \in Basic : Encoding[b] \subseteq Seq(Byte)
  /\ \A b \in Basic : \A e, f \in Encoding[b] : IsPrefix(e, f) => e = f

VARIABLES
  type,    \* the type of the value
  input,   \* the bytes given in hex, or made of a text
  pos,     \* the position of the cursor
  stack,   \* the tasks of the validator
  verdict  \* "none" before, "checking", then valid or invalid

valueVars == <<type, input, pos, stack, verdict>>

ValueInit ==
  /\ type = Type("any", <<>>)
  /\ input = <<>>
  /\ pos = 0
  /\ stack = <<>>
  /\ verdict = "none"

\* The types that are given as a text.
Plain == Basic \ {"any"}

RequiresHex(t) == t.ctor \notin Plain

\* The ends of the values of basic type b that begin after p.
Decoded(b, p) ==
  {p + Len(e) : e \in {x \in Encoding[b] : IsPrefix(x, SubSeq(input, p + 1, Len(input)))}}

-----------------------------------------------------------------------------
(***************************************************************************)
(* parse_cl_value.                                                         *)
(***************************************************************************)

Given(t, bytes, result) ==
  /\ type' = t
  /\ input' = bytes
  /\ verdict' = result

\* A text, for basic types and options of them.
GiveText(t) ==
  /\ \/ ~RequiresHex(t) /\ \E e \in Encoding[t.ctor] : Given(t, e, "valid")
     \/ t.ctor = "option" /\ Given(t, <<0>>, "valid")
     \/ /\ t.ctor = "option" /\ ~RequiresHex(t.args[1])
        /\ \E e \in Encoding[t.args[1].ctor] : Given(t, <<1>> \o e, "valid")
  /\ UNCHANGED <<pos, stack>>

\* A task: to check a value of a type, or of these types by turns, so many
\* rounds, the next of them first.
TypeTask(t) == [kind |-> "type", types |-> <<t>>, rounds |-> 1, next |-> 1]

Repeat(types, rounds) == [kind |-> "repeat", types |-> types, rounds |-> rounds, next |-> 1]

GiveHex(t) ==
  /\ RequiresHex(t)
  /\ \E bytes \in Bytes : Given(t, bytes, IF t.ctor = "any" THEN "valid" ELSE "checking")
  /\ stack' = IF t.ctor = "any" THEN <<>> ELSE <<TypeTask(t)>>
  /\ UNCHANGED pos

\* Mutant: a round is over after its first type.
FirstOnly(task) == [task EXCEPT !.rounds = @ - 1]

\* Mutant: the rounds are not counted.
Uncounted(task) == [task EXCEPT !.next = (@ % Len(task.types)) + 1]

\* What is left of a repeated task when its next type has been taken.
Advanced(task) ==
  IF task.next < Len(task.types) THEN [task EXCEPT !.next = @ + 1]
  ELSE [task EXCEPT !.next = 1, !.rounds = @ - 1]

Invalid ==
  /\ verdict' = "invalid"
  /\ UNCHANGED <<pos, stack>>

\* The cursor moves to p, and the tasks go on the stack, the last on top.
Proceed(rest, p, tasks) ==
  /\ pos' = p
  /\ stack' = rest \o tasks
  /\ UNCHANGED verdict

\* The byte under the cursor, if there is one: a tag or a length.
TheByte == IF pos < Len(input) THEN {input[pos + 1]} ELSE {}

\* One turn for a value of type t, rest of the stack below it.
Check(t, rest) ==
  LET to(p, tasks) == Proceed(rest, p, tasks)
  IN CASE t.ctor = "any" -> Invalid
       [] t.ctor \in Plain ->
            IF Decoded(t.ctor, pos) = {} THEN Invalid
            ELSE \E p \in Decoded(t.ctor, pos) : to(p, <<>>)
       [] t.ctor = "bytearray" ->
            IF pos + t.length > Len(input) THEN Invalid ELSE to(pos + t.length, <<>>)
       [] t.ctor = "option" ->
            IF TheByte \cap {0, 1} = {} THEN Invalid
            ELSE to(pos + 1, IF TheByte = {0} THEN <<>> ELSE <<TypeTask(t.args[1])>>)
       [] t.ctor = "result" ->
            IF TheByte \cap {0, 1} = {} THEN Invalid
            ELSE to(pos + 1, <<TypeTask(t.args[IF TheByte = {1} THEN 1 ELSE 2])>>)
       [] t.ctor \in {"list", "map"} ->
            IF TheByte = {} THEN Invalid
            ELSE to(pos + 1, <<Repeat(t.args, input[pos + 1])>>)
       [] OTHER -> to(pos, [i \in DOMAIN t.args |-> TypeTask(t.args[Len(t.args) + 1 - i])])

CheckNext ==
  /\ verdict = "checking" /\ stack # <<>>
  /\ LET task == Last(stack)
         rest == Front(stack)
     IN \/ task.kind = "type" /\ Check(task.types[1], rest)
        \/ /\ task.kind = "repeat" /\ task.rounds > 0
           /\ Proceed(rest, pos, <<Advanced(task), TypeTask(task.types[task.next])>>)
        \/ /\ task.kind = "repeat" /\ task.rounds = 0
           /\ Proceed(rest, pos, <<>>)
  /\ UNCHANGED <<type, input>>

CheckEnd ==
  /\ verdict = "checking" /\ stack = <<>>
  /\ verdict' = IF pos = Len(input) THEN "valid" ELSE "invalid"
  /\ UNCHANGED <<type, input, pos, stack>>

-----------------------------------------------------------------------------
(***************************************************************************)
(* cl_value_to_string.                                                     *)
(***************************************************************************)

\* The types of which at most n are nested in each other, around the innermost.
Nested[n \in 0..MaxNesting] ==
  {t \in [ctor : Basic \cup Generic \cup {"bytearray"},
          args : IF n = 0 THEN {<<>>} ELSE Seq(Nested[n - 1]), length : Nat] :
     Len(t.args) = IF t.ctor \in Generic THEN Arity(t.ctor) ELSE 0}

\* The ends of n values, one after the other, of these types by turns.
InTurn(ends, types, n) ==
  LET Left[k \in 0..n] ==
        [p \in Nat |->
           IF k = 0 THEN {p}
           ELSE UNION {Left[k - 1][q] :
                         q \in ends[types[Len(types) - ((k - 1) % Len(types))]][p]}]
  IN Left[n]

\* No value ends where the nesting is too deep.
TooDeep == [t \in Nested[MaxNesting] |-> [p \in Nat |-> {}]]

\* format_value, where values may be nested as many levels deep as are left: the ends
\* of those of type t that begin after p, by the ends of the ones nested in them.
FormatValue(inner, left) ==
  [t \in Nested[MaxNesting] |-> [p \in Nat |->
     LET byte == IF p < Len(input) THEN {input[p + 1]} ELSE {}
     IN CASE t.ctor = "any" -> IF left < MaxNesting THEN {} ELSE {Len(input)}
          [] t.ctor \in Plain -> Decoded(t.ctor, p)
          [] t.ctor = "bytearray" -> {p + t.length} \cap 0..Len(input)
          [] t.ctor = "option" ->
               UNION {IF b = 0 THEN {p + 1} ELSE inner[t.args[1]][p + 1] : b \in byte \cap {0, 1}}
          [] t.ctor = "result" ->
               UNION {inner[t.args[IF b = 1 THEN 1 ELSE 2]][p + 1] : b \in byte \cap {0, 1}}
          [] t.ctor \in {"list", "map"} ->
               UNION {InTurn(inner, t.args, n * Len(t.args))[p + 1] : n \in byte}
          [] OTHER -> InTurn(inner, t.args, Len(t.args))[p]]]

Printed[left \in 0..MaxNesting] ==
  FormatValue(IF left = 0 THEN TooDeep ELSE Printed[left - 1], left)

\* Nothing is left.
Printable(t) == Printed[MaxNesting][t][0] = {Len(input)}
===============================================================================

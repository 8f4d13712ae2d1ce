---------------------------- MODULE ArgumentProofs ----------------------------
(***************************************************************************)
(* Theorems about Argument: the two walks over the bytes of a value agree, *)
(* for any types within the limit of nesting, any encodings and any bytes. *)
(***************************************************************************)
EXTENDS Argument, ClTypeProofs

-----------------------------------------------------------------------------
(***************************************************************************)
(* The recursive functions are what their definitions say.                 *)
(***************************************************************************)

NestedFrom(nested, n) ==
  {t \in [ctor : Basic \cup Generic \cup {"bytearray"},
          args : IF n = 0 THEN {<<>>} ELSE Seq(nested[n - 1]), length : Nat] :
     Len(t.args) = IF t.ctor \in Generic THEN Arity(t.ctor) ELSE 0}

LEMMA NestedExist ==
  \A m \in Nat : \E f : f = [n \in 0..m |-> NestedFrom(f, n)]
<1> DEFINE S == {m \in Nat : \E f : f = [n \in 0..m |-> NestedFrom(f, n)]}
<1>0. ASSUME NEW n \in Nat, NEW f, NEW g, n # 0 => f[n - 1] = g[n - 1]
      PROVE  NestedFrom(f, n) = NestedFrom(g, n)
  BY <1>0, Zenon DEF NestedFrom
<1>1. 0 \in S
  <2> DEFINE f == [n \in 0..0 |-> NestedFrom(<<>>, n)]
  <2>1. \A n \in 0..0 : NestedFrom(<<>>, n) = NestedFrom(f, n)
    <3> HIDE DEF f
    <3>1. NestedFrom(<<>>, 0) = NestedFrom(f, 0)
      BY <1>0
    <3> QED
      BY <3>1
  <2>2. f = [n \in 0..0 |-> NestedFrom(f, n)]
    BY <2>1, Zenon
  <2> QED
    BY <2>2
<1>2. ASSUME NEW m \in Nat, m \in S
      PROVE  m + 1 \in S
  <2>1. PICK f : f = [n \in 0..m |-> NestedFrom(f, n)]
    BY <1>2
  <2> DEFINE g == [n \in 0..(m + 1) |-> NestedFrom(f, n)]
  <2>2. \A i \in 0..m : f[i] = g[i]
    <3>1. \A i \in 0..m : f[i] = NestedFrom(f, i) /\ i \in 0..(m + 1)
      BY <2>1
    <3> QED
      BY <3>1, Zenon
  <2> HIDE DEF g
  <2>3. ASSUME NEW n \in 0..(m + 1)
        PROVE  NestedFrom(f, n) = NestedFrom(g, n)
    <3>1. n \in Nat /\ (n # 0 => n - 1 \in 0..m)
      OBVIOUS
    <3> QED
      BY <1>0, <2>2, <3>1
  <2>4. g = [n \in 0..(m + 1) |-> NestedFrom(g, n)]
    BY <2>3, Zenon DEF g
  <2> QED
    BY <2>4
<1> HIDE DEF S
<1>3. \A m \in Nat : m \in S
  BY <1>1, <1>2, AllNumbers
<1> QED
  BY <1>3 DEF S

LEMMA NestedDefined ==
  \A n \in 0..MaxNesting : Nested[n] = NestedFrom(Nested, n)
<1>1. \E f : f = [n \in 0..MaxNesting |-> NestedFrom(f, n)]
  BY NestedExist, TypeAssumption
<1>2. Nested = [n \in 0..MaxNesting |-> NestedFrom(Nested, n)]
  BY <1>1, Zenon DEF Nested, NestedFrom
<1> QED
  BY <1>2

PrintedFrom(printed, left) ==
  FormatValue(IF left = 0 THEN TooDeep ELSE printed[left - 1], left)

LEMMA PrintedExist ==
  \A m \in Nat : \E f : f = [left \in 0..m |-> PrintedFrom(f, left)]
<1> DEFINE S == {m \in Nat : \E f : f = [left \in 0..m |-> PrintedFrom(f, left)]}
<1>0. ASSUME NEW n \in Nat, NEW f, NEW g, n # 0 => f[n - 1] = g[n - 1]
      PROVE  PrintedFrom(f, n) = PrintedFrom(g, n)
  <2>1. CASE n = 0
    BY <2>1, Zenon DEF PrintedFrom
  <2>2. CASE n # 0
    BY <1>0, <2>2, Zenon DEF PrintedFrom
  <2> QED
    BY <2>1, <2>2
<1>1. 0 \in S
  <2> DEFINE f == [n \in 0..0 |-> PrintedFrom(<<>>, n)]
  <2>1. \A n \in 0..0 : PrintedFrom(<<>>, n) = PrintedFrom(f, n)
    <3> HIDE DEF f
    <3>1. PrintedFrom(<<>>, 0) = PrintedFrom(f, 0)
      BY <1>0
    <3> QED
      BY <3>1
  <2>2. f = [n \in 0..0 |-> PrintedFrom(f, n)]
    BY <2>1, Zenon
  <2> QED
    BY <2>2
<1>2. ASSUME NEW m \in Nat, m \in S
      PROVE  m + 1 \in S
  <2>1. PICK f : f = [n \in 0..m |-> PrintedFrom(f, n)]
    BY <1>2
  <2> DEFINE g == [n \in 0..(m + 1) |-> PrintedFrom(f, n)]
  <2>2. \A i \in 0..m : f[i] = g[i]
    <3>1. \A i \in 0..m : f[i] = PrintedFrom(f, i) /\ i \in 0..(m + 1)
      BY <2>1
    <3> QED
      BY <3>1, Zenon
  <2> HIDE DEF g
  <2>3. ASSUME NEW n \in 0..(m + 1)
        PROVE  PrintedFrom(f, n) = PrintedFrom(g, n)
    <3>1. n \in Nat /\ (n # 0 => n - 1 \in 0..m)
      OBVIOUS
    <3> QED
      BY <1>0, <2>2, <3>1
  <2>4. g = [n \in 0..(m + 1) |-> PrintedFrom(g, n)]
    BY <2>3, Zenon DEF g
  <2> QED
    BY <2>4
<1> HIDE DEF S
<1>3. \A m \in Nat : m \in S
  BY <1>1, <1>2, AllNumbers
<1> QED
  BY <1>3 DEF S

LEMMA PrintedDefined ==
  \A left \in 0..MaxNesting : Printed[left] = PrintedFrom(Printed, left)
<1>1. \E f : f = [left \in 0..MaxNesting |-> PrintedFrom(f, left)]
  BY PrintedExist, TypeAssumption
<1>2. Printed = [left \in 0..MaxNesting |-> PrintedFrom(Printed, left)]
  BY <1>1, Zenon DEF Printed, PrintedFrom
<1> QED
  BY <1>2

\* The type that is next when k values are left.
NextOf(types, k) == types[Len(types) - ((k - 1) % Len(types))]

TurnFrom(ends, types, turns, k) ==
  [p \in Nat |-> IF k = 0 THEN {p}
                 ELSE UNION {turns[k - 1][q] : q \in ends[NextOf(types, k)][p]}]

LEMMA TurnsExist ==
  ASSUME NEW ends, NEW types
  PROVE  \A m \in Nat : \E f : f = [k \in 0..m |-> TurnFrom(ends, types, f, k)]
<1> DEFINE S == {m \in Nat : \E f : f = [k \in 0..m |-> TurnFrom(ends, types, f, k)]}
<1>0. ASSUME NEW n \in Nat, NEW f, NEW g, n # 0 => f[n - 1] = g[n - 1]
      PROVE  TurnFrom(ends, types, f, n) = TurnFrom(ends, types, g, n)
  <2>1. CASE n = 0
    BY <2>1, Zenon DEF TurnFrom
  <2>2. CASE n # 0
    BY <1>0, <2>2, Zenon DEF TurnFrom
  <2> QED
    BY <2>1, <2>2
<1>1. 0 \in S
  <2> DEFINE f == [n \in 0..0 |-> TurnFrom(ends, types, <<>>, n)]
  <2>1. \A n \in 0..0 : TurnFrom(ends, types, <<>>, n) = TurnFrom(ends, types, f, n)
    <3> HIDE DEF f
    <3> QED
      BY <1>0
  <2>2. f = [n \in 0..0 |-> TurnFrom(ends, types, f, n)]
    BY <2>1, Zenon
  <2> QED
    BY <2>2
<1>2. ASSUME NEW m \in Nat, m \in S
      PROVE  m + 1 \in S
  <2>1. PICK f : f = [n \in 0..m |-> TurnFrom(ends, types, f, n)]
    BY <1>2
  <2> DEFINE g == [n \in 0..(m + 1) |-> TurnFrom(ends, types, f, n)]
  <2>2. \A i \in 0..m : f[i] = g[i]
    <3>1. \A i \in 0..m : f[i] = TurnFrom(ends, types, f, i) /\ i \in 0..(m + 1)
      BY <2>1
    <3> QED
      BY <3>1, Zenon
  <2> HIDE DEF g
  <2>3. ASSUME NEW n \in 0..(m + 1)
        PROVE  TurnFrom(ends, types, f, n) = TurnFrom(ends, types, g, n)
    <3>1. n \in Nat /\ (n # 0 => n - 1 \in 0..m)
      OBVIOUS
    <3> QED
      BY <1>0, <2>2, <3>1
  <2>4. g = [n \in 0..(m + 1) |-> TurnFrom(ends, types, g, n)]
    BY <2>3, Zenon DEF g
  <2> QED
    BY <2>4
<1> HIDE DEF S
<1>3. \A m \in Nat : m \in S
  BY <1>1, <1>2, AllNumbers
<1> QED
  BY <1>3 DEF S

Turns(ends, types, n) == CHOOSE f : f = [k \in 0..n |-> TurnFrom(ends, types, f, k)]

LEMMA TurnsDefined ==
  ASSUME NEW ends, NEW types, NEW n \in Nat
  PROVE  /\ InTurn(ends, types, n) = Turns(ends, types, n)[n]
         /\ \A k \in 0..n :
              Turns(ends, types, n)[k] = TurnFrom(ends, types, Turns(ends, types, n), k)
<1>1. \E f : f = [k \in 0..n |-> TurnFrom(ends, types, f, k)]
  BY TurnsExist
<1>2. Turns(ends, types, n) = [k \in 0..n |-> TurnFrom(ends, types, Turns(ends, types, n), k)]
  BY <1>1, Zenon DEF Turns
<1>3. InTurn(ends, types, n) = Turns(ends, types, n)[n]
  BY Zenon DEF InTurn, Turns, TurnFrom, NextOf
<1> QED
  BY <1>2, <1>3

\* The turns that are left do not depend on how many there were.
LEMMA TurnsAgree ==
  ASSUME NEW ends, NEW types, NEW n \in Nat
  PROVE  Turns(ends, types, n + 1)[n] = Turns(ends, types, n)[n]
<1> DEFINE f == Turns(ends, types, n)
           g == Turns(ends, types, n + 1)
           S == {k \in Nat : k <= n => g[k] = f[k]}
<1>1. /\ \A k \in 0..n : f[k] = TurnFrom(ends, types, f, k)
      /\ \A k \in 0..(n + 1) : g[k] = TurnFrom(ends, types, g, k)
  BY TurnsDefined
<1> HIDE DEF f, g
<1>2. 0 \in S
  <2>1. TurnFrom(ends, types, f, 0) = TurnFrom(ends, types, g, 0)
    BY Zenon DEF TurnFrom
  <2> QED
    BY <1>1, <2>1
<1>3. ASSUME NEW k \in Nat, k \in S
      PROVE  k + 1 \in S
  <2> SUFFICES ASSUME k + 1 <= n
               PROVE  g[k + 1] = f[k + 1]
    OBVIOUS
  <2>1. g[k] = f[k] /\ (k + 1) - 1 = k /\ k + 1 # 0
    BY <1>3
  <2>2. TurnFrom(ends, types, f, k + 1) = TurnFrom(ends, types, g, k + 1)
    BY <2>1, Zenon DEF TurnFrom
  <2>3. k + 1 \in 0..n /\ k + 1 \in 0..(n + 1)
    OBVIOUS
  <2> QED
    BY <1>1, <2>2, <2>3
<1> HIDE DEF S
<1>4. \A k \in Nat : k \in S
  BY <1>2, <1>3, AllNumbers
<1>5. n \in S
  BY <1>4
<1> QED
  BY <1>5 DEF S, f, g

Through(ends, P) == UNION {ends[q] : q \in P}

\* No value is left.
LEMMA NoTurn ==
  ASSUME NEW ends, NEW types, NEW p \in Nat
  PROVE  InTurn(ends, types, 0)[p] = {p}
<1>1. InTurn(ends, types, 0) = TurnFrom(ends, types, Turns(ends, types, 0), 0)
  BY TurnsDefined
<1> QED
  BY <1>1 DEF TurnFrom

\* One value of n is first, and the others follow it.
LEMMA TurnTaken ==
  ASSUME NEW ends, NEW types, NEW p \in Nat, NEW n \in Nat, n # 0
  PROVE  InTurn(ends, types, n)[p] =
           Through(InTurn(ends, types, n - 1), ends[NextOf(types, n)][p])
<1>1. InTurn(ends, types, n) = TurnFrom(ends, types, Turns(ends, types, n), n)
  BY TurnsDefined
<1>2. n - 1 \in Nat /\ (n - 1) + 1 = n
  OBVIOUS
<1>3. Turns(ends, types, n)[n - 1] = InTurn(ends, types, n - 1)
  BY <1>2, TurnsAgree, TurnsDefined
<1>4. TurnFrom(ends, types, Turns(ends, types, n), n)[p] =
        Through(Turns(ends, types, n)[n - 1], ends[NextOf(types, n)][p])
  BY DEF TurnFrom, Through
<1> QED
  BY <1>1, <1>3, <1>4

-----------------------------------------------------------------------------
(***************************************************************************)
(* The parser accepts types within the limit of nesting.                   *)
(***************************************************************************)

\* A type without arguments is within every limit.
LEMMA NestedNames ==
  ASSUME NEW l \in 0..MaxNesting
  PROVE  /\ \A name \in Basic : Type(name, <<>>) \in Nested[l]
         /\ \A n \in Nat : ByteArray(n) \in Nested[l]
<1>1. Nested[l] = NestedFrom(Nested, l)
  BY NestedDefined
<1>2. <<>> \in IF l = 0 THEN {<<>>} ELSE Seq(Nested[l - 1])
  OBVIOUS
<1>3. Basic \cap Generic = {} /\ "bytearray" \notin Generic
  BY TypeAssumption DEF Generic
<1>4. ASSUME NEW name \in Basic
      PROVE  Type(name, <<>>) \in NestedFrom(Nested, l)
  <2>1. name \notin Generic
    BY <1>3
  <2> QED
    BY <1>2, <2>1 DEF NestedFrom, Type
<1>5. ASSUME NEW n \in Nat
      PROVE  ByteArray(n) \in NestedFrom(Nested, l)
  BY <1>2, <1>3 DEF NestedFrom, ByteArray
<1> QED
  BY <1>1, <1>4, <1>5

\* A type that is applied to others nests them one level deeper.
LEMMA NestedApplied ==
  ASSUME NEW l \in 1..MaxNesting, NEW g \in Generic, NEW args \in Seq(Nested[l - 1]),
         Len(args) = Arity(g)
  PROVE  Type(g, args) \in Nested[l]
<1>1. Nested[l] = NestedFrom(Nested, l)
  BY NestedDefined, TypeAssumption
<1>2. Type(g, args) \in NestedFrom(Nested, l)
  BY DEF NestedFrom, Type
<1> QED
  BY <1>1, <1>2

LEMMA NestedInside ==
  ASSUME NEW l \in 0..MaxNesting, NEW t \in Nested[l]
  PROVE  /\ t.ctor \in Basic \cup Generic \cup {"bytearray"} /\ t.length \in Nat
         /\ t.ctor \in Generic =>
              l # 0 /\ t.args \in Seq(Nested[l - 1]) /\ Len(t.args) = Arity(t.ctor)
<1>1. Nested[l] = NestedFrom(Nested, l)
  BY NestedDefined
<1>2. t \in NestedFrom(Nested, l)
  BY <1>1
<1>3. /\ t.ctor \in Basic \cup Generic \cup {"bytearray"} /\ t.length \in Nat
      /\ t.args \in IF l = 0 THEN {<<>>} ELSE Seq(Nested[l - 1])
      /\ Len(t.args) = IF t.ctor \in Generic THEN Arity(t.ctor) ELSE 0
  BY <1>2 DEF NestedFrom
<1>4. ASSUME t.ctor \in Generic
      PROVE  l # 0
  <2>1. Arity(t.ctor) # 0
    BY DEF Arity
  <2>2. Len(t.args) # 0
    BY <1>3, <1>4, <2>1
  <2> QED
    BY <1>3, <2>2
<1> QED
  BY <1>3, <1>4

\* What is within a limit is within a greater one.
LEMMA NestedGrows ==
  \A l \in 0..MaxNesting : Nested[l] \subseteq Nested[MaxNesting]
<1> DEFINE S == {l \in Nat : l + 1 <= MaxNesting => Nested[l] \subseteq Nested[l + 1]}
           R == {k \in Nat : k <= MaxNesting => Nested[MaxNesting - k] \subseteq Nested[MaxNesting]}
<1>1. ASSUME NEW l \in Nat, l + 1 <= MaxNesting, l # 0 => Nested[l - 1] \subseteq Nested[l]
      PROVE  Nested[l] \subseteq Nested[l + 1]
  <2>1. Nested[l] = NestedFrom(Nested, l) /\ Nested[l + 1] = NestedFrom(Nested, l + 1)
    BY <1>1, NestedDefined, TypeAssumption
  <2>2. l + 1 # 0 /\ (l + 1) - 1 = l
    OBVIOUS
  <2>3. (IF l = 0 THEN {<<>>} ELSE Seq(Nested[l - 1])) \subseteq Seq(Nested[l])
    <3>1. CASE l = 0
      BY <3>1
    <3>2. CASE l # 0
      BY <1>1, <3>2, SeqMonotonic
    <3> QED
      BY <3>1, <3>2
  <2>4. NestedFrom(Nested, l) \subseteq NestedFrom(Nested, l + 1)
    BY <2>2, <2>3 DEF NestedFrom
  <2> QED
    BY <2>1, <2>4
<1>2. 0 \in S
  BY <1>1
<1>3. ASSUME NEW l \in Nat, l \in S
      PROVE  l + 1 \in S
  <2> SUFFICES ASSUME (l + 1) + 1 <= MaxNesting
               PROVE  Nested[l + 1] \subseteq Nested[(l + 1) + 1]
    OBVIOUS
  <2>1. Nested[l] \subseteq Nested[l + 1]
    BY <1>3, TypeAssumption
  <2>2. (l + 1) - 1 = l
    OBVIOUS
  <2> QED
    BY <1>1, <2>1, <2>2
<1> HIDE DEF S
<1>4. \A l \in Nat : l \in S
  BY <1>2, <1>3, AllNumbers
<1>5. 0 \in R
  BY TypeAssumption
<1>6. ASSUME NEW k \in Nat, k \in R
      PROVE  k + 1 \in R
  <2> SUFFICES ASSUME k + 1 <= MaxNesting
               PROVE  Nested[MaxNesting - (k + 1)] \subseteq Nested[MaxNesting]
    OBVIOUS
  <2>1. MaxNesting - (k + 1) \in Nat /\ (MaxNesting - (k + 1)) + 1 = MaxNesting - k
        /\ MaxNesting - k <= MaxNesting /\ k <= MaxNesting
    BY TypeAssumption
  <2>2. Nested[MaxNesting - (k + 1)] \subseteq Nested[MaxNesting - k]
    BY <1>4, <2>1 DEF S
  <2>3. Nested[MaxNesting - k] \subseteq Nested[MaxNesting]
    BY <1>6, <2>1
  <2> QED
    BY <2>2, <2>3
<1> HIDE DEF R
<1>7. \A k \in Nat : k \in R
  BY <1>5, <1>6, AllNumbers
<1>8. ASSUME NEW l \in 0..MaxNesting
      PROVE  Nested[l] \subseteq Nested[MaxNesting]
  <2>1. MaxNesting - l \in Nat /\ MaxNesting - l <= MaxNesting
        /\ MaxNesting - (MaxNesting - l) = l
    BY TypeAssumption
  <2> QED
    BY <1>7, <2>1 DEF R
<1> QED
  BY <1>8

\* The deeper a frame is, the less may be nested in its arguments.
Levelled(fs) ==
  /\ Len(fs) <= MaxNesting + 1
  /\ \A i \in 1..Len(fs) : fs[i].args \in Seq(Nested[MaxNesting + 1 - i])

LEMMA BuiltIsNested ==
  ASSUME NEW l \in 1..MaxNesting, NEW f, f.args \in Seq(Nested[l - 1]), Fits(f),
         f.kind \in Generic \cup {"tuple"}
  PROVE  Built(f) \in Nested[l]
<1> DEFINE g == IF f.kind # "tuple" THEN f.kind
                ELSE CASE Len(f.args) = 1 -> "tuple1"
                       [] Len(f.args) = 2 -> "tuple2"
                       [] OTHER -> "tuple3"
<1>1. Built(f) = Type(g, f.args)
  BY Zenon DEF Built
<1>2. CASE f.kind = "tuple"
  <2>1. Len(f.args) = 1 \/ Len(f.args) = 2 \/ Len(f.args) = 3
    BY <1>2 DEF Fits
  <2>2. g \in Generic /\ Len(f.args) = Arity(g)
    BY <1>2, <2>1 DEF Generic, Arity
  <2> HIDE DEF g
  <2> QED
    BY <1>1, <2>2, NestedApplied
<1>3. CASE f.kind # "tuple"
  <2>1. g \in Generic /\ Len(f.args) = Arity(g)
    BY <1>3 DEF Fits
  <2> HIDE DEF g
  <2> QED
    BY <1>1, <2>1, NestedApplied
<1> QED
  BY <1>2, <1>3

LEMMA PushTypeLevelled ==
  ASSUME NEW fs, Stack(fs), Levelled(fs), Levelled(frames),
         NEW t \in Nested[MaxNesting + 1 - Len(fs)], PushType(fs, t)
  PROVE  Levelled(frames)'
<1>1. CASE Last(fs).expecting
  <2> DEFINE gs == WithType(fs, t)
  <2>1. frames' = gs
    BY <1>1 DEF PushType, WithType
  <2>2. Len(gs) = Len(fs) /\ gs[Len(fs)].args = Append(fs[Len(fs)].args, t)
    BY <1>1, TypePushed
  <2>3. \A i \in 1..(Len(fs) - 1) : gs[i] = fs[i]
    BY <1>1, TypePushed
  <2> HIDE DEF gs
  <2>4. Len(fs) \in Nat /\ Len(fs) >= 1
    BY DEF Stack
  <2>5. Append(fs[Len(fs)].args, t) \in Seq(Nested[MaxNesting + 1 - Len(fs)])
    <3> DEFINE T == Nested[MaxNesting + 1 - Len(fs)]
    <3>1. fs[Len(fs)].args \in Seq(T) /\ t \in T
      BY <2>4 DEF Levelled
    <3> HIDE DEF T
    <3>2. Append(fs[Len(fs)].args, t) \in Seq(T)
      BY <3>1
    <3> QED
      BY <3>2 DEF T
  <2>6. ASSUME NEW i \in 1..Len(fs)
        PROVE  gs[i].args \in Seq(Nested[MaxNesting + 1 - i])
    <3>1. CASE i = Len(fs)
      BY <2>2, <2>5, <3>1
    <3>2. CASE i # Len(fs)
      <4>1. gs[i] = fs[i]
        BY <2>3, <2>4, <3>2
      <4> QED
        BY <4>1 DEF Levelled
    <3> QED
      BY <3>1, <3>2
  <2>7. Levelled(gs)
    BY <2>2, <2>6 DEF Levelled
  <2> QED
    BY <2>1, <2>7 DEF Levelled
<1>2. CASE ~Last(fs).expecting
  BY <1>2 DEF PushType, Reject, Stop, Levelled
<1> QED
  BY <1>1, <1>2

LEMMA PushFrameLevelled ==
  ASSUME StackInv, Top.expecting, Levelled(frames),
         NEW kind \in Generic \cup {"tuple"}, PushFrame(kind)
  PROVE  Levelled(frames)'
<1>1. CASE Room
  <2> DEFINE gs == Append(frames, Frame(kind))
  <2>1. frames' = gs
    BY <1>1 DEF PushFrame
  <2>2. /\ Len(gs) = Len(frames) + 1 /\ gs[Len(frames) + 1].args = <<>>
        /\ \A i \in 1..Len(frames) : gs[i] = frames[i]
    BY FramePushed DEF StackInv, Top
  <2> HIDE DEF gs
  <2>3. Len(frames) \in Nat /\ Len(frames) + 1 <= MaxNesting + 1
    BY <1>1, TypeAssumption DEF StackInv, Stack, Room
  <2>5. ASSUME NEW i \in 1..(Len(frames) + 1)
        PROVE  gs[i].args \in Seq(Nested[MaxNesting + 1 - i])
    <3>1. CASE i = Len(frames) + 1
      <4>1. <<>> \in Seq(Nested[MaxNesting + 1 - i])
        OBVIOUS
      <4> QED
        BY <2>2, <4>1, <3>1
    <3>2. CASE i # Len(frames) + 1
      <4>1. i \in 1..Len(frames) /\ gs[i] = frames[i]
        BY <2>2, <2>3, <3>2
      <4> QED
        BY <4>1 DEF Levelled
    <3> QED
      BY <3>1, <3>2
  <2>6. Levelled(gs)
    BY <2>2, <2>3, <2>5 DEF Levelled
  <2> QED
    BY <2>1, <2>6 DEF Levelled
<1>2. CASE ~Room
  BY <1>2 DEF PushFrame, Reject, Stop, Levelled
<1> QED
  BY <1>1, <1>2

LEMMA CommaLevelled ==
  ASSUME StackInv, Levelled(frames), ReadComma
  PROVE  Levelled(frames)'
<1>1. CASE pending # "none" \/ Top.kind = "root" \/ Top.expecting
  BY <1>1 DEF ReadComma, Reject, Stop, Levelled
<1>2. CASE ~(pending # "none" \/ Top.kind = "root" \/ Top.expecting)
  <2> DEFINE gs == WithComma(frames)
  <2>1. frames' = gs
    BY <1>2 DEF ReadComma, WithComma
  <2>2. Len(gs) = Len(frames) /\ \A i \in 1..Len(frames) : gs[i].args = frames[i].args
    BY <1>2, CommaTaken DEF StackInv, Top
  <2> HIDE DEF gs
  <2>3. Levelled(gs)
    BY <2>2 DEF Levelled
  <2> QED
    BY <2>1, <2>3 DEF Levelled
<1> QED
  BY <1>1, <1>2

LEMMA CloseLevelled ==
  ASSUME StackInv, Levelled(frames), NEW delimiter \in {">", "]", ")"}, ReadClose(delimiter)
  PROVE  Levelled(frames)'
<1> DEFINE closes == /\ pending = "none" /\ Matches(delimiter, Top.kind)
                     /\ Complete(Top) /\ Fits(Top)
<1>1. CASE closes
  <2>1. Top.kind \in Generic \cup {"tuple"} /\ Top.kind # "root"
    BY <1>1 DEF Matches, Generic
  <2>2. /\ Stack(Front(frames)) /\ Len(Front(frames)) = Len(frames) - 1
        /\ \A i \in 1..(Len(frames) - 1) : Front(frames)[i] = frames[i]
    BY <2>1, FrameClosed DEF StackInv, Top
  <2>3. Len(frames) \in Nat /\ Len(frames) >= 1 /\ Len(frames) <= MaxNesting + 1
        /\ Len(frames) - 1 >= 1
    BY <2>2 DEF StackInv, Stack
  <2>4. Levelled(Front(frames))
    BY <2>2, <2>3, TypeAssumption DEF Levelled
  <2>5. Top.args \in Seq(Nested[MaxNesting + 1 - Len(frames)])
    BY <2>3 DEF Levelled, Top, Last
  <2> DEFINE l == MaxNesting + 1 - (Len(frames) - 1)
  <2>6. l \in 1..MaxNesting /\ l - 1 = MaxNesting + 1 - Len(frames)
    BY <2>3, TypeAssumption
  <2>7. Built(Top) \in Nested[l]
    <3>1. Top.args \in Seq(Nested[l - 1])
      BY <2>5, <2>6
    <3> HIDE DEF l
    <3> QED
      BY <1>1, <2>1, <2>6, <3>1, BuiltIsNested
  <2>8. PushType(Front(frames), Built(Top))
    BY <1>1 DEF ReadClose
  <2>9. Built(Top) \in Nested[MaxNesting + 1 - Len(Front(frames))]
    BY <2>2, <2>7
  <2> QED
    BY <2>2, <2>4, <2>8, <2>9, PushTypeLevelled
<1>2. CASE ~closes
  BY <1>2 DEF ReadClose, Reject, Stop, Levelled
<1> QED
  BY <1>1, <1>2

LEMMA TurnLevelled ==
  ASSUME StackInv, Levelled(frames), [TypeNext]_typeVars
  PROVE  Levelled(frames)'
<1>1. Stack(frames)
  BY DEF StackInv
<1>2. ASSUME UNCHANGED frames
      PROVE  Levelled(frames)'
  BY <1>2 DEF Levelled
<1> DEFINE l == MaxNesting + 1 - Len(frames)
<1>0. l \in 0..MaxNesting
  BY TypeAssumption DEF StackInv, Stack
<1> HIDE DEF l
<1>3. ASSUME NEW t \in Nested[l], PushType(frames, t)
      PROVE  Levelled(frames)'
  BY <1>1, <1>3, PushTypeLevelled DEF l
<1>4. ASSUME NEW name \in Name, ReadName(name)
      PROVE  Levelled(frames)'
  <2>1. CASE /\ ~(pending # "none" \/ ~Top.expecting)
             /\ name \notin Generic \cup {"bytearray"}
    <3>1. Named(name) \in Nested[l]
      BY <1>0, <2>1, NestedNames, TypeAssumption DEF Named, Name
    <3> QED
      BY <1>3, <1>4, <2>1, <3>1 DEF ReadName
  <2>2. CASE pending # "none" \/ ~Top.expecting \/ name \in Generic \cup {"bytearray"}
    BY <1>2, <1>4, <2>2 DEF ReadName, Reject, Stop
  <2> QED
    BY <2>1, <2>2
<1>5. ASSUME NEW b \in {"<", "["}, ReadOpen(b)
      PROVE  Levelled(frames)'
  <2>1. CASE pending # "none" /\ b = "<"
    BY <1>5, <2>1, PushFrameLevelled DEF ReadOpen, StackInv
  <2>2. CASE ~(pending # "none" /\ b = "<")
    BY <1>2, <1>5, <2>2 DEF ReadOpen, Reject, Stop
  <2> QED
    BY <2>1, <2>2
<1>6. ASSUME NEW b \in {"<", "["}, ReadLength(b)
      PROVE  Levelled(frames)'
  <2>1. ASSUME NEW n \in DOMAIN Number, PushType(frames, ByteArray(Number[n]))
        PROVE  Levelled(frames)'
    <3>1. ByteArray(Number[n]) \in Nested[l]
      BY <1>0, NestedNames, TypeAssumption
    <3> QED
      BY <1>3, <2>1, <3>1
  <2>2. CASE Reject \/ Stop("incomplete")
    BY <1>2, <2>2 DEF Reject, Stop
  <2> QED
    BY <1>6, <2>1, <2>2 DEF ReadLength
<1>7. CASE ReadUnit
  <2>1. CASE pending # "none"
    BY <1>2, <1>7, <2>1 DEF ReadUnit, Reject, Stop
  <2>2. CASE pending = "none"
    <3>1. Named("unit") \in Nested[l]
      BY <1>0, NestedNames, TypeAssumption DEF Named
    <3> QED
      BY <1>3, <1>7, <2>2, <3>1 DEF ReadUnit
  <2> QED
    BY <2>1, <2>2
<1>8. CASE OpenTuple
  <2>1. CASE pending # "none" \/ ~Top.expecting
    BY <1>2, <1>8, <2>1 DEF OpenTuple, Reject, Stop
  <2>2. CASE ~(pending # "none" \/ ~Top.expecting)
    BY <1>8, <2>2, PushFrameLevelled DEF OpenTuple
  <2> QED
    BY <2>1, <2>2
<1>9. CASE ReadComma
  BY <1>9, CommaLevelled
<1>10. ASSUME NEW delimiter \in {">", "]", ")"}, ReadClose(delimiter)
       PROVE  Levelled(frames)'
  BY <1>10, CloseLevelled
<1>11. CASE \/ \E n \in DOMAIN Number : ReadNumber(n)
            \/ End
            \/ UNCHANGED typeVars
  BY <1>2, <1>11 DEF ReadNumber, Reject, End, Stop, typeVars
<1> QED
  BY <1>4, <1>5, <1>6, <1>7, <1>8, <1>9, <1>10, <1>11 DEF TypeNext

LEMMA ParsedIsNested ==
  ASSUME StackInv, Levelled(frames), status = "accepted"
  PROVE  Parsed \in Nested[MaxNesting]
<1>1. Len(frames) = 1 /\ ~frames[1].expecting
  BY DEF StackInv, Top, Last
<1>2. PICK t : frames[1].args = <<t>>
  BY <1>1 DEF StackInv, Stack
<1>3. frames[1].args \in Seq(Nested[MaxNesting])
  <2>1. MaxNesting + 1 - 1 = MaxNesting
    BY TypeAssumption
  <2> QED
    BY <1>1, <2>1 DEF Levelled
<1> QED
  BY <1>2, <1>3 DEF Parsed

-----------------------------------------------------------------------------
(***************************************************************************)
(* What a stack of tasks reaches.                                          *)
(***************************************************************************)

Task ==
  [kind : {"type", "repeat"}, types : Seq(Nested[MaxNesting]), rounds : Nat, next : Nat \ {0}]

\* The values that are left of a repeated task.
LeftOf(task) == task.rounds * Len(task.types) - (task.next - 1)

\* The ends of what a task checks from p on, with ends[l] for types within limit l.
TaskEnds(ends, task, l, p) ==
  IF task.kind = "type" THEN ends[l][task.types[1]][p]
  ELSE InTurn(ends[l], task.types, LeftOf(task))[p]

EndsFrom(ends, task, l, P) == UNION {TaskEnds(ends, task, l, p) : p \in P}

\* The types of a task are within limit l, which is the greatest for the type of the
\* whole value only; that is never Any.
TaskWithin(task, l) ==
  /\ l \in 0..MaxNesting
  /\ task.kind = "type" =>
       task.types[1] \in Nested[l] /\ (l = MaxNesting => task.types[1].ctor # "any")
  /\ task.kind # "type" =>
       /\ l # MaxNesting
       /\ Len(task.types) \in {1, 2} /\ task.types \in Seq(Nested[l])
       /\ task.next \in 1..Len(task.types)
       /\ task.rounds \in Nat /\ (task.rounds = 0 => task.next = 1)

\* One task, from the positions before it to those behind it.
Link(ends, task, l, P, Q) ==
  /\ TaskWithin(task, l)
  /\ Q = EndsFrom(ends, task, l, P)

\* By limits for its tasks, a stack reaches the positions Q from P.
Reaches(ends, stk, P, Q) ==
  \E limit, at :
    /\ at[Len(stk)] = P /\ at[0] = Q
    /\ \A m \in 1..Len(stk) : Link(ends, stk[m], limit[m], at[m], at[m - 1])

\* The limits and the positions in between witness it.
LEMMA ChainReaches ==
  ASSUME NEW ends, NEW stk, NEW P, NEW Q, NEW limit, NEW at,
         at[Len(stk)] = P, at[0] = Q,
         \A m \in 1..Len(stk) : Link(ends, stk[m], limit[m], at[m], at[m - 1])
  PROVE  Reaches(ends, stk, P, Q)
BY Zenon DEF Reaches

LEMMA EmptyReaches ==
  ASSUME NEW ends, NEW P, NEW Q
  PROVE  Reaches(ends, <<>>, P, Q) <=> P = Q
<1>1. Len(<<>>) = 0 /\ 1..0 = {}
  OBVIOUS
<1>2. ASSUME P = Q
      PROVE  Reaches(ends, <<>>, P, Q)
  <2> DEFINE at == [m \in {0} |-> P]
  <2>1. at[0] = P
    OBVIOUS
  <2> HIDE DEF at
  <2> QED
    BY <1>1, <1>2, <2>1, Zenon DEF Reaches
<1>3. ASSUME Reaches(ends, <<>>, P, Q)
      PROVE  P = Q
  BY <1>1, <1>3, Zenon DEF Reaches
<1> QED
  BY <1>2, <1>3

LEMMA NowhereReaches ==
  ASSUME NEW ends, NEW stk \in Seq(Task), NEW Q, Reaches(ends, stk, {}, Q)
  PROVE  Q = {}
<1>1. PICK limit, at :
        /\ at[Len(stk)] = {} /\ at[0] = Q
        /\ \A m \in 1..Len(stk) : Link(ends, stk[m], limit[m], at[m], at[m - 1])
  BY Zenon DEF Reaches
<1> DEFINE S == {k \in Nat : k <= Len(stk) => at[Len(stk) - k] = {}}
<1>2. 0 \in S
  BY <1>1
<1>3. ASSUME NEW k \in Nat, k \in S
      PROVE  k + 1 \in S
  <2> SUFFICES ASSUME k + 1 <= Len(stk)
               PROVE  at[Len(stk) - (k + 1)] = {}
    OBVIOUS
  <2> DEFINE m == Len(stk) - k
  <2>1. m \in 1..Len(stk) /\ m - 1 = Len(stk) - (k + 1) /\ at[m] = {}
    BY <1>3
  <2> HIDE DEF m
  <2>2. at[m - 1] = EndsFrom(ends, stk[m], limit[m], {})
    BY <1>1, <2>1 DEF Link
  <2> QED
    BY <2>1, <2>2 DEF EndsFrom
<1> HIDE DEF S
<1>4. \A k \in Nat : k \in S
  BY <1>2, <1>3, AllNumbers
<1>5. Len(stk) \in Nat /\ Len(stk) - Len(stk) = 0
  OBVIOUS
<1> QED
  BY <1>1, <1>4, <1>5 DEF S

LEMMA TaskTaken ==
  ASSUME NEW ends, NEW stk \in Seq(Task), stk # <<>>, NEW P, NEW Q, Reaches(ends, stk, P, Q)
  PROVE  /\ Front(stk) \in Seq(Task) /\ Last(stk) \in Task
         /\ \E l \in 0..MaxNesting :
              /\ TaskWithin(Last(stk), l)
              /\ Reaches(ends, Front(stk), EndsFrom(ends, Last(stk), l, P), Q)
<1>1. PICK limit, at :
        /\ at[Len(stk)] = P /\ at[0] = Q
        /\ \A m \in 1..Len(stk) : Link(ends, stk[m], limit[m], at[m], at[m - 1])
  BY Zenon DEF Reaches
<1> DEFINE n == Len(stk)
<1>2. n \in Nat /\ n \in 1..n
  OBVIOUS
<1>3. /\ Front(stk) \in Seq(Task) /\ Len(Front(stk)) = n - 1
      /\ \A m \in 1..(n - 1) : Front(stk)[m] = stk[m]
      /\ Last(stk) = stk[n] /\ stk[n] \in Task
  <2>2. /\ SubSeq(stk, 1, n - 1) \in Seq(Task) /\ Len(SubSeq(stk, 1, n - 1)) = n - 1
        /\ \A m \in 1..(n - 1) : SubSeq(stk, 1, n - 1)[m] = stk[m]
    BY <1>2
  <2> QED
    BY <1>2, <2>2 DEF Front, Last
<1> HIDE DEF n
<1>4. TaskWithin(stk[n], limit[n]) /\ limit[n] \in 0..MaxNesting
  BY <1>1, <1>2 DEF n, TaskWithin, Link
<1>5. at[n - 1] = EndsFrom(ends, stk[n], limit[n], P)
  BY <1>1, <1>2 DEF n, Link
<1>6. \A m \in 1..(n - 1) : Link(ends, Front(stk)[m], limit[m], at[m], at[m - 1])
  <2> TAKE m \in 1..(n - 1)
  <2>1. m \in 1..Len(stk) /\ Front(stk)[m] = stk[m]
    BY <1>2, <1>3 DEF n
  <2> QED
    BY <1>1, <2>1
<1>7. Reaches(ends, Front(stk), at[n - 1], Q)
  <2>1. /\ at[Len(Front(stk))] = at[n - 1] /\ at[0] = Q
        /\ \A m \in 1..Len(Front(stk)) : Link(ends, Front(stk)[m], limit[m], at[m], at[m - 1])
    BY <1>1, <1>3, <1>6
  <2> QED
    BY <2>1, ChainReaches
<1> QED
  BY <1>3, <1>4, <1>5, <1>7

LEMMA TaskAdded ==
  ASSUME NEW ends, NEW stk \in Seq(Task), NEW task \in Task, NEW l, TaskWithin(task, l),
         NEW P, NEW Q, Reaches(ends, stk, EndsFrom(ends, task, l, P), Q)
  PROVE  /\ Append(stk, task) \in Seq(Task)
         /\ Reaches(ends, Append(stk, task), P, Q)
<1> DEFINE R == EndsFrom(ends, task, l, P)
<1>1. PICK limit, at :
        /\ at[Len(stk)] = R /\ at[0] = Q
        /\ \A m \in 1..Len(stk) : Link(ends, stk[m], limit[m], at[m], at[m - 1])
  BY Zenon DEF Reaches
<1> DEFINE n == Len(stk)
           s == Append(stk, task)
           limit2 == [m \in 1..(n + 1) |-> IF m = n + 1 THEN l ELSE limit[m]]
           at2 == [m \in 0..(n + 1) |-> IF m = n + 1 THEN P ELSE at[m]]
<1>2. n \in Nat /\ s \in Seq(Task) /\ Len(s) = n + 1
      /\ s[n + 1] = task /\ \A m \in 1..n : s[m] = stk[m]
  OBVIOUS
<1>3. /\ limit2[n + 1] = l /\ \A m \in 1..n : limit2[m] = limit[m]
      /\ at2[n + 1] = P /\ \A m \in 0..n : at2[m] = at[m]
  BY <1>2
<1> HIDE DEF limit2, at2, s, R
<1>4. at2[Len(s)] = P /\ at2[0] = Q
  BY <1>1, <1>2, <1>3
<1>5. ASSUME NEW m \in 1..Len(s)
      PROVE  Link(ends, s[m], limit2[m], at2[m], at2[m - 1])
  <2>1. CASE m = n + 1
    <3>1. at2[m - 1] = R /\ at2[m] = P /\ limit2[m] = l /\ s[m] = task
      BY <1>1, <1>2, <1>3, <2>1
    <3> QED
      BY <3>1 DEF R, Link
  <2>2. CASE m # n + 1
    <3>1. m \in 1..n /\ m - 1 \in 0..n /\ m \in 0..n
      BY <1>2, <2>2
    <3>2. at2[m - 1] = at[m - 1] /\ at2[m] = at[m] /\ limit2[m] = limit[m] /\ s[m] = stk[m]
      BY <1>2, <1>3, <3>1
    <3> QED
      BY <1>1, <3>1, <3>2
  <2> QED
    BY <2>1, <2>2
<1>6. Reaches(ends, s, P, Q)
  BY <1>4, <1>5, ChainReaches
<1> QED
  BY <1>2, <1>6 DEF s

\* A type within a limit makes a task.
LEMMA TypeTasks ==
  ASSUME NEW l \in 0..MaxNesting, NEW t \in Nested[l], l = MaxNesting => t.ctor # "any",
         NEW ends, NEW p
  PROVE  /\ TypeTask(t) \in Task /\ TaskWithin(TypeTask(t), l)
         /\ TaskEnds(ends, TypeTask(t), l, p) = ends[l][t][p]
<1>1. t \in Nested[MaxNesting]
  BY NestedGrows
<1>2. /\ TypeTask(t).kind = "type" /\ TypeTask(t).types = <<t>>
      /\ TypeTask(t) \in Task
  <2>1. <<t>> \in Seq(Nested[MaxNesting])
    <3> DEFINE T == Nested[MaxNesting]
    <3>1. t \in T
      BY <1>1
    <3> HIDE DEF T
    <3>2. <<t>> \in Seq(T)
      BY <3>1
    <3> QED
      BY <3>2 DEF T
  <2> QED
    BY <2>1 DEF TypeTask, Task
<1> QED
  BY <1>2 DEF TaskWithin, TaskEnds

\* A repeated task is over, or a value of its next type comes first.
LEMMA RepeatTasks ==
  ASSUME NEW task \in Task, NEW l, TaskWithin(task, l), task.kind = "repeat",
         NEW ends, NEW p \in Nat
  PROVE  /\ task.rounds = 0 => TaskEnds(ends, task, l, p) = {p}
         /\ task.rounds > 0 =>
              /\ Advanced(task) \in Task /\ TaskWithin(Advanced(task), l)
              /\ task.types[task.next] \in Nested[l]
              /\ TaskEnds(ends, task, l, p) =
                   EndsFrom(ends, Advanced(task), l, ends[l][task.types[task.next]][p])
<1> DEFINE n == LeftOf(task)
           a == Advanced(task)
<1>1. /\ l \in 0..MaxNesting /\ l # MaxNesting
      /\ Len(task.types) \in {1, 2} /\ task.types \in Seq(Nested[l])
      /\ task.next \in 1..Len(task.types)
      /\ task.rounds \in Nat /\ (task.rounds = 0 => task.next = 1)
  BY DEF TaskWithin
<1>2. TaskEnds(ends, task, l, p) = InTurn(ends[l], task.types, n)[p]
  BY DEF TaskEnds
<1>3. CASE task.rounds = 0
  <2>1. n = 0
    BY <1>1, <1>3 DEF LeftOf
  <2> QED
    BY <1>2, <1>3, <2>1, NoTurn
<1>4. CASE task.rounds > 0
  <2>1. /\ n \in Nat \ {0} /\ NextOf(task.types, n) = task.types[task.next]
    <3>1. CASE Len(task.types) = 1
      <4>1. n = task.rounds /\ task.next = 1
        BY <1>1, <3>1 DEF LeftOf
      <4>2. 1 - ((n - 1) % 1) = 1
        BY <1>1, <1>4, <4>1
      <4> QED
        BY <1>1, <1>4, <3>1, <4>1, <4>2 DEF NextOf
    <3>2. CASE Len(task.types) = 2
      <4>1. n = 2 * task.rounds - (task.next - 1) /\ task.next \in {1, 2}
        BY <1>1, <3>2 DEF LeftOf
      <4> HIDE DEF n
      <4>2. 2 - ((n - 1) % 2) = task.next /\ n \in Nat \ {0}
        <5>1. task.rounds - 1 \in Nat /\ n \in Nat \ {0}
          BY <1>1, <1>4, <4>1
        <5>2. CASE task.next = 1
          <6>1. n - 1 = 2 * (task.rounds - 1) + 1
            BY <1>1, <4>1, <5>2
          <6> QED
            BY <5>1, <5>2, <6>1
        <5>3. CASE task.next = 2
          <6>1. n - 1 = 2 * (task.rounds - 1)
            BY <1>1, <4>1, <5>3
          <6> QED
            BY <5>1, <5>3, <6>1
        <5> QED
          BY <4>1, <5>2, <5>3
      <4> QED
        BY <3>2, <4>2 DEF NextOf
    <3> QED
      BY <1>1, <3>1, <3>2
  <2>2. /\ a \in Task /\ a.kind = "repeat" /\ a.types = task.types
        /\ a.next \in 1..Len(task.types) /\ a.rounds \in Nat /\ (a.rounds = 0 => a.next = 1)
        /\ a.next = (IF task.next < Len(task.types) THEN task.next + 1 ELSE 1)
        /\ a.rounds = (IF task.next < Len(task.types) THEN task.rounds ELSE task.rounds - 1)
    <3> DEFINE T == Seq(Nested[MaxNesting])
    <3>1. task \in [kind : {"type", "repeat"}, types : T, rounds : Nat, next : Nat \ {0}]
      BY DEF Task
    <3> HIDE DEF T
    <3>2. CASE task.next < Len(task.types)
      <4>1. a = [task EXCEPT !.next = task.next + 1]
        BY <3>2 DEF Advanced
      <4> HIDE DEF a
      <4> QED
        BY <1>1, <1>4, <3>1, <3>2, <4>1 DEF Task, T
    <3>3. CASE ~(task.next < Len(task.types))
      <4>1. a = [task EXCEPT !.next = 1, !.rounds = task.rounds - 1]
        BY <3>3 DEF Advanced
      <4> HIDE DEF a
      <4>2. /\ a.kind = task.kind /\ a.types = task.types
            /\ a.next = 1 /\ a.rounds = task.rounds - 1
        BY <3>1, <4>1
      <4>3. task.rounds - 1 \in Nat /\ 1 \in 1..Len(task.types)
        BY <1>1, <1>4
      <4>4. a \in [kind : {"type", "repeat"}, types : T, rounds : Nat, next : Nat \ {0}]
        <5> DEFINE b == [task EXCEPT !.next = 1]
        <5>1. b \in [kind : {"type", "repeat"}, types : T, rounds : Nat, next : Nat \ {0}]
          BY <3>1
        <5>2. a = [b EXCEPT !.rounds = task.rounds - 1]
          BY <4>1
        <5> HIDE DEF b
        <5> QED
          BY <4>3, <5>1, <5>2
      <4> QED
        BY <3>3, <4>2, <4>3, <4>4 DEF Task, T
    <3> QED
      BY <3>2, <3>3
  <2> HIDE DEF a
  <2>3. LeftOf(a) = n - 1
    <3>1. CASE Len(task.types) = 1
      BY <1>1, <1>4, <2>2, <3>1 DEF LeftOf
    <3>2. CASE Len(task.types) = 2
      BY <1>1, <1>4, <2>2, <3>2 DEF LeftOf
    <3> QED
      BY <1>1, <3>1, <3>2
  <2>4. TaskWithin(a, l)
    BY <1>1, <2>2 DEF TaskWithin
  <2>5. \A q : TaskEnds(ends, a, l, q) = InTurn(ends[l], task.types, n - 1)[q]
    BY <2>2, <2>3 DEF TaskEnds
  <2> HIDE DEF n
  <2>6. InTurn(ends[l], task.types, n)[p] =
          Through(InTurn(ends[l], task.types, n - 1), ends[l][task.types[task.next]][p])
    <3>1. InTurn(ends[l], task.types, n)[p] =
            Through(InTurn(ends[l], task.types, n - 1), ends[l][NextOf(task.types, n)][p])
      <4>1. n \in Nat /\ n # 0
        BY <2>1
      <4> QED
        BY <4>1, TurnTaken
    <3> QED
      BY <2>1, <3>1
  <2>7. task.types[task.next] \in Nested[l]
    BY <1>1
  <2>8. TaskEnds(ends, task, l, p) =
          EndsFrom(ends, a, l, ends[l][task.types[task.next]][p])
    BY <1>2, <2>5, <2>6 DEF Through, EndsFrom
  <2> QED
    BY <1>4, <2>2, <2>4, <2>7, <2>8 DEF a
<1> QED
  BY <1>1, <1>3, <1>4

-----------------------------------------------------------------------------
(***************************************************************************)
(* What is printed, by the constructor of the type.                        *)
(***************************************************************************)

\* The ends of the values inside of one that is printed with so many levels left.
Inner(left) == IF left = 0 THEN TooDeep ELSE Printed[left - 1]

ByteAt(p) == IF p < Len(input) THEN {input[p + 1]} ELSE {}

LEMMA Constructors ==
  /\ {"bytearray", "option", "result", "list", "map", "tuple1", "tuple2", "tuple3"}
       \cap Basic = {}
  /\ "any" \in Basic /\ Plain = Basic \ {"any"}
BY TypeAssumption DEF Generic, Plain

LEMMA PrintedValue ==
  ASSUME NEW l \in 0..MaxNesting, NEW t \in Nested[l], NEW p \in Nat
  PROVE  /\ t.ctor = "any" /\ l # MaxNesting => Printed[l][t][p] = {}
         /\ t.ctor = "any" /\ l = MaxNesting => Printed[l][t][p] = {Len(input)}
         /\ t.ctor \in Plain => Printed[l][t][p] = Decoded(t.ctor, p)
         /\ t.ctor = "bytearray" =>
              Printed[l][t][p] = {p + t.length} \cap 0..Len(input)
         /\ t.ctor = "option" =>
              Printed[l][t][p] =
                UNION {IF b = 0 THEN {p + 1} ELSE Inner(l)[t.args[1]][p + 1] :
                         b \in ByteAt(p) \cap {0, 1}}
         /\ t.ctor = "result" =>
              Printed[l][t][p] =
                UNION {Inner(l)[t.args[IF b = 1 THEN 1 ELSE 2]][p + 1] :
                         b \in ByteAt(p) \cap {0, 1}}
         /\ t.ctor \in {"list", "map"} =>
              Printed[l][t][p] =
                UNION {InTurn(Inner(l), t.args, n * Len(t.args))[p + 1] : n \in ByteAt(p)}
         /\ t.ctor \in {"tuple1", "tuple2", "tuple3"} =>
              Printed[l][t][p] = InTurn(Inner(l), t.args, Len(t.args))[p]
<1>1. Printed[l] = FormatValue(Inner(l), l)
  BY PrintedDefined, Zenon DEF PrintedFrom, Inner
<1>2. t \in Nested[MaxNesting]
  BY NestedGrows
<1>3. MaxNesting \in Nat
  BY TypeAssumption
<1> DEFINE inner == Inner(l)
<1> HIDE DEF inner
<1>4. FormatValue(inner, l)[t][p] =
        LET byte == ByteAt(p)
        IN CASE t.ctor = "any" -> IF l < MaxNesting THEN {} ELSE {Len(input)}
             [] t.ctor \in Plain -> Decoded(t.ctor, p)
             [] t.ctor = "bytearray" -> {p + t.length} \cap 0..Len(input)
             [] t.ctor = "option" ->
                  UNION {IF b = 0 THEN {p + 1} ELSE inner[t.args[1]][p + 1] :
                           b \in byte \cap {0, 1}}
             [] t.ctor = "result" ->
                  UNION {inner[t.args[IF b = 1 THEN 1 ELSE 2]][p + 1] : b \in byte \cap {0, 1}}
             [] t.ctor \in {"list", "map"} ->
                  UNION {InTurn(inner, t.args, n * Len(t.args))[p + 1] : n \in byte}
             [] OTHER -> InTurn(inner, t.args, Len(t.args))[p]
  BY <1>2 DEF FormatValue, ByteAt
<1>5. Printed[l][t][p] = FormatValue(inner, l)[t][p]
  BY <1>1 DEF inner
<1> DEFINE value == Printed[l][t][p]
           any == IF l < MaxNesting THEN {} ELSE {Len(input)}
           array == {p + t.length} \cap 0..Len(input)
           option == UNION {IF b = 0 THEN {p + 1} ELSE inner[t.args[1]][p + 1] :
                              b \in ByteAt(p) \cap {0, 1}}
           result == UNION {inner[t.args[IF b = 1 THEN 1 ELSE 2]][p + 1] :
                              b \in ByteAt(p) \cap {0, 1}}
           items == UNION {InTurn(inner, t.args, n * Len(t.args))[p + 1] : n \in ByteAt(p)}
           tuple == InTurn(inner, t.args, Len(t.args))[p]
<1>6. value =
        CASE t.ctor = "any" -> any
          [] t.ctor \in Plain -> Decoded(t.ctor, p)
          [] t.ctor = "bytearray" -> array
          [] t.ctor = "option" -> option
          [] t.ctor = "result" -> result
          [] t.ctor \in {"list", "map"} -> items
          [] OTHER -> tuple
  BY <1>4, <1>5
<1>7. any = IF l # MaxNesting THEN {} ELSE {Len(input)}
  BY <1>3
<1> HIDE DEF value, any, array, option, result, items, tuple
<1>8. /\ t.ctor = "any" => value = any
      /\ t.ctor \in Plain => value = Decoded(t.ctor, p)
      /\ t.ctor = "bytearray" => value = array
      /\ t.ctor = "option" => value = option
      /\ t.ctor = "result" => value = result
      /\ t.ctor \in {"list", "map"} => value = items
      /\ t.ctor \in {"tuple1", "tuple2", "tuple3"} => value = tuple
  <2>1. CASE t.ctor = "any"
    BY <1>6, <2>1, Constructors
  <2>2. CASE t.ctor \in Plain
    BY <1>6, <2>2, Constructors
  <2>3. CASE t.ctor \in {"bytearray", "option", "result", "list", "map", "tuple1", "tuple2", "tuple3"}
    <3>1. t.ctor # "any" /\ t.ctor \notin Plain
      BY <2>3, Constructors
    <3> QED
      BY <1>6, <2>3, <3>1
  <2> QED
    BY <2>1, <2>2, <2>3
<1>9. CASE t.ctor = "any"
  <2>1. t.ctor \notin {"bytearray", "option", "result", "list", "map", "tuple1", "tuple2", "tuple3"}
        /\ t.ctor \notin Plain
    BY <1>9, Constructors
  <2> QED
    BY <1>7, <1>8, <1>9, <2>1 DEF value
<1>10. CASE t.ctor # "any"
  BY <1>8, <1>10 DEF value, array, option, result, items, tuple, inner
<1> QED
  BY <1>9, <1>10

\* The types that are applied are within the limit below.
LEMMA InnerTypes ==
  ASSUME NEW l \in 0..MaxNesting, NEW t \in Nested[l], t.ctor \in Generic
  PROVE  /\ l - 1 \in 0..MaxNesting /\ l - 1 # MaxNesting
         /\ Inner(l) = Printed[l - 1]
         /\ t.args \in Seq(Nested[l - 1])
         /\ Len(t.args) = Arity(t.ctor) /\ Len(t.args) \in {1, 2, 3}
<1>1. l # 0 /\ t.args \in Seq(Nested[l - 1]) /\ Len(t.args) = Arity(t.ctor)
  BY NestedInside
<1>2. Arity(t.ctor) \in {1, 2, 3}
  BY DEF Arity
<1>3. l - 1 \in 0..MaxNesting /\ l - 1 # MaxNesting
  BY <1>1, TypeAssumption
<1> QED
  BY <1>1, <1>2, <1>3 DEF Inner

LEMMA NextInside ==
  ASSUME NEW T, NEW types \in Seq(T), Len(types) \in {1, 2, 3}, NEW k \in Nat, k # 0
  PROVE  NextOf(types, k) \in T
<1> DEFINE n == Len(types)
           i == n - ((k - 1) % n)
<1>1. n \in Nat /\ k - 1 \in Nat /\ (n = 1 \/ n = 2 \/ n = 3)
  OBVIOUS
<1>2. NextOf(types, k) = types[i]
  BY DEF NextOf
<1> HIDE DEF n
<1>3. i \in 1..n
  <2>1. CASE n = 1
    BY <1>1, <2>1
  <2>2. CASE n = 2
    BY <1>1, <2>2
  <2>3. CASE n = 3
    BY <1>1, <2>3
  <2> QED
    BY <1>1, <2>1, <2>2, <2>3
<1> HIDE DEF i
<1> QED
  BY <1>2, <1>3 DEF n

LEMMA TurnsInNat ==
  ASSUME NEW T, NEW ends, \A t \in T, p \in Nat : ends[t][p] \subseteq Nat,
         NEW types \in Seq(T), Len(types) \in {1, 2, 3}
  PROVE  \A n \in Nat, p \in Nat : InTurn(ends, types, n)[p] \subseteq Nat
<1> DEFINE S == {n \in Nat : \A p \in Nat : InTurn(ends, types, n)[p] \subseteq Nat}
<1>1. 0 \in S
  <2>1. \A p \in Nat : InTurn(ends, types, 0)[p] = {p}
    BY NoTurn
  <2> QED
    BY <2>1
<1>2. ASSUME NEW n \in Nat, n \in S
      PROVE  n + 1 \in S
  <2> SUFFICES ASSUME NEW p \in Nat
               PROVE  InTurn(ends, types, n + 1)[p] \subseteq Nat
    OBVIOUS
  <2>1. n + 1 \in Nat /\ n + 1 # 0 /\ (n + 1) - 1 = n
    OBVIOUS
  <2>2. InTurn(ends, types, n + 1)[p] =
          Through(InTurn(ends, types, (n + 1) - 1), ends[NextOf(types, n + 1)][p])
    BY <2>1, TurnTaken
  <2>3. ends[NextOf(types, n + 1)][p] \subseteq Nat
    BY <2>1, NextInside
  <2>4. \A q \in Nat : InTurn(ends, types, n)[q] \subseteq Nat
    BY <1>2
  <2> QED
    BY <2>1, <2>2, <2>3, <2>4 DEF Through
<1> HIDE DEF S
<1>3. \A n \in Nat : n \in S
  BY <1>1, <1>2, AllNumbers
<1> QED
  BY <1>3 DEF S

LEMMA DecodedInNat ==
  ASSUME NEW b \in Basic, NEW p \in Nat
  PROVE  Decoded(b, p) \subseteq Nat
<1>1. \A e \in Encoding[b] : Len(e) \in Nat
  BY ValueAssumption
<1> QED
  BY <1>1 DEF Decoded

LEMMA ByteInNat ==
  ASSUME input \in Seq(Byte), NEW p \in Nat
  PROVE  Len(input) \in Nat /\ ByteAt(p) \subseteq Nat
<1>1. Byte \subseteq Nat
  BY ValueAssumption
<1>2. Len(input) \in Nat
  OBVIOUS
<1>3. ASSUME p < Len(input)
      PROVE  input[p + 1] \in Byte
  BY <1>2, <1>3
<1> QED
  BY <1>1, <1>2, <1>3 DEF ByteAt

LEMMA InnerInNat ==
  ASSUME input \in Seq(Byte), NEW l \in 0..MaxNesting,
         l # 0 => \A t \in Nested[l - 1], p \in Nat : Printed[l - 1][t][p] \subseteq Nat,
         NEW t \in Nested[l], NEW p \in Nat
  PROVE  Printed[l][t][p] \subseteq Nat
<1>1. Len(input) \in Nat /\ ByteAt(p) \subseteq Nat
  BY ByteInNat
<1>2. t.ctor \in Basic \cup Generic \cup {"bytearray"} /\ t.length \in Nat
  BY NestedInside
<1>3. CASE t.ctor = "any"
  BY <1>1, <1>3, PrintedValue
<1>4. CASE t.ctor \in Plain
  BY <1>4, PrintedValue, DecodedInNat, Constructors
<1>5. CASE t.ctor = "bytearray"
  <2>1. Printed[l][t][p] = {p + t.length} \cap 0..Len(input)
    BY <1>5, PrintedValue
  <2> QED
    BY <1>1, <1>2, <2>1
<1>6. CASE t.ctor \in Generic
  <2> DEFINE ends == Inner(l)
             T == Nested[l - 1]
  <2>1. /\ \A u \in T, q \in Nat : ends[u][q] \subseteq Nat
        /\ t.args \in Seq(T) /\ Len(t.args) \in {1, 2, 3} /\ Len(t.args) = Arity(t.ctor)
    <3>1. l # 0
      BY <1>6, NestedInside
    <3> QED
      BY <1>6, <3>1, InnerTypes
  <2> HIDE DEF ends, T
  <2>2. \A n \in Nat, q \in Nat : InTurn(ends, t.args, n)[q] \subseteq Nat
    BY <2>1, TurnsInNat
  <2>3. p + 1 \in Nat
    OBVIOUS
  <2>4. CASE t.ctor = "option"
    <3>1. ends[t.args[1]][p + 1] \subseteq Nat
      BY <2>1, <2>3
    <3>2. Printed[l][t][p] =
            UNION {IF b = 0 THEN {p + 1} ELSE ends[t.args[1]][p + 1] :
                     b \in ByteAt(p) \cap {0, 1}}
      BY <2>4, PrintedValue DEF ends
    <3> QED
      BY <2>3, <3>1, <3>2
  <2>5. CASE t.ctor = "result"
    <3>1. Len(t.args) = 2
      BY <2>1, <2>5 DEF Arity
    <3>2. ends[t.args[1]][p + 1] \subseteq Nat /\ ends[t.args[2]][p + 1] \subseteq Nat
      BY <2>1, <2>3, <3>1
    <3>3. Printed[l][t][p] =
            UNION {ends[t.args[IF b = 1 THEN 1 ELSE 2]][p + 1] : b \in ByteAt(p) \cap {0, 1}}
      BY <2>5, PrintedValue DEF ends
    <3> QED
      BY <3>2, <3>3
  <2>6. CASE t.ctor \in {"list", "map"}
    <3>1. Printed[l][t][p] =
            UNION {InTurn(ends, t.args, n * Len(t.args))[p + 1] : n \in ByteAt(p)}
      BY <2>6, PrintedValue DEF ends
    <3>2. \A n \in ByteAt(p) : n * Len(t.args) \in Nat
      BY <1>1, <2>1
    <3>3. \A n \in ByteAt(p) : InTurn(ends, t.args, n * Len(t.args))[p + 1] \subseteq Nat
      BY <2>2, <2>3, <3>2
    <3> QED
      BY <3>1, <3>3
  <2>7. CASE t.ctor \in {"tuple1", "tuple2", "tuple3"}
    <3>1. Printed[l][t][p] = InTurn(ends, t.args, Len(t.args))[p]
      BY <2>7, PrintedValue DEF ends
    <3> QED
      BY <2>1, <2>2, <3>1
  <2> QED
    BY <1>6, <2>4, <2>5, <2>6, <2>7 DEF Generic
<1> QED
  BY <1>2, <1>3, <1>4, <1>5, <1>6, Constructors

\* The printer ends at positions.
LEMMA PrintedInNat ==
  ASSUME input \in Seq(Byte)
  PROVE  \A l \in 0..MaxNesting :
           \A t \in Nested[l], p \in Nat : Printed[l][t][p] \subseteq Nat
<1> DEFINE S == {l \in Nat : l <= MaxNesting =>
                   \A t \in Nested[l], p \in Nat : Printed[l][t][p] \subseteq Nat}
<1>1. 0 \in S
  <2>1. 0 \in 0..MaxNesting
    BY TypeAssumption
  <2> QED
    BY <2>1, InnerInNat
<1>2. ASSUME NEW l \in Nat, l \in S
      PROVE  l + 1 \in S
  <2> SUFFICES ASSUME l + 1 <= MaxNesting
               PROVE  \A t \in Nested[l + 1], p \in Nat : Printed[l + 1][t][p] \subseteq Nat
    OBVIOUS
  <2>1. l + 1 \in 0..MaxNesting /\ l <= MaxNesting /\ (l + 1) - 1 = l
    BY TypeAssumption
  <2>2. \A t \in Nested[(l + 1) - 1], p \in Nat : Printed[(l + 1) - 1][t][p] \subseteq Nat
    BY <1>2, <2>1
  <2> QED
    BY <2>1, <2>2, InnerInNat
<1> HIDE DEF S
<1>3. \A l \in Nat : l \in S
  BY <1>1, <1>2, AllNumbers
<1> QED
  BY <1>3 DEF S

-----------------------------------------------------------------------------
(***************************************************************************)
(* A turn of the validator's loop.                                         *)
(***************************************************************************)

\* What is left to check still ends in Q; or it fails, and there is no such end.
Outcome(Q) ==
  \/ /\ UNCHANGED verdict
     /\ pos' \in Nat /\ stack' \in Seq(Task)
     /\ Reaches(Printed, stack', {pos'}, Q)
  \/ verdict' = "invalid" /\ Q = {}

LEMMA Onward ==
  ASSUME NEW rest \in Seq(Task), NEW p \in Nat, NEW Q, Reaches(Printed, rest, {p}, Q),
         Proceed(rest, p, <<>>)
  PROVE  Outcome(Q)
<1>1. rest \o <<>> = rest
  BY ConcatEmptySeq
<1> QED
  BY <1>1 DEF Proceed, Outcome

LEMMA OnwardWith ==
  ASSUME NEW rest \in Seq(Task), NEW p \in Nat, NEW Q, NEW task \in Task, NEW l,
         TaskWithin(task, l), Reaches(Printed, rest, TaskEnds(Printed, task, l, p), Q),
         Proceed(rest, p, <<task>>)
  PROVE  Outcome(Q)
<1>1. rest \o <<task>> = Append(rest, task)
  OBVIOUS
<1>2. EndsFrom(Printed, task, l, {p}) = TaskEnds(Printed, task, l, p)
  BY DEF EndsFrom
<1>3. Append(rest, task) \in Seq(Task) /\ Reaches(Printed, Append(rest, task), {p}, Q)
  BY <1>2, TaskAdded
<1> QED
  BY <1>1, <1>3 DEF Proceed, Outcome

LEMMA ThroughSame ==
  ASSUME NEW ends, NEW P, \A p \in P : ends[p] = {p}
  PROVE  Through(ends, P) = P
<1>1. ASSUME NEW q \in Through(ends, P)
      PROVE  q \in P
  <2>1. PICK p \in P : q \in ends[p]
    BY DEF Through
  <2> QED
    BY <2>1
<1>2. ASSUME NEW q \in P
      PROVE  q \in Through(ends, P)
  BY DEF Through
<1> QED
  BY <1>1, <1>2

\* The tasks for the last k of these types, the last at the bottom.
LastTasks(types, k) == [i \in 1..k |-> TypeTask(types[Len(types) + 1 - i])]

LEMMA TupleTasks ==
  ASSUME input \in Seq(Byte), NEW l \in 0..MaxNesting, l # MaxNesting,
         NEW types \in Seq(Nested[l]), Len(types) \in {1, 2, 3},
         NEW rest \in Seq(Task), NEW Q
  PROVE  \A k \in 0..Len(types), P \in SUBSET Nat :
           Reaches(Printed, rest, Through(InTurn(Printed[l], types, k), P), Q) =>
             /\ rest \o LastTasks(types, k) \in Seq(Task)
             /\ Reaches(Printed, rest \o LastTasks(types, k), P, Q)
<1> DEFINE n == Len(types)
           ends == Printed[l]
           Done(k) == \A P \in SUBSET Nat :
                        Reaches(Printed, rest, Through(InTurn(ends, types, k), P), Q) =>
                          /\ rest \o LastTasks(types, k) \in Seq(Task)
                          /\ Reaches(Printed, rest \o LastTasks(types, k), P, Q)
           S == {k \in Nat : k <= n => Done(k)}
<1>0. n \in Nat
  OBVIOUS
<1> HIDE DEF n
<1>1. 0 \in S
  <2>1. LastTasks(types, 0) = <<>>
    BY DEF LastTasks
  <2>2. rest \o <<>> = rest
    BY ConcatEmptySeq
  <2>3. ASSUME NEW P \in SUBSET Nat
        PROVE  Through(InTurn(ends, types, 0), P) = P
    <3>1. ASSUME NEW p \in P
          PROVE  InTurn(ends, types, 0)[p] = {p}
      <4>1. p \in Nat
        OBVIOUS
      <4> HIDE DEF ends
      <4> QED
        BY <4>1, NoTurn
    <3> QED
      BY <3>1, ThroughSame
  <2>4. Done(0)
    BY <2>1, <2>2, <2>3
  <2> QED
    BY <2>4
<1>2. ASSUME NEW k \in Nat, k \in S
      PROVE  k + 1 \in S
  <2> SUFFICES ASSUME k + 1 <= n,
                      NEW P \in SUBSET Nat,
                      Reaches(Printed, rest, Through(InTurn(ends, types, k + 1), P), Q)
               PROVE  /\ rest \o LastTasks(types, k + 1) \in Seq(Task)
                      /\ Reaches(Printed, rest \o LastTasks(types, k + 1), P, Q)
    OBVIOUS
  <2>1. Done(k)
    BY <1>0, <1>2
  <2> HIDE DEF Done, S
  <2>2. n - k \in 1..n /\ NextOf(types, k + 1) = types[n - k]
    <3>1. NextOf(types, k + 1) = types[n - (k % n)]
      BY DEF NextOf, n
    <3>2. k % n = k
      <4>1. CASE n = 1
        BY <4>1
      <4>2. CASE n = 2
        BY <4>2
      <4>3. CASE n = 3
        BY <4>3
      <4> QED
        BY <4>1, <4>2, <4>3 DEF n
    <3> QED
      BY <1>0, <3>1, <3>2
  <2> DEFINE t == types[n - k]
             R == UNION {ends[t][p] : p \in P}
  <2>3. t \in Nested[l]
    BY <2>2 DEF n
  <2>4. \A p \in P : ends[t][p] \subseteq Nat
    BY <2>3, PrintedInNat
  <2> HIDE DEF t
  <2>5. Through(InTurn(ends, types, k + 1), P) = Through(InTurn(ends, types, k), R)
    <3>1. \A p \in P :
            InTurn(ends, types, k + 1)[p] = Through(InTurn(ends, types, k), ends[t][p])
      <4> TAKE p \in P
      <4>1. k + 1 \in Nat /\ k + 1 # 0 /\ (k + 1) - 1 = k /\ p \in Nat
        OBVIOUS
      <4>2. InTurn(ends, types, k + 1)[p] =
              Through(InTurn(ends, types, (k + 1) - 1), ends[NextOf(types, k + 1)][p])
        BY <4>1, TurnTaken
      <4> QED
        BY <2>2, <4>1, <4>2 DEF t
    <3> QED
      BY <3>1 DEF Through
  <2>6. /\ rest \o LastTasks(types, k) \in Seq(Task)
        /\ Reaches(Printed, rest \o LastTasks(types, k), R, Q)
    <3>1. R \in SUBSET Nat
      BY <2>4
    <3> HIDE DEF R, ends
    <3> QED
      BY <2>1, <2>5, <3>1 DEF Done
  <2>7. /\ TypeTask(t) \in Task /\ TaskWithin(TypeTask(t), l)
        /\ \A p : TaskEnds(Printed, TypeTask(t), l, p) = ends[t][p]
    BY <2>3, TypeTasks
  <2>8. EndsFrom(Printed, TypeTask(t), l, P) = R
    BY <2>7 DEF EndsFrom
  <2>9. /\ Append(rest \o LastTasks(types, k), TypeTask(t)) \in Seq(Task)
        /\ Reaches(Printed, Append(rest \o LastTasks(types, k), TypeTask(t)), P, Q)
    <3> HIDE DEF R, ends
    <3> QED
      BY <2>6, <2>7, <2>8, TaskAdded
  <2>10. rest \o LastTasks(types, k + 1) = Append(rest \o LastTasks(types, k), TypeTask(t))
    <3> DEFINE a == LastTasks(types, k)
               x == TypeTask(t)
               task(i) == TypeTask(types[n + 1 - i])
    <3>1. \A i \in 1..k : task(i) \in Task
      <4> TAKE i \in 1..k
      <4>1. n + 1 - i \in 1..n
        BY <1>0
      <4>2. types[n + 1 - i] \in Nested[l]
        BY <4>1 DEF n
      <4> QED
        BY <4>2, TypeTasks
    <3>2. task(k + 1) = x
      <4>1. n + 1 - (k + 1) = n - k
        BY <1>0
      <4> QED
        BY <4>1 DEF t
    <3>3. /\ a = [i \in 1..k |-> task(i)]
          /\ LastTasks(types, k + 1) = [i \in 1..(k + 1) |-> task(i)]
      BY DEF LastTasks, n
    <3> HIDE DEF a, x, task
    <3>4. a \in Seq(Task) /\ Len(a) = k /\ \A i \in 1..k : a[i] = task(i)
      BY <3>1, <3>3
    <3>5. LastTasks(types, k + 1) = Append(a, x)
      BY <3>2, <3>3, <3>4
    <3>6. x \in Task
      BY <2>7 DEF x
    <3>7. rest \o Append(a, x) = Append(rest \o a, x)
      BY <3>4, <3>6
    <3> QED
      BY <3>5, <3>7 DEF a, x
  <2> QED
    BY <2>9, <2>10
<1> HIDE DEF S
<1>3. \A k \in Nat : k \in S
  BY <1>1, <1>2, AllNumbers
<1> QED
  BY <1>0, <1>3 DEF S, n

LEMMA Failed ==
  ASSUME NEW rest \in Seq(Task), NEW Q, Reaches(Printed, rest, {}, Q), Invalid
  PROVE  Outcome(Q)
<1>1. Q = {}
  BY NowhereReaches
<1> QED
  BY <1>1 DEF Invalid, Outcome

\* The encodings of a type are told apart by what they begin with, so that there is
\* one way to read the bytes at most.
LEMMA OneEncoding ==
  ASSUME NEW b \in Basic, NEW e \in Encoding[b], NEW f \in Encoding[b], Len(e) <= Len(f),
         NEW s \in Seq(Byte), IsPrefix(e, s), IsPrefix(f, s)
  PROVE  e = f
<1>1. e \in Seq(Byte) /\ f \in Seq(Byte)
  BY ValueAssumption
<1>2. \A i \in 1..Len(e) : e[i] = s[i]
  <2>1. Len(e) <= Len(s) /\ SubSeq(e, 1, Len(e)) = SubSeq(s, 1, Len(e))
    BY DEF IsPrefix
  <2>2. \A i \in 1..Len(e) : SubSeq(e, 1, Len(e))[i] = e[i]
    BY <1>1
  <2>3. \A i \in 1..Len(e) : SubSeq(s, 1, Len(e))[i] = s[i]
    BY <1>1, <2>1
  <2> QED
    BY <2>1, <2>2, <2>3
<1>3. \A i \in 1..Len(f) : f[i] = s[i]
  <2>1. Len(f) <= Len(s) /\ SubSeq(f, 1, Len(f)) = SubSeq(s, 1, Len(f))
    BY DEF IsPrefix
  <2>2. \A i \in 1..Len(f) : SubSeq(f, 1, Len(f))[i] = f[i]
    BY <1>1
  <2>3. \A i \in 1..Len(f) : SubSeq(s, 1, Len(f))[i] = s[i]
    BY <1>1, <2>1
  <2> QED
    BY <2>1, <2>2, <2>3
<1>4. IsPrefix(e, f)
  <2>1. SubSeq(e, 1, Len(e)) \in Seq(Byte) /\ Len(SubSeq(e, 1, Len(e))) = Len(e)
        /\ \A i \in 1..Len(e) : SubSeq(e, 1, Len(e))[i] = e[i]
    BY <1>1
  <2>2. SubSeq(f, 1, Len(e)) \in Seq(Byte) /\ Len(SubSeq(f, 1, Len(e))) = Len(e)
        /\ \A i \in 1..Len(e) : SubSeq(f, 1, Len(e))[i] = f[i]
    BY <1>1
  <2>3. \A i \in 1..Len(e) : e[i] = f[i]
    BY <1>1, <1>2, <1>3
  <2>4. SubSeq(e, 1, Len(e)) = SubSeq(f, 1, Len(e))
    BY <2>1, <2>2, <2>3, SeqEqual
  <2> QED
    BY <2>4 DEF IsPrefix
<1> QED
  BY <1>4, ValueAssumption

LEMMA DecodedOnce ==
  ASSUME input \in Seq(Byte), NEW b \in Basic, NEW p \in Nat,
         NEW q \in Decoded(b, p), NEW r \in Decoded(b, p)
  PROVE  q = r
<1> DEFINE s == SubSeq(input, p + 1, Len(input))
<1>1. s \in Seq(Byte)
  <2>1. \A i \in (p + 1)..Len(input) : input[i] \in Byte
    OBVIOUS
  <2> QED
    BY <2>1, SubSeqProperties
<1>2. PICK e \in Encoding[b] : q = p + Len(e) /\ IsPrefix(e, s)
  BY DEF Decoded
<1>3. PICK f \in Encoding[b] : r = p + Len(f) /\ IsPrefix(f, s)
  BY DEF Decoded
<1> HIDE DEF s
<1>4. Len(e) \in Nat /\ Len(f) \in Nat
  BY ValueAssumption
<1>5. e = f
  <2>1. CASE Len(e) <= Len(f)
    BY <1>1, <1>2, <1>3, <2>1, OneEncoding
  <2>2. CASE Len(f) <= Len(e)
    BY <1>1, <1>2, <1>3, <2>2, OneEncoding
  <2> QED
    BY <1>4, <2>1, <2>2
<1> QED
  BY <1>2, <1>3, <1>5

\* What a value of type t is checked by, according to its constructor.
LEMMA CheckedBy ==
  ASSUME NEW t, NEW rest, Check(t, rest)
  PROVE  /\ t.ctor = "any" => Invalid
         /\ t.ctor \in Plain =>
              IF Decoded(t.ctor, pos) = {} THEN Invalid
              ELSE \E p \in Decoded(t.ctor, pos) : Proceed(rest, p, <<>>)
         /\ t.ctor = "bytearray" =>
              IF pos + t.length > Len(input) THEN Invalid
              ELSE Proceed(rest, pos + t.length, <<>>)
         /\ t.ctor = "option" =>
              IF TheByte \cap {0, 1} = {} THEN Invalid
              ELSE Proceed(rest, pos + 1,
                           IF TheByte = {0} THEN <<>> ELSE <<TypeTask(t.args[1])>>)
         /\ t.ctor = "result" =>
              IF TheByte \cap {0, 1} = {} THEN Invalid
              ELSE Proceed(rest, pos + 1, <<TypeTask(t.args[IF TheByte = {1} THEN 1 ELSE 2])>>)
         /\ t.ctor \in {"list", "map"} =>
              IF TheByte = {} THEN Invalid
              ELSE Proceed(rest, pos + 1, <<Repeat(t.args, input[pos + 1])>>)
         /\ t.ctor \in {"tuple1", "tuple2", "tuple3"} =>
              Proceed(rest, pos, [i \in DOMAIN t.args |-> TypeTask(t.args[Len(t.args) + 1 - i])])
<1> DEFINE none == Invalid
           plain == IF Decoded(t.ctor, pos) = {} THEN Invalid
                    ELSE \E p \in Decoded(t.ctor, pos) : Proceed(rest, p, <<>>)
           array == IF pos + t.length > Len(input) THEN Invalid
                    ELSE Proceed(rest, pos + t.length, <<>>)
           option == IF TheByte \cap {0, 1} = {} THEN Invalid
                     ELSE Proceed(rest, pos + 1,
                                  IF TheByte = {0} THEN <<>> ELSE <<TypeTask(t.args[1])>>)
           result == IF TheByte \cap {0, 1} = {} THEN Invalid
                     ELSE Proceed(rest, pos + 1,
                                  <<TypeTask(t.args[IF TheByte = {1} THEN 1 ELSE 2])>>)
           items == IF TheByte = {} THEN Invalid
                    ELSE Proceed(rest, pos + 1, <<Repeat(t.args, input[pos + 1])>>)
           tuple == Proceed(rest, pos,
                            [i \in DOMAIN t.args |-> TypeTask(t.args[Len(t.args) + 1 - i])])
<1>1. (CASE t.ctor = "any" -> none
         [] t.ctor \in Plain -> plain
         [] t.ctor = "bytearray" -> array
         [] t.ctor = "option" -> option
         [] t.ctor = "result" -> result
         [] t.ctor \in {"list", "map"} -> items
         [] OTHER -> tuple)
  BY Zenon DEF Check
<1> HIDE DEF none, plain, array, option, result, items, tuple
<1>2. /\ t.ctor = "any" => none
      /\ t.ctor \in Plain => plain
      /\ t.ctor = "bytearray" => array
      /\ t.ctor = "option" => option
      /\ t.ctor = "result" => result
      /\ t.ctor \in {"list", "map"} => items
      /\ t.ctor \in {"tuple1", "tuple2", "tuple3"} => tuple
  <2>1. CASE t.ctor = "any"
    BY <1>1, <2>1, Constructors
  <2>2. CASE t.ctor \in Plain
    BY <1>1, <2>2, Constructors
  <2>3. CASE t.ctor \in {"bytearray", "option", "result", "list", "map", "tuple1", "tuple2", "tuple3"}
    <3>1. t.ctor # "any" /\ t.ctor \notin Plain
      BY <2>3, Constructors
    <3> QED
      BY <1>1, <2>3, <3>1
  <2> QED
    BY <2>1, <2>2, <2>3
<1> QED
  BY <1>2, Zenon DEF none, plain, array, option, result, items, tuple

\* A value of a type that has others inside it.
LEMMA AppliedChecked ==
  ASSUME input \in Seq(Byte), pos \in Nat, NEW l \in 0..MaxNesting, NEW t \in Nested[l],
         t.ctor \in Generic, NEW rest \in Seq(Task), NEW Q,
         Reaches(Printed, rest, Printed[l][t][pos], Q), Check(t, rest)
  PROVE  Outcome(Q)
<1> DEFINE ends == Inner(l)
<1>1. /\ l - 1 \in 0..MaxNesting /\ l - 1 # MaxNesting /\ ends = Printed[l - 1]
      /\ t.args \in Seq(Nested[l - 1])
      /\ Len(t.args) = Arity(t.ctor) /\ Len(t.args) \in {1, 2, 3}
  BY InnerTypes
<1>2. TheByte = ByteAt(pos) /\ pos + 1 \in Nat /\ ByteAt(pos) \subseteq Nat
  BY ByteInNat DEF TheByte, ByteAt
<1>3. ASSUME NEW i \in 1..Len(t.args),
             Printed[l][t][pos] = ends[t.args[i]][pos + 1],
             Proceed(rest, pos + 1, <<TypeTask(t.args[i])>>)
      PROVE  Outcome(Q)
  <2>1. t.args[i] \in Nested[l - 1]
    BY <1>1
  <2>2. /\ TypeTask(t.args[i]) \in Task /\ TaskWithin(TypeTask(t.args[i]), l - 1)
        /\ TaskEnds(Printed, TypeTask(t.args[i]), l - 1, pos + 1) = Printed[l][t][pos]
    BY <1>1, <1>3, <2>1, TypeTasks
  <2> QED
    BY <1>2, <1>3, <2>2, OnwardWith
<1>4. ASSUME Printed[l][t][pos] = {}, Invalid
      PROVE  Outcome(Q)
  BY <1>4, Failed
<1>5. CASE t.ctor = "option"
  <2>1. Printed[l][t][pos] =
          UNION {IF b = 0 THEN {pos + 1} ELSE ends[t.args[1]][pos + 1] :
                   b \in TheByte \cap {0, 1}}
    BY <1>1, <1>2, <1>5, PrintedValue
  <2>2. IF TheByte \cap {0, 1} = {} THEN Invalid
        ELSE Proceed(rest, pos + 1, IF TheByte = {0} THEN <<>> ELSE <<TypeTask(t.args[1])>>)
    BY <1>5, CheckedBy
  <2> HIDE DEF ends
  <2>3. CASE TheByte \cap {0, 1} = {}
    BY <1>4, <2>1, <2>2, <2>3
  <2>4. CASE TheByte \cap {0, 1} # {}
    <3>1. TheByte = {0} \/ TheByte = {1}
      BY <2>4 DEF TheByte
    <3>2. CASE TheByte = {0}
      <4>1. Printed[l][t][pos] = {pos + 1}
        BY <2>1, <3>2
      <4>2. Proceed(rest, pos + 1, <<>>)
        BY <2>2, <2>4, <3>2
      <4> QED
        BY <1>2, <4>1, <4>2, Onward
    <3>3. CASE TheByte = {1}
      <4>1. Printed[l][t][pos] = ends[t.args[1]][pos + 1]
        BY <2>1, <3>3
      <4>2. Proceed(rest, pos + 1, <<TypeTask(t.args[1])>>)
        BY <2>2, <2>4, <3>3
      <4> QED
        BY <1>1, <1>3, <4>1, <4>2
    <3> QED
      BY <3>1, <3>2, <3>3
  <2> QED
    BY <2>3, <2>4
<1>6. CASE t.ctor = "result"
  <2>0. Len(t.args) = 2
    BY <1>1, <1>6 DEF Arity
  <2>1. Printed[l][t][pos] =
          UNION {ends[t.args[IF b = 1 THEN 1 ELSE 2]][pos + 1] : b \in TheByte \cap {0, 1}}
    BY <1>1, <1>2, <1>6, PrintedValue
  <2>2. IF TheByte \cap {0, 1} = {} THEN Invalid
        ELSE Proceed(rest, pos + 1, <<TypeTask(t.args[IF TheByte = {1} THEN 1 ELSE 2])>>)
    BY <1>6, CheckedBy
  <2> HIDE DEF ends
  <2>3. CASE TheByte \cap {0, 1} = {}
    BY <1>4, <2>1, <2>2, <2>3
  <2>4. CASE TheByte \cap {0, 1} # {}
    <3>1. TheByte = {0} \/ TheByte = {1}
      BY <2>4 DEF TheByte
    <3>2. CASE TheByte = {0}
      <4>1. Printed[l][t][pos] = ends[t.args[2]][pos + 1]
        BY <2>1, <3>2
      <4>2. Proceed(rest, pos + 1, <<TypeTask(t.args[2])>>)
        BY <2>2, <2>4, <3>2
      <4> QED
        BY <1>3, <2>0, <4>1, <4>2
    <3>3. CASE TheByte = {1}
      <4>1. Printed[l][t][pos] = ends[t.args[1]][pos + 1]
        BY <2>1, <3>3
      <4>2. Proceed(rest, pos + 1, <<TypeTask(t.args[1])>>)
        BY <2>2, <2>4, <3>3
      <4> QED
        BY <1>3, <2>0, <4>1, <4>2
    <3> QED
      BY <3>1, <3>2, <3>3
  <2> QED
    BY <2>3, <2>4
<1>7. CASE t.ctor \in {"list", "map"}
  <2>0. Len(t.args) \in {1, 2}
    BY <1>1, <1>7 DEF Arity
  <2>1. Printed[l][t][pos] =
          UNION {InTurn(ends, t.args, n * Len(t.args))[pos + 1] : n \in TheByte}
    BY <1>1, <1>2, <1>7, PrintedValue
  <2>2. IF TheByte = {} THEN Invalid
        ELSE Proceed(rest, pos + 1, <<Repeat(t.args, input[pos + 1])>>)
    BY <1>7, CheckedBy
  <2>3. CASE TheByte = {}
    BY <1>4, <2>1, <2>2, <2>3
  <2>4. CASE TheByte # {}
    <3> DEFINE n == input[pos + 1]
               task == Repeat(t.args, n)
    <3>1. TheByte = {n} /\ n \in Nat
      BY <1>2, <2>4 DEF TheByte
    <3>2. Proceed(rest, pos + 1, <<task>>)
      BY <2>2, <2>4
    <3> HIDE DEF n
    <3>3. task \in Task
      <4> DEFINE T == Nested[MaxNesting]
      <4>1. t.args \in Seq(T)
        BY <1>1, NestedGrows, SeqMonotonic
      <4> HIDE DEF T
      <4> QED
        BY <3>1, <4>1 DEF Repeat, Task, T
    <3>4. task.kind = "repeat" /\ task.types = t.args /\ task.rounds = n /\ task.next = 1
      BY DEF Repeat
    <3> HIDE DEF task
    <3>5. TaskWithin(task, l - 1)
      <4> DEFINE k == l - 1
      <4>1. k \in 0..MaxNesting /\ k # MaxNesting /\ t.args \in Seq(Nested[k])
        BY <1>1
      <4> HIDE DEF k
      <4>2. TaskWithin(task, k)
        <5>1. /\ Len(task.types) \in {1, 2} /\ task.types \in Seq(Nested[k])
              /\ task.next \in 1..Len(task.types) /\ task.rounds \in Nat
          <6>1. task.types \in Seq(Nested[k])
            BY <3>4, <4>1, Zenon
          <6>2. Len(task.types) \in {1, 2}
            BY <2>0, <3>4, Zenon
          <6>3. task.next \in 1..Len(task.types)
            <7>1. \A m \in {1, 2} : 1 \in 1..m
              OBVIOUS
            <7> QED
              BY <2>0, <3>4, <7>1, Zenon
          <6>4. task.rounds \in Nat
            BY <3>1, <3>4, Zenon
          <6> QED
            BY <6>1, <6>2, <6>3, <6>4
        <5>2. task.kind # "type" /\ task.next = 1
          BY <3>4
        <5> QED
          BY <4>1, <5>1, <5>2, Zenon DEF TaskWithin
      <4> QED
        BY <4>2 DEF k
    <3>6. LeftOf(task) = n * Len(t.args)
      BY <2>0, <3>1, <3>4 DEF LeftOf
    <3>7. TaskEnds(Printed, task, l - 1, pos + 1) = Printed[l][t][pos]
      <4>1. TaskEnds(Printed, task, l - 1, pos + 1)
              = InTurn(ends, t.args, n * Len(t.args))[pos + 1]
        BY <1>1, <3>4, <3>6 DEF TaskEnds
      <4> HIDE DEF ends
      <4> QED
        BY <2>1, <3>1, <4>1
    <3> QED
      BY <1>1, <1>2, <3>2, <3>3, <3>5, <3>7, OnwardWith
  <2> QED
    BY <2>3, <2>4
<1>8. CASE t.ctor \in {"tuple1", "tuple2", "tuple3"}
  <2> DEFINE n == Len(t.args)
             tasks == LastTasks(t.args, n)
  <2>1. Printed[l][t][pos] = InTurn(ends, t.args, n)[pos]
    BY <1>1, <1>8, PrintedValue
  <2>2. Proceed(rest, pos, tasks)
    <3>1. DOMAIN t.args = 1..n
      BY <1>1
    <3> QED
      BY <1>8, <3>1, CheckedBy DEF LastTasks
  <2>3. Through(InTurn(ends, t.args, n), {pos}) = InTurn(ends, t.args, n)[pos]
    BY DEF Through
  <2>4. Reaches(Printed, rest, Through(InTurn(ends, t.args, n), {pos}), Q)
    BY <2>1, <2>3
  <2>5. n \in 0..n /\ {pos} \in SUBSET Nat
    BY <1>1
  <2>6. rest \o tasks \in Seq(Task) /\ Reaches(Printed, rest \o tasks, {pos}, Q)
    BY <1>1, <2>4, <2>5, TupleTasks
  <2> HIDE DEF tasks
  <2> QED
    BY <2>2, <2>6 DEF Proceed, Outcome
<1> QED
  BY <1>5, <1>6, <1>7, <1>8 DEF Generic

LEMMA TypeChecked ==
  ASSUME input \in Seq(Byte), pos \in Nat, NEW l \in 0..MaxNesting, NEW t \in Nested[l],
         l = MaxNesting => t.ctor # "any", NEW rest \in Seq(Task), NEW Q,
         Reaches(Printed, rest, Printed[l][t][pos], Q), Check(t, rest)
  PROVE  Outcome(Q)
<1>1. t.ctor \in Basic \cup Generic \cup {"bytearray"} /\ t.length \in Nat
  BY NestedInside
<1>2. CASE t.ctor = "any"
  <2>1. Printed[l][t][pos] = {}
    BY <1>2, PrintedValue
  <2>2. Invalid
    BY <1>2, CheckedBy
  <2> QED
    BY <2>1, <2>2, Failed
<1>3. CASE t.ctor \in Plain
  <2>1. Printed[l][t][pos] = Decoded(t.ctor, pos)
    BY <1>3, PrintedValue
  <2>2. IF Decoded(t.ctor, pos) = {} THEN Invalid
        ELSE \E p \in Decoded(t.ctor, pos) : Proceed(rest, p, <<>>)
    BY <1>3, CheckedBy
  <2>3. CASE Decoded(t.ctor, pos) = {}
    BY <2>1, <2>2, <2>3, Failed
  <2>4. CASE Decoded(t.ctor, pos) # {}
    <3>1. PICK p \in Decoded(t.ctor, pos) : Proceed(rest, p, <<>>)
      BY <2>2, <2>4
    <3>2. t.ctor \in Basic
      BY <1>3, Constructors
    <3>3. p \in Nat /\ Decoded(t.ctor, pos) = {p}
      BY <3>2, DecodedInNat, DecodedOnce
    <3> QED
      BY <2>1, <3>1, <3>3, Onward
  <2> QED
    BY <2>3, <2>4
<1>4. CASE t.ctor = "bytearray"
  <2>1. Printed[l][t][pos] = {pos + t.length} \cap 0..Len(input)
    BY <1>4, PrintedValue
  <2>2. IF pos + t.length > Len(input) THEN Invalid ELSE Proceed(rest, pos + t.length, <<>>)
    BY <1>4, CheckedBy
  <2>3. CASE pos + t.length > Len(input)
    <3>1. Printed[l][t][pos] = {}
      BY <1>1, <2>1, <2>3
    <3> QED
      BY <2>2, <2>3, <3>1, Failed
  <2>4. CASE ~(pos + t.length > Len(input))
    <3>1. Printed[l][t][pos] = {pos + t.length} /\ pos + t.length \in Nat
      BY <1>1, <2>1, <2>4
    <3> QED
      BY <2>2, <2>4, <3>1, Onward
  <2> QED
    BY <2>3, <2>4
<1>5. CASE t.ctor \in Generic
  BY <1>5, AppliedChecked
<1> QED
  BY <1>1, <1>2, <1>3, <1>4, <1>5, Constructors

LEMMA TwoAppended ==
  ASSUME NEW S, NEW s \in Seq(S), NEW a \in S, NEW b \in S
  PROVE  s \o <<a, b>> = Append(s, a) \o <<b>>
OBVIOUS

\* A turn of the loop keeps what the stack reaches, or fails where nothing is reached.
LEMMA TurnChecked ==
  ASSUME input \in Seq(Byte), pos \in Nat, stack \in Seq(Task), NEW Q,
         Reaches(Printed, stack, {pos}, Q), CheckNext
  PROVE  Outcome(Q)
<1> DEFINE task == Last(stack)
           rest == Front(stack)
<1>1. stack # <<>>
  BY DEF CheckNext
<1>2. PICK l \in 0..MaxNesting :
        /\ TaskWithin(task, l)
        /\ Reaches(Printed, rest, EndsFrom(Printed, task, l, {pos}), Q)
  BY <1>1, TaskTaken
<1>3. rest \in Seq(Task) /\ task \in Task
  BY <1>1, TaskTaken
<1>4. \/ task.kind = "type" /\ Check(task.types[1], rest)
      \/ /\ task.kind = "repeat" /\ task.rounds > 0
         /\ Proceed(rest, pos, <<Advanced(task), TypeTask(task.types[task.next])>>)
      \/ /\ task.kind = "repeat" /\ task.rounds = 0
         /\ Proceed(rest, pos, <<>>)
  BY DEF CheckNext
<1> HIDE DEF task, rest
<1>5. Reaches(Printed, rest, TaskEnds(Printed, task, l, pos), Q)
  <2>1. EndsFrom(Printed, task, l, {pos}) = TaskEnds(Printed, task, l, pos)
    BY DEF EndsFrom
  <2> QED
    BY <1>2, <2>1
<1>6. CASE task.kind = "type" /\ Check(task.types[1], rest)
  <2>1. /\ task.types[1] \in Nested[l] /\ (l = MaxNesting => task.types[1].ctor # "any")
        /\ TaskEnds(Printed, task, l, pos) = Printed[l][task.types[1]][pos]
    BY <1>2, <1>6 DEF TaskWithin, TaskEnds
  <2> QED
    BY <1>3, <1>5, <1>6, <2>1, TypeChecked
<1>7. CASE /\ task.kind = "repeat" /\ task.rounds > 0
           /\ Proceed(rest, pos, <<Advanced(task), TypeTask(task.types[task.next])>>)
  <2> DEFINE a == Advanced(task)
             t == task.types[task.next]
             P == Printed[l][t][pos]
  <2>1. /\ a \in Task /\ TaskWithin(a, l) /\ t \in Nested[l]
        /\ TaskEnds(Printed, task, l, pos) = EndsFrom(Printed, a, l, P)
    BY <1>2, <1>3, <1>7, RepeatTasks
  <2>2. l # MaxNesting
    BY <1>2, <1>7 DEF TaskWithin
  <2>3. /\ TypeTask(t) \in Task /\ TaskWithin(TypeTask(t), l)
        /\ TaskEnds(Printed, TypeTask(t), l, pos) = P
    BY <2>1, <2>2, TypeTasks
  <2> HIDE DEF a, t, P
  <2>4. Append(rest, a) \in Seq(Task) /\ Reaches(Printed, Append(rest, a), P, Q)
    BY <1>3, <1>5, <2>1, TaskAdded
  <2>5. rest \o <<a, TypeTask(t)>> = Append(rest, a) \o <<TypeTask(t)>>
    BY <1>3, <2>1, <2>3, TwoAppended
  <2>6. Proceed(Append(rest, a), pos, <<TypeTask(t)>>)
    BY <1>7, <2>5 DEF Proceed, a, t
  <2> QED
    BY <2>3, <2>4, <2>6, OnwardWith
<1>8. CASE /\ task.kind = "repeat" /\ task.rounds = 0
           /\ Proceed(rest, pos, <<>>)
  <2>1. TaskEnds(Printed, task, l, pos) = {pos}
    BY <1>2, <1>3, <1>8, RepeatTasks
  <2> QED
    BY <1>3, <1>5, <1>8, <2>1, Onward
<1> QED
  BY <1>4, <1>6, <1>7, <1>8

-----------------------------------------------------------------------------
(***************************************************************************)
(* The validator and the printer agree.                                    *)
(***************************************************************************)

\* While the bytes stay, what is printed stays.
LEMMA PrintedStays ==
  ASSUME UNCHANGED input
  PROVE  Printed' = Printed
<1>1. \A inner, left : FormatValue(inner, left)' = FormatValue(inner, left)
  BY DEF FormatValue, Decoded
<1> QED
  BY <1>1 DEF Printed

LEMMA DecodedWhole ==
  ASSUME NEW b \in Basic, NEW p \in Nat, NEW e \in Encoding[b], input \in Seq(Byte),
         SubSeq(input, p + 1, Len(input)) = e
  PROVE  Decoded(b, p) = {p + Len(e)}
<1>1. Len(e) \in Nat
  BY ValueAssumption
<1>2. IsPrefix(e, e)
  BY <1>1 DEF IsPrefix
<1>3. p + Len(e) \in Decoded(b, p)
  BY <1>2 DEF Decoded
<1> QED
  BY <1>3, DecodedOnce

\* The bytes of a value that there is.
SomeOf(e) == <<1>> \o e

\* The bytes are those of a text for type t.
OfText(t) ==
  \/ ~RequiresHex(t) /\ input \in Encoding[t.ctor]
  \/ t.ctor = "option" /\ input = <<0>>
  \/ /\ t.ctor = "option" /\ ~RequiresHex(t.args[1])
     /\ \E e \in Encoding[t.args[1].ctor] : input = SomeOf(e)

\* The bytes of a text are printed to the last.
LEMMA TextPrinted ==
  \A t \in Nested[MaxNesting] : OfText(t) => Printable(t)
<1> SUFFICES ASSUME NEW t \in Nested[MaxNesting], OfText(t)
             PROVE  Printed[MaxNesting][t][0] = {Len(input)}
  BY DEF Printable
<1>1. MaxNesting \in 0..MaxNesting /\ 0 \in Nat
  BY TypeAssumption
<1>2. CASE ~RequiresHex(t) /\ input \in Encoding[t.ctor]
  <2>1. t.ctor \in Plain /\ t.ctor \in Basic
    BY <1>2, Constructors DEF RequiresHex
  <2>2. input \in Seq(Byte)
    BY <1>2, <2>1, ValueAssumption
  <2>3. SubSeq(input, 0 + 1, Len(input)) = input /\ Len(input) \in Nat
    BY <2>2
  <2>4. Decoded(t.ctor, 0) = {0 + Len(input)}
    BY <1>2, <2>1, <2>2, <2>3, DecodedWhole
  <2> QED
    BY <1>1, <2>1, <2>3, <2>4, PrintedValue
<1>3. CASE t.ctor = "option" /\ input = <<0>>
  <2>1. Printed[MaxNesting][t][0] =
          UNION {IF b = 0 THEN {0 + 1} ELSE Inner(MaxNesting)[t.args[1]][0 + 1] :
                   b \in ByteAt(0) \cap {0, 1}}
    BY <1>1, <1>3, PrintedValue
  <2>2. ByteAt(0) \cap {0, 1} = {0} /\ Len(input) = 1
    BY <1>3 DEF ByteAt
  <2> QED
    BY <2>1, <2>2
<1>4. ASSUME t.ctor = "option", ~RequiresHex(t.args[1]),
             NEW e \in Encoding[t.args[1].ctor], input = SomeOf(e)
      PROVE  Printed[MaxNesting][t][0] = {Len(input)}
  <2> DEFINE u == t.args[1]
             l == MaxNesting - 1
  <2>1. u.ctor \in Plain /\ u.ctor \in Basic
    BY <1>4, Constructors DEF RequiresHex
  <2>2. l \in 0..MaxNesting /\ u \in Nested[l] /\ Inner(MaxNesting) = Printed[l]
    BY <1>1, <1>4, InnerTypes DEF Generic
  <2>3. e \in Seq(Byte) /\ 1 \in Byte
    BY <2>1, ValueAssumption
  <2>4. /\ input \in Seq(Byte) /\ Len(input) = 1 + Len(e) /\ Len(e) \in Nat
        /\ input[1] = 1 /\ \A i \in 1..Len(e) : input[i + 1] = e[i]
    BY <1>4, <2>3 DEF SomeOf
  <2>5. SubSeq(input, 1 + 1, Len(input)) = e
    <3>1. /\ SubSeq(input, 1 + 1, Len(input)) \in Seq(Byte)
          /\ Len(SubSeq(input, 1 + 1, Len(input))) = Len(e)
          /\ \A i \in 1..Len(e) : SubSeq(input, 1 + 1, Len(input))[i] = e[i]
      BY <2>4
    <3> QED
      BY <2>3, <3>1, SeqEqual
  <2>6. Decoded(u.ctor, 1) = {Len(input)}
    <3>1. Decoded(u.ctor, 1) = {1 + Len(e)}
      BY <1>4, <2>1, <2>4, <2>5, DecodedWhole
    <3> QED
      BY <2>4, <3>1
  <2>7. Printed[l][u][1] = Decoded(u.ctor, 1)
    BY <2>1, <2>2, PrintedValue
  <2>8. Printed[MaxNesting][t][0] =
          UNION {IF b = 0 THEN {0 + 1} ELSE Inner(MaxNesting)[u][0 + 1] :
                   b \in ByteAt(0) \cap {0, 1}}
    BY <1>1, <1>4, PrintedValue
  <2>9. ByteAt(0) \cap {0, 1} = {1} /\ 0 + 1 = 1
    BY <2>4 DEF ByteAt
  <2>10. Inner(MaxNesting)[u][0 + 1] = {Len(input)}
    BY <2>2, <2>6, <2>7
  <2> HIDE DEF u, l
  <2> QED
    BY <2>8, <2>9, <2>10
<1> QED
  BY <1>2, <1>3, <1>4 DEF OfText

LEMMA AnyPrinted ==
  \A t \in Nested[MaxNesting] : t.ctor = "any" => Printable(t)
BY PrintedValue, TypeAssumption DEF Printable

\* At first, the stack holds the type of the whole value.
LEMMA TypeReaches ==
  ASSUME NEW ends, NEW t \in Nested[MaxNesting], t.ctor # "any"
  PROVE  /\ <<TypeTask(t)>> \in Seq(Task)
         /\ Reaches(ends, <<TypeTask(t)>>, {0}, ends[MaxNesting][t][0])
<1> DEFINE x == TypeTask(t)
           Q == ends[MaxNesting][t][0]
<1>1. MaxNesting \in 0..MaxNesting
  BY TypeAssumption
<1>2. /\ x \in Task /\ TaskWithin(x, MaxNesting)
      /\ TaskEnds(ends, x, MaxNesting, 0) = Q
  BY <1>1, TypeTasks
<1> HIDE DEF x, Q
<1>3. EndsFrom(ends, x, MaxNesting, {0}) = Q
  BY <1>2 DEF EndsFrom
<1>4. Reaches(ends, <<>>, EndsFrom(ends, x, MaxNesting, {0}), Q)
  BY <1>3, EmptyReaches
<1>5. <<>> \in Seq(Task) /\ Append(<<>>, x) = <<x>>
  BY <1>2
<1>6. Append(<<>>, x) \in Seq(Task) /\ Reaches(ends, Append(<<>>, x), {0}, Q)
  BY <1>2, <1>4, <1>5, TaskAdded
<1> QED
  BY <1>5, <1>6 DEF x, Q

LEMMA BytesAreSequences == Bytes \subseteq Seq(Byte)
BY ValueAssumption DEF Bytes, BoundedSeq, SeqOf

\* While the validator checks, its stack leads from the cursor to the ends that the printer
\* finds for the whole value.
CheckInv ==
  /\ verdict = "none" => pos = 0
  /\ verdict = "checking" =>
       /\ type \in Nested[MaxNesting] /\ input \in Seq(Byte)
       /\ pos \in Nat /\ stack \in Seq(Task)
       /\ Reaches(Printed, stack, {pos}, Printed[MaxNesting][type][0])
  /\ CheckersAgree

LEMMA CheckStays ==
  ASSUME CheckInv, UNCHANGED valueVars
  PROVE  CheckInv'
<1>1. /\ Printed' = Printed /\ UNCHANGED <<type, input, pos, stack, verdict>>
  BY PrintedStays DEF valueVars
<1> QED
  BY <1>1 DEF CheckInv, CheckersAgree, Printable

LEMMA NextKeeps ==
  ASSUME CheckInv, CheckNext
  PROVE  CheckInv'
<1> DEFINE Q == Printed[MaxNesting][type][0]
<1>1. verdict = "checking" /\ UNCHANGED <<type, input>>
  BY DEF CheckNext
<1>2. Printed' = Printed
  BY <1>1, PrintedStays
<1>3. /\ type \in Nested[MaxNesting] /\ input \in Seq(Byte)
      /\ pos \in Nat /\ stack \in Seq(Task) /\ Reaches(Printed, stack, {pos}, Q)
  BY <1>1 DEF CheckInv
<1>4. Outcome(Q)
  BY <1>3, TurnChecked
<1>5. CASE /\ UNCHANGED verdict
           /\ pos' \in Nat /\ stack' \in Seq(Task)
           /\ Reaches(Printed, stack', {pos'}, Q)
  BY <1>1, <1>2, <1>3, <1>5 DEF CheckInv, CheckersAgree
<1>6. CASE verdict' = "invalid" /\ Q = {}
  BY <1>1, <1>2, <1>6 DEF CheckInv, CheckersAgree, Printable
<1> QED
  BY <1>4, <1>5, <1>6 DEF Outcome

LEMMA EndKeeps ==
  ASSUME CheckInv, CheckEnd
  PROVE  CheckInv'
<1>1. /\ verdict = "checking" /\ stack = <<>> /\ UNCHANGED <<type, input, pos, stack>>
      /\ verdict' = IF pos = Len(input) THEN "valid" ELSE "invalid"
  BY DEF CheckEnd
<1>2. Printed' = Printed
  BY <1>1, PrintedStays
<1>3. Printed[MaxNesting][type][0] = {pos}
  BY <1>1, EmptyReaches DEF CheckInv
<1> QED
  BY <1>1, <1>2, <1>3 DEF CheckInv, CheckersAgree, Printable

\* For any basic types, any encodings of which none begins with another, any limit of
\* nesting and any bytes, what the validator takes with its stack the printer prints by
\* recursion to the last byte, and what it refuses the printer cannot print.
THEOREM CheckersMatch == Spec => []CheckersAgree
<1>1. Spec => TypeSpec
  <2>1. Init => TypeInit
    BY DEF Init
  <2>2. [Next]_vars => [TypeNext]_typeVars
    BY DEF Next, ParseType, ParseValue, vars
  <2> QED
    BY <2>1, <2>2, PTL DEF Spec, TypeSpec
<1>2. Init => Levelled(frames) /\ CheckInv
  <2> SUFFICES ASSUME Init
               PROVE  Levelled(frames) /\ CheckInv
    OBVIOUS
  <2>1. Levelled(frames)
    <3>1. frames = <<Frame("root")>> /\ Frame("root").args = <<>>
      BY DEF Init, TypeInit, Frame
    <3>2. Len(frames) = 1 /\ \A i \in 1..Len(frames) : frames[i].args = <<>>
      <4> DEFINE f == Frame("root")
      <4> HIDE DEF f
      <4>1. frames = <<f>> /\ f.args = <<>>
        BY <3>1 DEF f
      <4> QED
        BY <4>1
    <3>3. ASSUME NEW i \in 1..Len(frames)
          PROVE  frames[i].args \in Seq(Nested[MaxNesting + 1 - i])
      <4>1. <<>> \in Seq(Nested[MaxNesting + 1 - i])
        OBVIOUS
      <4> QED
        BY <3>2, <4>1
    <3> QED
      BY <3>2, <3>3, TypeAssumption DEF Levelled
  <2>2. CheckInv
    BY DEF Init, ValueInit, CheckInv, CheckersAgree
  <2> QED
    BY <2>1, <2>2
<1>3. (\A t \in Nested[MaxNesting] : OfText(t) \/ t.ctor = "any" => Printable(t))'
  <2>1. \A t \in Nested[MaxNesting] : OfText(t) \/ t.ctor = "any" => Printable(t)
    BY TextPrinted, AnyPrinted
  <2> QED
    BY <2>1, PTL
<1>4. StackInv /\ Levelled(frames) /\ CheckInv /\ [Next]_vars =>
        Levelled(frames)' /\ CheckInv'
  <2> SUFFICES ASSUME StackInv, Levelled(frames), CheckInv, [Next]_vars
               PROVE  Levelled(frames)' /\ CheckInv'
    OBVIOUS
  <2>1. CASE ParseType \/ UNCHANGED vars
    <3>1. [TypeNext]_typeVars /\ UNCHANGED valueVars
      BY <2>1 DEF ParseType, vars
    <3> QED
      BY <3>1, TurnLevelled, CheckStays
  <2>2. CASE ParseValue
    <3>1. UNCHANGED typeVars
      BY <2>2 DEF ParseValue
    <3>2. Levelled(frames)'
      BY <3>1, TurnLevelled
    <3>3. CASE verdict = "none" /\ (GiveText(Parsed) \/ GiveHex(Parsed))
      <4>1. PICK t : t = Parsed /\ t \in Nested[MaxNesting]
        BY <2>2, ParsedIsNested DEF ParseValue
      <4>2. CASE GiveText(t)
        <5>1. verdict' = "valid" /\ type' = t /\ OfText(t)'
          BY <4>2 DEF GiveText, Given, OfText, SomeOf, RequiresHex
        <5>2. Printable(t)'
          BY <1>3, <4>1, <5>1
        <5> QED
          BY <3>2, <5>1, <5>2 DEF CheckInv, CheckersAgree, Printable
      <4>3. CASE GiveHex(t) /\ t.ctor = "any"
        <5>1. verdict' = "valid" /\ type' = t
          BY <4>3 DEF GiveHex, Given
        <5>2. Printable(t)'
          BY <1>3, <4>1, <4>3
        <5> QED
          BY <3>2, <5>1, <5>2 DEF CheckInv, CheckersAgree, Printable
      <4>4. CASE GiveHex(t) /\ t.ctor # "any"
        <5>1. /\ verdict' = "checking" /\ type' = t /\ input' \in Bytes
              /\ stack' = <<TypeTask(t)>> /\ pos' = 0
          BY <3>3, <4>4 DEF GiveHex, Given, CheckInv
        <5>2. input' \in Seq(Byte)
          BY <5>1, BytesAreSequences
        <5>3. /\ stack' \in Seq(Task)
              /\ Reaches(Printed', stack', {pos'}, Printed'[MaxNesting][type'][0])
          BY <4>1, <4>4, <5>1, TypeReaches
        <5> QED
          BY <3>2, <4>1, <5>1, <5>2, <5>3 DEF CheckInv, CheckersAgree
      <4> QED
        BY <3>3, <4>1, <4>2, <4>3, <4>4
    <3> QED
      BY <2>2, <3>2, <3>3, NextKeeps, EndKeeps DEF ParseValue
  <2> QED
    BY <2>1, <2>2 DEF Next
<1>5. CheckInv => CheckersAgree
  BY DEF CheckInv
<1> QED
  BY <1>1, <1>2, <1>4, <1>5, StackInvariant, PTL DEF Spec
===============================================================================

----------------------------- MODULE ClTypeProofs -----------------------------
(***************************************************************************)
(* Theorems about ClType, for any names, any depth and texts of any        *)
(* length.                                                                 *)
(***************************************************************************)
EXTENDS ClType, SequenceTheorems, WellFoundedInduction, TLAPS

\* The frames with arguments in S, which grows as types are read.
FrameOf(S) ==
  [kind : Generic \cup {"root", "tuple"}, args : S, expecting : BOOLEAN, comma : BOOLEAN]

\* The root is below all, every frame but the last waits for a type, and the root
\* has none as long as it waits and a single one afterwards.
Stack(fs) ==
  /\ \E S : fs \in Seq(FrameOf(S))
  /\ fs # <<>>
  /\ \A i \in DOMAIN fs : fs[i].kind = "root" <=> i = 1
  /\ \A i \in DOMAIN fs : i < Len(fs) => fs[i].expecting
  /\ fs[1].expecting => fs[1].args = <<>>
  /\ ~fs[1].expecting => \E t : fs[1].args = <<t>>

\* A generic type is only pending where a type is awaited.
StackInv ==
  /\ Stack(frames)
  /\ Len(frames) <= MaxNesting + 1
  /\ pending \in Generic \cup {"bytearray", "none"}
  /\ pending # "none" => Top.expecting
  /\ status = "accepted" => Len(frames) = 1 /\ ~Top.expecting

-----------------------------------------------------------------------------
(***************************************************************************)
(* What push_type, PushFrame and a comma make of a stack.                  *)
(***************************************************************************)

\* Frames with the same fields are the same.
LEMMA SameFrame ==
  ASSUME NEW S, NEW f \in FrameOf(S), NEW g \in FrameOf(S),
         f.kind = g.kind, f.args = g.args, f.expecting = g.expecting, f.comma = g.comma
  PROVE  f = g
BY DEF FrameOf

\* Replacing the last frame by one that differs in its arguments and flags.
LEMMA LastReplaced ==
  ASSUME NEW S, NEW fs \in Seq(FrameOf(S)), fs # <<>>, NEW f \in FrameOf(S)
  PROVE  LET gs == [fs EXCEPT ![Len(fs)] = f] IN
         /\ gs \in Seq(FrameOf(S)) /\ gs # <<>> /\ Len(gs) = Len(fs)
         /\ gs[Len(fs)] = f
         /\ \A i \in 1..(Len(fs) - 1) : gs[i] = fs[i]
<1>1. Len(fs) \in 1..Len(fs)
  OBVIOUS
<1> QED
  BY <1>1, ExceptSeq

WithType(fs, type) ==
  [fs EXCEPT ![Len(fs)].args = Append(@, type), ![Len(fs)].expecting = FALSE]

\* push_type adds a type to a frame that waits for one.
LEMMA TypePushed ==
  ASSUME NEW fs, Stack(fs), Last(fs).expecting, NEW type
  PROVE  LET gs == WithType(fs, type) IN
         /\ Stack(gs) /\ Len(gs) = Len(fs)
         /\ gs[Len(fs)].args = Append(fs[Len(fs)].args, type)
         /\ gs[Len(fs)].kind = fs[Len(fs)].kind
         /\ ~gs[Len(fs)].expecting /\ gs[Len(fs)].comma = fs[Len(fs)].comma
         /\ \A i \in 1..(Len(fs) - 1) : gs[i] = fs[i]
<1>1. PICK R : fs \in Seq(FrameOf(R))
  BY DEF Stack
<1> DEFINE n  == Len(fs)
           g  == fs[n]
           S  == R \cup {Append(g.args, type)}
           f  == [kind |-> g.kind, args |-> Append(g.args, type),
                  expecting |-> FALSE, comma |-> g.comma]
           gs == [fs EXCEPT ![n] = f]
<1>2. n \in Nat /\ n >= 1 /\ g \in FrameOf(R) /\ DOMAIN fs = 1..n
  BY <1>1 DEF Stack
<1>3. fs \in Seq(FrameOf(S)) /\ f \in FrameOf(S)
  <2>1. f \in FrameOf(S)
    BY <1>2 DEF FrameOf
  <2>2. FrameOf(R) \subseteq FrameOf(S)
    BY DEF FrameOf
  <2> QED
    BY <1>1, <2>1, <2>2, SeqMonotonic
<1>4. WithType(fs, type) = gs
  <2>1. [[g EXCEPT !.args = Append(@, type)] EXCEPT !.expecting = FALSE] = f
    <3> DEFINE h == [g EXCEPT !.args = Append(@, type)]
    <3>1. /\ h \in FrameOf(S) /\ h.args = Append(g.args, type)
          /\ h.kind = g.kind /\ h.comma = g.comma
      BY <1>2 DEF FrameOf
    <3> HIDE DEF h
    <3> DEFINE k == [h EXCEPT !.expecting = FALSE]
    <3>2. /\ k \in FrameOf(S) /\ k.args = h.args /\ k.kind = h.kind
          /\ k.expecting = FALSE /\ k.comma = h.comma
      BY <3>1 DEF FrameOf
    <3> HIDE DEF k
    <3>3. k = f
      BY ZenonT(30), <1>3, <3>1, <3>2, SameFrame
    <3> QED
      BY <3>3 DEF h, k
  <2> QED
    BY <1>1, <1>2, <2>1 DEF WithType
<1>5. /\ gs \in Seq(FrameOf(S)) /\ gs # <<>> /\ Len(gs) = n
      /\ gs[n] = f
      /\ \A i \in 1..(n - 1) : gs[i] = fs[i]
  BY <1>2, <1>3, LastReplaced DEF Stack
<1>6. DOMAIN gs = 1..n
  BY <1>5
<1>7. f.kind = g.kind /\ ~f.expecting /\ f.args = Append(g.args, type) /\ f.comma = g.comma
  OBVIOUS
<1>8. g.expecting
  BY DEF Last
<1> HIDE DEF f, gs, S
<1>9. Stack(gs)
  <2>1. /\ \A i \in 1..n : gs[i].kind = fs[i].kind
        /\ \A i \in 1..(n - 1) : gs[i].expecting = fs[i].expecting
    BY <1>2, <1>5, <1>7
  <2>2. CASE n = 1
    <3>1. gs[1] = f /\ g.args = <<>>
      BY <1>2, <1>5, <1>8, <2>2 DEF Stack
    <3>2. Append(<<>>, type) = <<type>>
      OBVIOUS
    <3>3. ~gs[1].expecting /\ gs[1].args = <<type>>
      BY <1>7, <3>1, <3>2
    <3> QED
      BY <1>2, <1>5, <1>6, <2>1, <3>3 DEF Stack
  <2>3. CASE n # 1
    <3>1. gs[1] = fs[1]
      BY <1>2, <1>5, <2>3
    <3> QED
      BY <1>2, <1>5, <1>6, <2>1, <3>1 DEF Stack
  <2> QED
    BY <2>2, <2>3
<1>10. /\ gs[n].args = Append(g.args, type) /\ gs[n].kind = g.kind
       /\ ~gs[n].expecting /\ gs[n].comma = g.comma
  BY <1>5, <1>7
<1> QED
  BY <1>4, <1>5, <1>9, <1>10

\* A frame is opened above one that waits for a type.
LEMMA FramePushed ==
  ASSUME NEW fs, Stack(fs), Last(fs).expecting, NEW kind \in Generic \cup {"tuple"}
  PROVE  LET gs == Append(fs, Frame(kind)) IN
         /\ Stack(gs) /\ Len(gs) = Len(fs) + 1
         /\ gs[Len(fs) + 1] = Frame(kind)
         /\ gs[Len(fs) + 1].args = <<>>
         /\ \A i \in 1..Len(fs) : gs[i] = fs[i]
<1>1. PICK R : fs \in Seq(FrameOf(R))
  BY DEF Stack
<1> DEFINE n  == Len(fs)
           S  == R \cup {<<>>}
           f  == Frame(kind)
           gs == Append(fs, f)
<1>2. n \in Nat /\ n >= 1 /\ DOMAIN fs = 1..n /\ fs[n].expecting
  BY <1>1 DEF Stack, Last
<1>3. fs \in Seq(FrameOf(S)) /\ f \in FrameOf(S)
  <2>1. f \in FrameOf(S)
    BY DEF FrameOf, Frame
  <2>2. FrameOf(R) \subseteq FrameOf(S)
    BY DEF FrameOf
  <2> QED
    BY <1>1, <2>1, <2>2, SeqMonotonic
<1>4. /\ gs \in Seq(FrameOf(S)) /\ gs # <<>> /\ Len(gs) = n + 1
      /\ \A i \in 1..n : gs[i] = fs[i]
      /\ gs[n + 1] = f
  BY <1>3, AppendProperties
<1>5. DOMAIN gs = 1..(n + 1)
  BY <1>4
<1>6. f.kind # "root" /\ f.expecting /\ f.args = <<>>
  BY DEF Frame, Generic
<1> HIDE DEF f, gs, S
<1>7. Stack(gs)
  <2>1. gs[1] = fs[1]
    BY <1>2, <1>4
  <2>2. \A i \in 1..(n + 1) : gs[i].kind = "root" <=> i = 1
    <3>1. \A i \in 1..n : gs[i].kind = "root" <=> i = 1
      BY <1>2, <1>4 DEF Stack
    <3> QED
      BY <1>2, <1>4, <1>6, <3>1
  <2>3. \A i \in 1..(n + 1) : i < n + 1 => gs[i].expecting
    BY <1>2, <1>4 DEF Stack
  <2> QED
    BY <1>2, <1>4, <1>5, <2>1, <2>2, <2>3 DEF Stack
<1>8. gs[n + 1].args = <<>>
  BY <1>4, <1>6
<1> QED
  BY <1>4, <1>7, <1>8 DEF gs, f

WithComma(fs) == [fs EXCEPT ![Len(fs)].expecting = TRUE, ![Len(fs)].comma = TRUE]

\* A comma lets a frame wait for another type, but never the root.
LEMMA CommaTaken ==
  ASSUME NEW fs, Stack(fs), Last(fs).kind # "root"
  PROVE  LET gs == WithComma(fs) IN
         /\ Stack(gs) /\ Len(gs) = Len(fs)
         /\ \A i \in 1..Len(fs) : gs[i].args = fs[i].args
         /\ \A i \in 1..(Len(fs) - 1) : gs[i] = fs[i]
         /\ gs[Len(fs)].kind = fs[Len(fs)].kind
         /\ gs[Len(fs)].expecting /\ gs[Len(fs)].comma
<1>1. PICK S : fs \in Seq(FrameOf(S))
  BY DEF Stack
<1> DEFINE n  == Len(fs)
           g  == fs[n]
           f  == [kind |-> g.kind, args |-> g.args, expecting |-> TRUE, comma |-> TRUE]
           gs == [fs EXCEPT ![n] = f]
<1>2. n \in Nat /\ n >= 1 /\ g \in FrameOf(S) /\ DOMAIN fs = 1..n
  BY <1>1 DEF Stack
<1>3. f \in FrameOf(S)
  BY <1>2 DEF FrameOf
<1>4. WithComma(fs) = gs
  <2>1. [[g EXCEPT !.expecting = TRUE] EXCEPT !.comma = TRUE] = f
    <3> DEFINE h == [g EXCEPT !.expecting = TRUE]
    <3>1. h \in FrameOf(S) /\ h.args = g.args /\ h.kind = g.kind /\ h.expecting = TRUE
      BY <1>2 DEF FrameOf
    <3> HIDE DEF h
    <3> DEFINE k == [h EXCEPT !.comma = TRUE]
    <3>2. /\ k \in FrameOf(S) /\ k.args = h.args /\ k.kind = h.kind
          /\ k.expecting = h.expecting /\ k.comma = TRUE
      BY <3>1 DEF FrameOf
    <3> HIDE DEF k
    <3>3. k = f
      BY <1>3, <3>1, <3>2, SameFrame
    <3> QED
      BY <3>3 DEF h, k
  <2> QED
    BY <1>1, <1>2, <2>1 DEF WithComma
<1> HIDE DEF f
<1>5. /\ gs \in Seq(FrameOf(S)) /\ gs # <<>> /\ Len(gs) = n
      /\ gs[n] = f
      /\ \A i \in 1..(n - 1) : gs[i] = fs[i]
  BY <1>1, <1>3, LastReplaced DEF Stack
<1>6. DOMAIN gs = 1..n
  BY <1>5
<1>7. f.kind = g.kind /\ f.expecting /\ f.comma /\ f.args = g.args /\ n # 1
  BY <1>2 DEF Stack, Last, f
<1> HIDE DEF gs
<1>8. Stack(gs)
  <2>1. /\ \A i \in 1..n : gs[i].kind = fs[i].kind
        /\ \A i \in 1..(n - 1) : gs[i].expecting = fs[i].expecting
    BY <1>2, <1>5, <1>7
  <2>2. gs[1] = fs[1]
    BY <1>2, <1>5, <1>7
  <2> QED
    BY <1>2, <1>5, <1>6, <2>1, <2>2 DEF Stack
<1>9. /\ \A i \in 1..n : gs[i].args = fs[i].args
      /\ gs[n].kind = g.kind /\ gs[n].expecting /\ gs[n].comma
  BY <1>2, <1>5, <1>7
<1> QED
  BY <1>4, <1>5, <1>8, <1>9

\* Below a frame that is closed there is one that waits for the type.
LEMMA FrameClosed ==
  ASSUME NEW fs, Stack(fs), Last(fs).kind # "root"
  PROVE  /\ Stack(Front(fs)) /\ Len(Front(fs)) = Len(fs) - 1
         /\ Last(Front(fs)).expecting
         /\ \A i \in 1..(Len(fs) - 1) : Front(fs)[i] = fs[i]
<1>1. PICK S : fs \in Seq(FrameOf(S))
  BY DEF Stack
<1> DEFINE n  == Len(fs)
           gs == SubSeq(fs, 1, n - 1)
<1>2. n \in Nat /\ n > 1 /\ DOMAIN fs = 1..n
  BY <1>1 DEF Stack, Last
<1>3. /\ gs \in Seq(FrameOf(S)) /\ Len(gs) = n - 1
      /\ \A i \in 1..(n - 1) : gs[i] = fs[i]
  BY <1>1, <1>2
<1>4. DOMAIN gs = 1..(n - 1) /\ gs # <<>>
  BY <1>2, <1>3
<1> HIDE DEF gs
<1>5. Stack(gs)
  BY <1>2, <1>3, <1>4 DEF Stack
<1>6. gs[n - 1].expecting
  BY <1>2, <1>3 DEF Stack
<1> QED
  BY <1>3, <1>5, <1>6 DEF Front, Last, gs

-----------------------------------------------------------------------------
(***************************************************************************)
(* Every turn of the parser's loop keeps the stack.                        *)
(***************************************************************************)

\* An error and the end leave the stack as it is.
LEMMA Stopped ==
  ASSUME StackInv, NEW reason, reason # "accepted", Stop(reason)
  PROVE  StackInv'
BY DEF StackInv, Stop, Top

LEMMA PushTypeKeeps ==
  ASSUME StackInv, status = "reading", NEW fs, Stack(fs), Len(fs) <= MaxNesting + 1,
         NEW type, PushType(fs, type)
  PROVE  StackInv'
<1>1. CASE Last(fs).expecting
  <2> DEFINE gs == WithType(fs, type)
  <2>1. frames' = gs /\ pending' = "none" /\ status' = status
    BY <1>1 DEF PushType, WithType
  <2>2. Stack(gs) /\ Len(gs) = Len(fs)
    BY <1>1, TypePushed
  <2> HIDE DEF gs
  <2> QED
    BY <2>1, <2>2 DEF StackInv
<1>2. CASE ~Last(fs).expecting
  BY <1>2, Stopped DEF PushType, Reject
<1> QED
  BY <1>1, <1>2

LEMMA PushFrameKeeps ==
  ASSUME StackInv, status = "reading", Top.expecting,
         NEW kind \in Generic \cup {"tuple"}, PushFrame(kind)
  PROVE  StackInv'
<1>1. CASE Room
  <2> DEFINE gs == Append(frames, Frame(kind))
  <2>1. frames' = gs /\ pending' = "none" /\ status' = status
    BY <1>1 DEF PushFrame
  <2>2. Stack(gs) /\ Len(gs) = Len(frames) + 1
    BY FramePushed DEF StackInv, Top
  <2> HIDE DEF gs
  <2>3. Len(frames) \in Nat
    BY DEF StackInv, Stack
  <2>4. Len(gs) <= MaxNesting + 1
    BY <1>1, <2>2, <2>3, TypeAssumption DEF Room
  <2> QED
    BY <2>1, <2>2, <2>4 DEF StackInv
<1>2. CASE ~Room
  BY <1>2, Stopped DEF PushFrame, Reject
<1> QED
  BY <1>1, <1>2

LEMMA CommaKeeps ==
  ASSUME StackInv, ReadComma
  PROVE  StackInv'
<1>1. CASE pending # "none" \/ Top.kind = "root" \/ Top.expecting
  BY <1>1, Stopped DEF ReadComma, Reject
<1>2. CASE ~(pending # "none" \/ Top.kind = "root" \/ Top.expecting)
  <2> DEFINE gs == WithComma(frames)
  <2>1. frames' = gs /\ pending' = pending /\ status' = status /\ status = "reading"
    BY <1>2 DEF ReadComma, Read, WithComma
  <2>2. Stack(gs) /\ Len(gs) = Len(frames)
    BY <1>2, CommaTaken DEF StackInv, Top
  <2> HIDE DEF gs
  <2> QED
    BY <1>2, <2>1, <2>2 DEF StackInv
<1> QED
  BY <1>1, <1>2

LEMMA CloseKeeps ==
  ASSUME StackInv, NEW delimiter \in {">", "]", ")"}, ReadClose(delimiter)
  PROVE  StackInv'
<1> DEFINE closes == /\ pending = "none" /\ Matches(delimiter, Top.kind)
                     /\ Complete(Top) /\ Fits(Top)
<1>1. CASE closes
  <2>1. Last(frames).kind # "root"
    BY <1>1 DEF Matches, Generic, Top
  <2>2. Stack(Front(frames)) /\ Len(Front(frames)) = Len(frames) - 1
    BY <2>1, FrameClosed DEF StackInv
  <2>3. Len(frames) \in Nat
    BY DEF StackInv, Stack
  <2>4. Len(Front(frames)) <= MaxNesting + 1
    BY <2>2, <2>3, TypeAssumption DEF StackInv
  <2>5. PushType(Front(frames), Built(Top)) /\ status = "reading"
    BY <1>1 DEF ReadClose, Read
  <2> QED
    BY <2>2, <2>4, <2>5, PushTypeKeeps
<1>2. CASE ~closes
  BY <1>2, Stopped DEF ReadClose, Reject
<1> QED
  BY <1>1, <1>2

LEMMA StackInvariant == TypeSpec => []StackInv
<1>1. TypeInit => StackInv
  <2> SUFFICES ASSUME TypeInit
               PROVE  StackInv
    OBVIOUS
  <2> DEFINE f == Frame("root")
  <2>1. f \in FrameOf({<<>>}) /\ f.kind = "root" /\ f.expecting /\ f.args = <<>>
    BY DEF Frame, FrameOf
  <2> HIDE DEF f
  <2>2. <<f>> \in Seq(FrameOf({<<>>})) /\ Len(<<f>>) = 1 /\ <<f>>[1] = f /\ <<f>> # <<>>
    BY <2>1
  <2>3. Stack(<<f>>)
    BY <2>1, <2>2 DEF Stack
  <2>4. frames = <<f>> /\ pending = "none" /\ status = "reading"
    BY DEF TypeInit, f
  <2> QED
    BY <2>2, <2>3, <2>4, TypeAssumption DEF StackInv
<1>2. StackInv /\ [TypeNext]_typeVars => StackInv'
  <2> SUFFICES ASSUME StackInv, [TypeNext]_typeVars
               PROVE  StackInv'
    OBVIOUS
  <2>1. ASSUME NEW name \in Name, ReadName(name)
        PROVE  StackInv'
    <3>1. CASE pending # "none" \/ ~Top.expecting
      BY <2>1, <3>1, Stopped DEF ReadName, Reject
    <3>2. CASE /\ ~(pending # "none" \/ ~Top.expecting)
               /\ name \in Generic \cup {"bytearray"}
      BY <2>1, <3>2 DEF ReadName, Read, StackInv, Top
    <3>3. CASE /\ ~(pending # "none" \/ ~Top.expecting)
               /\ name \notin Generic \cup {"bytearray"}
      BY <2>1, <3>3, PushTypeKeeps DEF ReadName, Read, StackInv
    <3> QED
      BY <3>1, <3>2, <3>3
  <2>2. ASSUME NEW n \in DOMAIN Number, ReadNumber(n)
        PROVE  StackInv'
    BY <2>2, Stopped DEF ReadNumber, Reject
  <2>3. ASSUME NEW b \in {"<", "["}, ReadOpen(b)
        PROVE  StackInv'
    <3>1. CASE pending # "none" /\ b = "<"
      BY <2>3, <3>1, PushFrameKeeps DEF ReadOpen, Read, StackInv
    <3>2. CASE ~(pending # "none" /\ b = "<")
      BY <2>3, <3>2, Stopped DEF ReadOpen, Reject
    <3> QED
      BY <3>1, <3>2
  <2>4. ASSUME NEW b \in {"<", "["}, ReadLength(b)
        PROVE  StackInv'
    <3>1. ASSUME NEW n \in DOMAIN Number, PushType(frames, ByteArray(Number[n]))
          PROVE  StackInv'
      BY <2>4, <3>1, PushTypeKeeps DEF ReadLength, Read, StackInv
    <3>2. CASE Reject \/ Stop("incomplete")
      BY <3>2, Stopped DEF Reject
    <3> QED
      BY <2>4, <3>1, <3>2 DEF ReadLength
  <2>5. CASE ReadUnit
    <3>1. CASE pending # "none"
      BY <2>5, <3>1, Stopped DEF ReadUnit, Reject
    <3>2. CASE pending = "none"
      BY <2>5, <3>2, PushTypeKeeps DEF ReadUnit, Read, StackInv
    <3> QED
      BY <3>1, <3>2
  <2>6. CASE OpenTuple
    <3>1. CASE pending # "none" \/ ~Top.expecting
      BY <2>6, <3>1, Stopped DEF OpenTuple, Reject
    <3>2. CASE ~(pending # "none" \/ ~Top.expecting)
      BY <2>6, <3>2, PushFrameKeeps DEF OpenTuple, Read
    <3> QED
      BY <3>1, <3>2
  <2>7. CASE ReadComma
    BY <2>7, CommaKeeps
  <2>8. ASSUME NEW delimiter \in {">", "]", ")"}, ReadClose(delimiter)
        PROVE  StackInv'
    BY <2>8, CloseKeeps
  <2>9. CASE End
    BY <2>9 DEF End, Stop, StackInv, Top
  <2>10. CASE UNCHANGED typeVars
    BY <2>10 DEF typeVars, StackInv, Top
  <2> QED
    BY <2>1, <2>2, <2>3, <2>4, <2>5, <2>6, <2>7, <2>8, <2>9, <2>10 DEF TypeNext
<1> QED
  BY <1>1, <1>2, PTL DEF TypeSpec

-----------------------------------------------------------------------------
(***************************************************************************)
(* The theorem.                                                            *)
(***************************************************************************)

\* Whatever is typed for a type, the parser's stack has one root, at its bottom,
\* and below each open type one that waits for it; it is never deeper than
\* MAX_TYPE_NESTING allows; and an accepted text is a single type (parse_cl_type,
\* close_frame, push_type).
THEOREM ParserStack == TypeSpec => []StackSound
<1>1. StackInv => StackSound
  <2> SUFFICES ASSUME StackInv
               PROVE  StackSound
    OBVIOUS
  <2>1. status = "accepted" => Len(frames[1].args) = 1
    <3> SUFFICES ASSUME status = "accepted"
                 PROVE  Len(frames[1].args) = 1
      OBVIOUS
    <3>1. ~frames[1].expecting
      BY DEF StackInv, Top, Last
    <3>2. PICK t : frames[1].args = <<t>>
      BY <3>1 DEF StackInv, Stack
    <3> QED
      BY <3>2
  <2> QED
    BY <2>1 DEF StackInv, Stack, StackSound
<1> QED
  BY <1>1, StackInvariant, PTL

-----------------------------------------------------------------------------
(***************************************************************************)
(* What is parsed is a type.                                               *)
(***************************************************************************)

\* A set with the basic types and byte arrays, and with every generic type that is
\* applied to as many members as it takes.  CLType is the least of these sets.
Closed(T) ==
  /\ \A name \in Basic : Type(name, <<>>) \in T
  /\ \A n \in Nat : ByteArray(n) \in T
  /\ \A g \in Generic, args \in Seq(T) : Len(args) = Arity(g) => Type(g, args) \in T

\* The frames of a stack have arguments in T only.
Typed(fs, T) == \A i \in 1..Len(fs) : fs[i].args \in Seq(T)

LEMMA NamedIsClosed ==
  ASSUME NEW T, Closed(T)
  PROVE  /\ Named("unit") \in T
         /\ \A name \in Name \ (Generic \cup {"bytearray"}) : Named(name) \in T
BY TypeAssumption DEF Closed, Named, Name

\* build_tuple and build_generic make types of types.
LEMMA BuiltIsClosed ==
  ASSUME NEW T, Closed(T), NEW f, f.args \in Seq(T), Fits(f),
         f.kind \in Generic \cup {"tuple"}
  PROVE  Built(f) \in T
<1>1. CASE f.kind = "tuple"
  <2>1. Len(f.args) = 1 \/ Len(f.args) = 2 \/ Len(f.args) = 3
    BY <1>1 DEF Fits
  <2>2. CASE Len(f.args) = 1
    <3>1. Built(f) = Type("tuple1", f.args)
      BY <1>1, <2>2 DEF Built
    <3> QED
      BY <2>2, <3>1 DEF Closed, Generic, Arity
  <2>3. CASE Len(f.args) = 2
    <3>1. Built(f) = Type("tuple2", f.args)
      BY <1>1, <2>3 DEF Built
    <3> QED
      BY <2>3, <3>1 DEF Closed, Generic, Arity
  <2>4. CASE Len(f.args) = 3
    <3>1. Built(f) = Type("tuple3", f.args)
      BY <1>1, <2>4 DEF Built
    <3> QED
      BY <2>4, <3>1 DEF Closed, Generic, Arity
  <2> QED
    BY <2>1, <2>2, <2>3, <2>4
<1>2. CASE f.kind \in Generic
  <2>1. f.kind # "tuple"
    BY <1>2 DEF Generic
  <2> QED
    BY <1>2, <2>1 DEF Built, Fits, Closed
<1> QED
  BY <1>1, <1>2

LEMMA PushTypeTyped ==
  ASSUME NEW T, NEW type \in T, Typed(frames, T), NEW fs, Stack(fs), Typed(fs, T),
         PushType(fs, type)
  PROVE  Typed(frames, T)'
<1>1. CASE Last(fs).expecting
  <2> DEFINE gs == WithType(fs, type)
  <2>1. frames' = gs
    BY <1>1 DEF PushType, WithType
  <2>2. Len(gs) = Len(fs) /\ gs[Len(fs)].args = Append(fs[Len(fs)].args, type)
    BY <1>1, TypePushed
  <2>3. \A i \in 1..(Len(fs) - 1) : gs[i] = fs[i]
    BY <1>1, TypePushed
  <2> HIDE DEF gs
  <2>4. Len(fs) \in Nat /\ Len(fs) >= 1
    BY DEF Stack
  <2>5. Append(fs[Len(fs)].args, type) \in Seq(T)
    BY <2>4 DEF Typed
  <2>6. \A i \in 1..Len(fs) : gs[i].args \in Seq(T)
    <3> SUFFICES ASSUME NEW i \in 1..Len(fs)
                 PROVE  gs[i].args \in Seq(T)
      OBVIOUS
    <3>1. CASE i = Len(fs)
      BY <2>2, <2>5, <3>1
    <3>2. CASE i # Len(fs)
      <4>1. gs[i] = fs[i]
        BY <2>3, <2>4, <3>2
      <4> QED
        BY <4>1 DEF Typed
    <3> QED
      BY <3>1, <3>2
  <2>7. \A i \in 1..Len(gs) : gs[i].args \in Seq(T)
    BY <2>2, <2>6
  <2> QED
    BY <2>1, <2>7 DEF Typed
<1>2. CASE ~Last(fs).expecting
  BY <1>2 DEF PushType, Reject, Stop, Typed
<1> QED
  BY <1>1, <1>2

LEMMA PushFrameTyped ==
  ASSUME NEW T, StackInv, Top.expecting, Typed(frames, T),
         NEW kind \in Generic \cup {"tuple"}, PushFrame(kind)
  PROVE  Typed(frames, T)'
<1>1. CASE Room
  <2> DEFINE gs == Append(frames, Frame(kind))
  <2>1. frames' = gs
    BY <1>1 DEF PushFrame
  <2>2. /\ Len(gs) = Len(frames) + 1 /\ gs[Len(frames) + 1].args = <<>>
        /\ \A i \in 1..Len(frames) : gs[i] = frames[i]
    BY FramePushed DEF StackInv, Top
  <2> HIDE DEF gs
  <2>3. Len(frames) \in Nat
    BY DEF StackInv, Stack
  <2>4. <<>> \in Seq(T)
    OBVIOUS
  <2>5. \A i \in 1..(Len(frames) + 1) : gs[i].args \in Seq(T)
    <3> SUFFICES ASSUME NEW i \in 1..(Len(frames) + 1)
                 PROVE  gs[i].args \in Seq(T)
      OBVIOUS
    <3>1. CASE i = Len(frames) + 1
      BY <2>2, <2>4, <3>1
    <3>2. CASE i # Len(frames) + 1
      <4>1. i \in 1..Len(frames) /\ gs[i] = frames[i]
        BY <2>2, <2>3, <3>2
      <4> QED
        BY <4>1 DEF Typed
    <3> QED
      BY <3>1, <3>2
  <2>6. \A i \in 1..Len(gs) : gs[i].args \in Seq(T)
    BY <2>2, <2>5
  <2> QED
    BY <2>1, <2>6 DEF Typed
<1>2. CASE ~Room
  BY <1>2 DEF PushFrame, Reject, Stop, Typed
<1> QED
  BY <1>1, <1>2

LEMMA CommaTyped ==
  ASSUME NEW T, StackInv, Typed(frames, T), ReadComma
  PROVE  Typed(frames, T)'
<1>1. CASE pending # "none" \/ Top.kind = "root" \/ Top.expecting
  BY <1>1 DEF ReadComma, Reject, Stop, Typed
<1>2. CASE ~(pending # "none" \/ Top.kind = "root" \/ Top.expecting)
  <2> DEFINE gs == WithComma(frames)
  <2>1. frames' = gs
    BY <1>2 DEF ReadComma, WithComma
  <2>2. Len(gs) = Len(frames) /\ \A i \in 1..Len(frames) : gs[i].args = frames[i].args
    BY <1>2, CommaTaken DEF StackInv, Top
  <2> HIDE DEF gs
  <2>3. \A i \in 1..Len(gs) : gs[i].args \in Seq(T)
    BY <2>2 DEF Typed
  <2> QED
    BY <2>1, <2>3 DEF Typed
<1> QED
  BY <1>1, <1>2

LEMMA CloseTyped ==
  ASSUME NEW T, Closed(T), StackInv, Typed(frames, T),
         NEW delimiter \in {">", "]", ")"}, ReadClose(delimiter)
  PROVE  Typed(frames, T)'
<1> DEFINE closes == /\ pending = "none" /\ Matches(delimiter, Top.kind)
                     /\ Complete(Top) /\ Fits(Top)
<1>1. CASE closes
  <2>1. Top.kind \in Generic \cup {"tuple"} /\ Top.kind # "root"
    BY <1>1 DEF Matches, Generic
  <2>2. /\ Stack(Front(frames)) /\ Len(Front(frames)) = Len(frames) - 1
        /\ \A i \in 1..(Len(frames) - 1) : Front(frames)[i] = frames[i]
    BY <2>1, FrameClosed DEF StackInv, Top
  <2>3. Len(frames) \in Nat /\ Len(frames) >= 1
    BY DEF StackInv, Stack
  <2>4. Typed(Front(frames), T)
    BY <2>2, <2>3 DEF Typed
  <2>5. Top.args \in Seq(T)
    BY <2>3 DEF Typed, Top, Last
  <2>6. Built(Top) \in T
    BY <1>1, <2>1, <2>5, BuiltIsClosed
  <2>7. PushType(Front(frames), Built(Top))
    BY <1>1 DEF ReadClose
  <2> QED
    BY <2>2, <2>4, <2>6, <2>7, PushTypeTyped
<1>2. CASE ~closes
  BY <1>2 DEF ReadClose, Reject, Stop, Typed
<1> QED
  BY <1>1, <1>2

\* An accepted text stands for a member of every closed set, hence for a CLType:
\* each generic type and tuple in it, at any depth, has as many arguments as it
\* takes (parse_cl_type, build_tuple, build_generic).
THEOREM ParsedIsType ==
  ASSUME NEW T, Closed(T)
  PROVE  TypeSpec => [](status = "accepted" => Parsed \in T)
<1>1. TypeInit => Typed(frames, T)
  <2> SUFFICES ASSUME TypeInit
               PROVE  Typed(frames, T)
    OBVIOUS
  <2>1. Len(frames) = 1 /\ frames[1].args = <<>>
    BY DEF TypeInit, Frame
  <2>2. frames[1].args \in Seq(T)
    BY <2>1
  <2>3. \A i \in 1..Len(frames) : i = 1
    BY <2>1
  <2> QED
    BY <2>2, <2>3 DEF Typed
<1>2. StackInv /\ Typed(frames, T) /\ [TypeNext]_typeVars => Typed(frames, T)'
  <2> SUFFICES ASSUME StackInv, Typed(frames, T), [TypeNext]_typeVars
               PROVE  Typed(frames, T)'
    OBVIOUS
  <2>1. Stack(frames)
    BY DEF StackInv
  <2>2. ASSUME UNCHANGED frames
        PROVE  Typed(frames, T)'
    BY <2>2 DEF Typed
  <2>3. ASSUME NEW name \in Name, ReadName(name)
        PROVE  Typed(frames, T)'
    <3>1. CASE /\ ~(pending # "none" \/ ~Top.expecting)
               /\ name \notin Generic \cup {"bytearray"}
      <4>1. Named(name) \in T
        BY <3>1, NamedIsClosed
      <4> QED
        BY <2>1, <2>3, <3>1, <4>1, PushTypeTyped DEF ReadName
    <3>2. CASE pending # "none" \/ ~Top.expecting \/ name \in Generic \cup {"bytearray"}
      BY <2>2, <2>3, <3>2 DEF ReadName, Reject, Stop
    <3> QED
      BY <3>1, <3>2
  <2>4. ASSUME NEW b \in {"<", "["}, ReadOpen(b)
        PROVE  Typed(frames, T)'
    <3>1. CASE pending # "none" /\ b = "<"
      BY <2>4, <3>1, PushFrameTyped DEF ReadOpen, StackInv
    <3>2. CASE ~(pending # "none" /\ b = "<")
      BY <2>2, <2>4, <3>2 DEF ReadOpen, Reject, Stop
    <3> QED
      BY <3>1, <3>2
  <2>5. ASSUME NEW b \in {"<", "["}, ReadLength(b)
        PROVE  Typed(frames, T)'
    <3>1. ASSUME NEW n \in DOMAIN Number, PushType(frames, ByteArray(Number[n]))
          PROVE  Typed(frames, T)'
      <4>1. ByteArray(Number[n]) \in T
        BY TypeAssumption DEF Closed
      <4> QED
        BY <2>1, <3>1, <4>1, PushTypeTyped
    <3>2. CASE Reject \/ Stop("incomplete")
      BY <2>2, <3>2 DEF Reject, Stop
    <3> QED
      BY <2>5, <3>1, <3>2 DEF ReadLength
  <2>6. CASE ReadUnit
    <3>1. CASE pending # "none"
      BY <2>2, <2>6, <3>1 DEF ReadUnit, Reject, Stop
    <3>2. CASE pending = "none"
      <4>1. Named("unit") \in T
        BY NamedIsClosed
      <4> QED
        BY <2>1, <2>6, <3>2, <4>1, PushTypeTyped DEF ReadUnit
    <3> QED
      BY <3>1, <3>2
  <2>7. CASE OpenTuple
    <3>1. CASE pending # "none" \/ ~Top.expecting
      BY <2>2, <2>7, <3>1 DEF OpenTuple, Reject, Stop
    <3>2. CASE ~(pending # "none" \/ ~Top.expecting)
      BY <2>7, <3>2, PushFrameTyped DEF OpenTuple
    <3> QED
      BY <3>1, <3>2
  <2>8. CASE ReadComma
    BY <2>8, CommaTyped
  <2>9. ASSUME NEW delimiter \in {">", "]", ")"}, ReadClose(delimiter)
        PROVE  Typed(frames, T)'
    BY <2>9, CloseTyped
  <2>10. CASE \/ \E n \in DOMAIN Number : ReadNumber(n)
              \/ End
              \/ UNCHANGED typeVars
    BY <2>2, <2>10 DEF ReadNumber, Reject, End, Stop, typeVars
  <2> QED
    BY <2>3, <2>4, <2>5, <2>6, <2>7, <2>8, <2>9, <2>10 DEF TypeNext
<1>3. StackInv /\ Typed(frames, T) => (status = "accepted" => Parsed \in T)
  <2> SUFFICES ASSUME StackInv, Typed(frames, T), status = "accepted"
               PROVE  Parsed \in T
    OBVIOUS
  <2>1. Len(frames) = 1 /\ ~frames[1].expecting
    BY DEF StackInv, Top, Last
  <2>2. PICK t : frames[1].args = <<t>>
    BY <2>1 DEF StackInv, Stack
  <2>3. <<t>> \in Seq(T)
    BY <2>1, <2>2 DEF Typed
  <2> QED
    BY <2>2, <2>3 DEF Parsed
<1> QED
  BY <1>1, <1>2, <1>3, StackInvariant, PTL DEF TypeSpec

-----------------------------------------------------------------------------
(***************************************************************************)
(* The syntax of types: Phrases is what its definition says.               *)
(***************************************************************************)

\* A set with 0 and the successor of each of its numbers has all numbers.
LEMMA AllNumbers ==
  ASSUME NEW S, 0 \in S, \A n \in Nat : n \in S => n + 1 \in S
  PROVE  \A n \in Nat : n \in S
<1> DEFINE I == Nat \ S
<1> SUFFICES ASSUME I # {}
             PROVE  FALSE
  OBVIOUS
<1>1. PICK m \in I : \A k \in I : ~(<<k, m>> \in OpToRel(<, Nat))
  BY NatLessThanWellFounded, WFMin, Zenon
<1>2. \A k \in I : ~(k < m)
  BY <1>1, Zenon DEF OpToRel
<1>3. m \in Nat /\ m # 0
  OBVIOUS
<1>4. m - 1 \in Nat /\ m - 1 \notin I
  BY <1>2, <1>3
<1> QED
  BY <1>3, <1>4

\* The lists and the phrases of a length depend on the shorter ones alone.
LEMMA ShorterLists ==
  ASSUME NEW n \in Nat, n \notin 0..2, NEW f, NEW g, \A i \in Nat : i < n => f[i] = g[i],
         NEW k
  PROVE  /\ Separated(f, k, n - 3) = Separated(g, k, n - 3)
         /\ Separated(f, k, n - 2) = Separated(g, k, n - 2)
<1>1. ASSUME NEW i \in Nat, i < n
      PROVE  One(f, i) = One(g, i)
  BY <1>1 DEF One
<1>2. ASSUME NEW i \in Nat, i < n
      PROVE  Two(f, i) = Two(g, i)
  <2>1. ASSUME NEW j \in 1..(i - 2)
        PROVE  One(f, j) = One(g, j) /\ One(f, i - 1 - j) = One(g, i - 1 - j)
    <3>1. j \in Nat /\ j < n /\ i - 1 - j \in Nat /\ i - 1 - j < n
      BY <1>2
    <3> QED
      BY <1>1, <3>1
  <2> QED
    BY <2>1 DEF Two
<1>3. ASSUME NEW i \in Nat, i < n
      PROVE  Three(f, i) = Three(g, i)
  <2>1. ASSUME NEW j \in 1..(i - 2)
        PROVE  Two(f, j) = Two(g, j) /\ One(f, i - 1 - j) = One(g, i - 1 - j)
    <3>1. j \in Nat /\ j < n /\ i - 1 - j \in Nat /\ i - 1 - j < n
      BY <1>3
    <3> QED
      BY <1>1, <1>2, <3>1
  <2> QED
    BY <2>1 DEF Three
<1>4. n - 3 \in Nat /\ n - 2 \in Nat /\ n - 3 < n /\ n - 2 < n
  OBVIOUS
<1>5. /\ One(f, n - 3) = One(g, n - 3) /\ One(f, n - 2) = One(g, n - 2)
      /\ Two(f, n - 3) = Two(g, n - 3) /\ Two(f, n - 2) = Two(g, n - 2)
      /\ Three(f, n - 3) = Three(g, n - 3) /\ Three(f, n - 2) = Three(g, n - 2)
  BY <1>1, <1>2, <1>3, <1>4
<1> QED
  BY <1>5 DEF Separated

LEMMA ShorterPhrases ==
  ASSUME NEW n \in Nat, NEW f, NEW g, \A i \in Nat : i < n => f[i] = g[i]
  PROVE  PhrasesFrom(f, n) = PhrasesFrom(g, n)
<1>1. ASSUME n \notin 0..2, NEW k
      PROVE  /\ Separated(f, k, n - 3) = Separated(g, k, n - 3)
             /\ Separated(f, k, n - 2) = Separated(g, k, n - 2)
  BY <1>1, ShorterLists
<1>2. CASE n \in 0..2
  BY <1>2 DEF PhrasesFrom
<1>3. CASE n \notin 0..2
  <2>1. Generics(f, n) = Generics(g, n)
    BY <1>1, <1>3, Zenon DEF Generics
  <2>2. Tuples(f, n) = Tuples(g, n)
    BY <1>1, <1>3, Zenon DEF Tuples
  <2>3. TuplesWithComma(f, n) = TuplesWithComma(g, n)
    BY <1>1, <1>3, Zenon DEF TuplesWithComma
  <2> QED
    BY <2>1, <2>2, <2>3 DEF PhrasesFrom
<1> QED
  BY <1>2, <1>3

LEMMA PhrasesExist ==
  \A m \in Nat : \E f : f = [n \in 0..m |-> PhrasesFrom(f, n)]
<1> DEFINE S == {m \in Nat : \E f : f = [n \in 0..m |-> PhrasesFrom(f, n)]}
<1>1. 0 \in S
  <2> DEFINE f == [n \in 0..0 |-> {}]
  <2>1. \A n \in 0..0 : f[n] = PhrasesFrom(f, n)
    BY DEF PhrasesFrom
  <2>2. f = [n \in 0..0 |-> PhrasesFrom(f, n)]
    BY <2>1
  <2> QED
    BY <2>2
<1>2. ASSUME NEW m \in Nat, m \in S
      PROVE  m + 1 \in S
  <2>1. PICK f : f = [n \in 0..m |-> PhrasesFrom(f, n)]
    BY <1>2
  <2> DEFINE g == [n \in 0..(m + 1) |-> PhrasesFrom(f, n)]
  <2>2. \A i \in Nat : i < m + 1 => f[i] = g[i]
    BY <2>1
  <2> HIDE DEF g
  <2>3. ASSUME NEW n \in 0..(m + 1)
        PROVE  PhrasesFrom(f, n) = PhrasesFrom(g, n)
    <3>1. n \in Nat /\ \A i \in Nat : i < n => f[i] = g[i]
      BY <2>2
    <3> QED
      BY <3>1, ShorterPhrases
  <2>4. g = [n \in 0..(m + 1) |-> PhrasesFrom(g, n)]
    BY <2>3, Zenon DEF g
  <2> QED
    BY <2>4
<1> HIDE DEF S
<1>3. \A m \in Nat : m \in S
  BY <1>1, <1>2, AllNumbers
<1> QED
  BY <1>3 DEF S

LEMMA PhrasesDefined ==
  \A n \in 0..MaxTokens : Phrases[n] = PhrasesFrom(Phrases, n)
<1>1. \E f : f = [n \in 0..MaxTokens |-> PhrasesFrom(f, n)]
  BY PhrasesExist, TypeAssumption
<1>2. Phrases = [n \in 0..MaxTokens |-> PhrasesFrom(Phrases, n)]
  BY <1>1, Zenon DEF Phrases
<1> QED
  BY <1>2

-----------------------------------------------------------------------------
(***************************************************************************)
(* The rules of the syntax.                                                *)
(***************************************************************************)

\* The text stands for the type, with no more than so many types nested in it.
Phrased(s, t, b) ==
  /\ s \in Seq(Token) /\ Len(s) \in 1..MaxTokens
  /\ \E d \in 0..b : Phrase(s, t, d) \in Phrases[Len(s)]

Items(s, args, d) == [text |-> s, args |-> args, nesting |-> d]

\* The text stands for one type, or for two or three with commas between them.
Listed(s, args, b) ==
  /\ s \in Seq(Token) /\ Len(s) \in 1..MaxTokens
  /\ IF Len(args) = 1 THEN Phrased(s, args[1], b)
     ELSE \E d \in 0..b : Items(s, args, d) \in Separated(Phrases, Len(args), Len(s))

LEMMA NamePhrased ==
  ASSUME NEW name \in Basic \cup {"accounthash"}, MaxTokens >= 1, NEW b \in Nat
  PROVE  Phrased(<<name>>, Named(name), b)
<1>1. Phrases[1] = PhrasesFrom(Phrases, 1)
  BY PhrasesDefined, TypeAssumption
<1>2. PhrasesFrom(Phrases, 1) =
        {Phrase(<<x>>, Named(x), 0) : x \in Basic \cup {"accounthash"}}
  BY DEF PhrasesFrom
<1>3. Phrase(<<name>>, Named(name), 0) \in Phrases[1]
  BY <1>1, <1>2
<1>4. <<name>> \in Seq(Token) /\ Len(<<name>>) = 1
  <2>1. name \in Token
    BY DEF Token, Punctuation, Name
  <2> QED
    BY <2>1
<1>5. 0 \in 0..b /\ 1 \in 1..MaxTokens
  BY TypeAssumption
<1> QED
  BY <1>3, <1>4, <1>5 DEF Phrased

\* The phrases of three tokens and more.
LEMMA LongPhrases ==
  ASSUME NEW n \in Nat, n <= MaxTokens, n >= 3
  PROVE  Phrases[n] = ByteArrays(n) \cup Generics(Phrases, n) \cup Tuples(Phrases, n)
                        \cup TuplesWithComma(Phrases, n)
<1>1. Phrases[n] = PhrasesFrom(Phrases, n)
  BY PhrasesDefined, TypeAssumption
<1> QED
  BY <1>1 DEF PhrasesFrom

LEMMA UnitPhrased ==
  ASSUME MaxTokens >= 2, NEW b \in Nat
  PROVE  Phrased(<<"(", ")">>, Named("unit"), b)
<1>1. Phrases[2] = PhrasesFrom(Phrases, 2)
  BY PhrasesDefined, TypeAssumption
<1>2. Phrase(<<"(", ")">>, Named("unit"), 0) \in PhrasesFrom(Phrases, 2)
  BY DEF PhrasesFrom
<1>3. <<"(", ")">> \in Seq(Token) /\ Len(<<"(", ")">>) = 2
  BY DEF Token, Punctuation
<1>4. 0 \in 0..b /\ 2 \in 1..MaxTokens
  BY TypeAssumption
<1> QED
  BY <1>1, <1>2, <1>3, <1>4 DEF Phrased

LEMMA ByteArrayPhrased ==
  ASSUME NEW o \in {"<", "["}, NEW k \in DOMAIN Number, MaxTokens >= 4, NEW b \in Nat
  PROVE  Phrased(<<"bytearray", o, k, Closing[o]>>, ByteArray(Number[k]), b)
<1> DEFINE s == <<"bytearray", o, k, Closing[o]>>
<1>1. ByteArrays(4) \subseteq Phrases[4]
  BY LongPhrases
<1>2. Phrase(s, ByteArray(Number[k]), 0) \in ByteArrays(4)
  BY DEF ByteArrays
<1>3. s \in Seq(Token) /\ Len(s) = 4
  <2>1. "bytearray" \in Token /\ o \in Token /\ k \in Token /\ Closing[o] \in Token
    BY DEF Token, Punctuation, Name, Closing
  <2> QED
    BY <2>1
<1>4. 0 \in 0..b /\ 4 \in 1..MaxTokens
  BY TypeAssumption
<1> QED
  BY <1>1, <1>2, <1>3, <1>4 DEF Phrased

\* A phrase is a list of one.
LEMMA OneItem ==
  ASSUME NEW s, NEW t, NEW d, NEW n, Phrase(s, t, d) \in Phrases[n]
  PROVE  Items(s, <<t>>, d) \in One(Phrases, n)
<1> DEFINE x == Phrase(s, t, d)
<1>1. x.text = s /\ x.type = t /\ x.nesting = d
  BY DEF Phrase
<1>2. Items(s, <<t>>, d) = [text |-> x.text, args |-> <<x.type>>, nesting |-> x.nesting]
  BY <1>1 DEF Items
<1> HIDE DEF x
<1>3. x \in Phrases[n]
  BY DEF x
<1> QED
  BY <1>2, <1>3, Zenon DEF One

LEMMA ListedItems ==
  ASSUME NEW s, NEW args, NEW b \in Nat, Listed(s, args, b),
         NEW T, args \in Seq(T), Len(args) \in 1..3
  PROVE  \E d \in 0..b : Items(s, args, d) \in Separated(Phrases, Len(args), Len(s))
<1>1. CASE Len(args) = 1
  <2>1. PICK d \in 0..b : Phrase(s, args[1], d) \in Phrases[Len(s)]
    BY <1>1 DEF Listed, Phrased
  <2>2. args = <<args[1]>>
    BY <1>1
  <2>3. Items(s, <<args[1]>>, d) \in One(Phrases, Len(s))
    BY <2>1, OneItem
  <2>4. One(Phrases, Len(s)) = Separated(Phrases, 1, Len(s))
    BY DEF Separated, Listed
  <2> QED
    BY <1>1, <2>2, <2>3, <2>4
<1>2. CASE Len(args) # 1
  BY <1>2 DEF Listed
<1> QED
  BY <1>1, <1>2

\* A comma and one more type.
LEMMA ListGrows ==
  ASSUME NEW l, NEW s, NEW args, NEW t, NEW b \in Nat, Listed(l, args, b), Phrased(s, t, b),
         NEW T, args \in Seq(T), Len(args) \in 1..2, Len(l) + 1 + Len(s) <= MaxTokens
  PROVE  Listed(l \o <<",">> \o s, Append(args, t), b)
<1> DEFINE m == Len(l)
           n == Len(l) + 1 + Len(s)
           k == Len(args)
           w == l \o <<",">> \o s
<1>1. /\ l \in Seq(Token) /\ s \in Seq(Token) /\ m \in Nat /\ m >= 1
      /\ Len(s) \in Nat /\ Len(s) >= 1
  BY DEF Listed, Phrased
<1>2. w \in Seq(Token) /\ Len(w) = n
  <2>1. <<",">> \in Seq(Token) /\ Len(<<",">>) = 1
    BY DEF Token, Punctuation
  <2>2. l \o <<",">> \in Seq(Token) /\ Len(l \o <<",">>) = m + 1
    BY <1>1, <2>1, ConcatProperties
  <2>3. /\ (l \o <<",">>) \o s \in Seq(Token)
        /\ Len((l \o <<",">>) \o s) = Len(l \o <<",">>) + Len(s)
    BY <1>1, <2>2, ConcatProperties
  <2> QED
    BY <2>2, <2>3
<1>3. n \in Nat /\ n >= 1 /\ n \in 1..MaxTokens /\ n - 1 - m = Len(s) /\ m \in 1..(n - 2)
  BY <1>1, TypeAssumption
<1>4. PICK d \in 0..b : Items(l, args, d) \in Separated(Phrases, k, m)
  <2>1. k \in 1..3
    OBVIOUS
  <2> QED
    BY <2>1, ListedItems
<1>5. PICK e \in 0..b : Items(s, <<t>>, e) \in One(Phrases, n - 1 - m)
  <2>1. PICK e \in 0..b : Phrase(s, t, e) \in Phrases[Len(s)]
    BY DEF Phrased
  <2> QED
    BY <1>3, <2>1, OneItem
<1> DEFINE c == IF d > e THEN d ELSE e
           joined == Join(Items(l, args, d), Items(s, <<t>>, e))
<1>6. Append(args, t) = args \o <<t>> /\ Len(Append(args, t)) = k + 1
  <2>1. args \in Seq(T \cup {t}) /\ t \in T \cup {t}
    BY SeqMonotonic
  <2> QED
    BY <2>1, AppendProperties, AppendIsConcat
<1>7. joined = Items(w, Append(args, t), c)
  BY <1>6 DEF Join, Items
<1>8. c \in 0..b /\ k \in 1..2 /\ k + 1 # 1
  BY SMTT(30)
<1> HIDE DEF m, n, k, w, c, joined
<1>9. joined \in Separated(Phrases, k + 1, n)
  <2>1. CASE k = 1
    <3>1. Items(l, args, d) \in One(Phrases, m)
      BY <1>1, <1>4, <2>1 DEF Separated
    <3>2. joined \in Joined(One(Phrases, m), One(Phrases, n - 1 - m))
      BY <1>5, <3>1 DEF Joined, joined
    <3>3. joined \in Two(Phrases, n)
      BY <1>3, <3>2, Zenon DEF Two
    <3> QED
      BY <1>3, <2>1, <3>3 DEF Separated
  <2>2. CASE k = 2
    <3>1. Items(l, args, d) \in Two(Phrases, m)
      BY <1>1, <1>4, <2>2 DEF Separated
    <3>2. joined \in Joined(Two(Phrases, m), One(Phrases, n - 1 - m))
      BY <1>5, <3>1 DEF Joined, joined
    <3>3. joined \in Three(Phrases, n)
      BY <1>3, <3>2, Zenon DEF Three
    <3> QED
      BY <1>3, <2>2, <3>3 DEF Separated
  <2> QED
    BY <1>8, <2>1, <2>2
<1>10. Listed(w, Append(args, t), b)
  BY <1>2, <1>3, <1>6, <1>7, <1>8, <1>9 DEF Listed
<1> QED
  BY <1>10 DEF w

\* A type applied to a list, with so much text around it, in a set of phrases.
LEMMA AppliedPhrased ==
  ASSUME NEW l, NEW args, NEW b \in Nat, Listed(l, args, b), b < MaxNesting,
         NEW T, args \in Seq(T), Len(args) \in 1..3,
         NEW name, NEW before \in Seq(Token), NEW behind \in Seq(Token),
         Len(before) + Len(l) + Len(behind) <= MaxTokens,
         Applied(name, before, Separated(Phrases, Len(args), Len(l)), behind)
           \subseteq Phrases[Len(before) + Len(l) + Len(behind)]
  PROVE  Phrased(before \o l \o behind, Type(name, args), b + 1)
<1> DEFINE s == before \o l \o behind
<1>1. l \in Seq(Token) /\ Len(l) \in Nat /\ Len(l) >= 1
  BY DEF Listed
<1>2. s \in Seq(Token) /\ Len(s) = Len(before) + Len(l) + Len(behind)
  BY <1>1
<1>3. Len(s) \in 1..MaxTokens
  BY <1>1, <1>2, TypeAssumption
<1>4. PICK d \in 0..b : Items(l, args, d) \in Separated(Phrases, Len(args), Len(l))
  BY ListedItems
<1> DEFINE x == Items(l, args, d)
<1>5. x.text = l /\ x.args = args /\ x.nesting = d
  BY DEF Items
<1>6. d < MaxNesting /\ d + 1 \in 0..(b + 1)
  BY TypeAssumption
<1> HIDE DEF x
<1>7. Phrase(s, Type(name, args), d + 1)
        \in Applied(name, before, Separated(Phrases, Len(args), Len(l)), behind)
  BY <1>4, <1>5, <1>6 DEF Applied, x
<1> QED
  BY <1>2, <1>3, <1>6, <1>7 DEF Phrased

LEMMA GenericPhrased ==
  ASSUME NEW l, NEW args, NEW b \in Nat, Listed(l, args, b), b < MaxNesting,
         NEW T, args \in Seq(T), NEW g \in Generic, Len(args) = Arity(g),
         Len(l) + 3 <= MaxTokens
  PROVE  Phrased(<<g, "<">> \o l \o <<">">>, Type(g, args), b + 1)
<1>1. Len(l) \in Nat /\ Len(l) >= 1
  BY DEF Listed
<1>2. /\ <<g, "<">> \in Seq(Token) /\ <<">">> \in Seq(Token)
      /\ Len(<<g, "<">>) = 2 /\ Len(<<">">>) = 1
  <2>1. g \in Token /\ "<" \in Token /\ ">" \in Token
    BY DEF Token, Punctuation, Name
  <2> QED
    BY <2>1
<1>3. Len(args) \in 1..3
  BY DEF Arity
<1> DEFINE n == Len(l) + 3
<1>4. n - 3 = Len(l) /\ 2 + Len(l) + 1 = n
  BY <1>1, TypeAssumption
<1>5. n \in Nat /\ n >= 3 /\ n <= MaxTokens
  BY <1>1
<1>6. Generics(Phrases, n) \subseteq Phrases[n]
  BY <1>5, LongPhrases
<1>7. Applied(g, <<g, "<">>, Separated(Phrases, Len(args), Len(l)), <<">">>)
        \subseteq Generics(Phrases, n)
  BY <1>4, Zenon DEF Generics
<1>8. Applied(g, <<g, "<">>, Separated(Phrases, Len(args), Len(l)), <<">">>)
        \subseteq Phrases[Len(<<g, "<">>) + Len(l) + Len(<<">">>)]
  BY <1>2, <1>4, <1>6, <1>7
<1>9. Len(<<g, "<">>) + Len(l) + Len(<<">">>) <= MaxTokens
  BY <1>2, <1>4, <1>5
<1> QED
  BY <1>2, <1>3, <1>8, <1>9, AppliedPhrased

\* The constructors of tuples, by the number of their types.
TheTuple(k) == CASE k = 1 -> "tuple1" [] k = 2 -> "tuple2" [] OTHER -> "tuple3"

LEMMA TuplePhrased ==
  ASSUME NEW l, NEW args, NEW b \in Nat, Listed(l, args, b), b < MaxNesting,
         NEW T, args \in Seq(T), Len(args) \in 2..3, Len(l) + 2 <= MaxTokens
  PROVE  Phrased(<<"(">> \o l \o <<")">>, Type(TheTuple(Len(args)), args), b + 1)
<1> DEFINE g == TheTuple(Len(args))
           n == Len(l) + 2
<1>1. Len(l) \in Nat /\ Len(l) >= 1
  BY DEF Listed
<1>2. /\ <<"(">> \in Seq(Token) /\ <<")">> \in Seq(Token)
      /\ Len(<<"(">>) = 1 /\ Len(<<")">>) = 1
  BY DEF Token, Punctuation
<1>3. g \in {"tuple2", "tuple3"} /\ Len(args) = Arity(g) /\ Len(args) \in 1..3
  <2>1. CASE Len(args) = 2
    BY <2>1 DEF TheTuple, Arity
  <2>2. CASE Len(args) = 3
    BY <2>2 DEF TheTuple, Arity
  <2> QED
    BY <2>1, <2>2
<1> HIDE DEF g
<1>4. n - 2 = Len(l) /\ 1 + Len(l) + 1 = n
  BY <1>1, TypeAssumption
<1>5. n \in Nat /\ n >= 3 /\ n <= MaxTokens
  BY <1>1
<1>6. Tuples(Phrases, n) \subseteq Phrases[n]
  BY <1>5, LongPhrases
<1>7. Applied(g, <<"(">>, Separated(Phrases, Len(args), Len(l)), <<")">>)
        \subseteq Tuples(Phrases, n)
  BY <1>3, <1>4, Zenon DEF Tuples
<1>8. Applied(g, <<"(">>, Separated(Phrases, Len(args), Len(l)), <<")">>)
        \subseteq Phrases[Len(<<"(">>) + Len(l) + Len(<<")">>)]
  BY <1>2, <1>4, <1>6, <1>7
<1>9. Len(<<"(">>) + Len(l) + Len(<<")">>) <= MaxTokens
  BY <1>2, <1>4, <1>5
<1> QED
  BY <1>2, <1>3, <1>8, <1>9, AppliedPhrased DEF g

LEMMA TupleWithCommaPhrased ==
  ASSUME NEW l, NEW args, NEW b \in Nat, Listed(l, args, b), b < MaxNesting,
         NEW T, args \in Seq(T), Len(args) \in 1..3, Len(l) + 3 <= MaxTokens
  PROVE  Phrased(<<"(">> \o l \o <<",", ")">>, Type(TheTuple(Len(args)), args), b + 1)
<1> DEFINE g == TheTuple(Len(args))
           n == Len(l) + 3
<1>1. Len(l) \in Nat /\ Len(l) >= 1
  BY DEF Listed
<1>2. /\ <<"(">> \in Seq(Token) /\ <<",", ")">> \in Seq(Token)
      /\ Len(<<"(">>) = 1 /\ Len(<<",", ")">>) = 2
  BY DEF Token, Punctuation
<1>3. g \in {"tuple1", "tuple2", "tuple3"} /\ Len(args) = Arity(g)
  <2>1. Len(args) = 1 \/ Len(args) = 2 \/ Len(args) = 3
    OBVIOUS
  <2> QED
    BY <2>1 DEF TheTuple, Arity
<1> HIDE DEF g
<1>4. n - 3 = Len(l) /\ 1 + Len(l) + 2 = n
  BY <1>1, TypeAssumption
<1>5. n \in Nat /\ n >= 3 /\ n <= MaxTokens
  BY <1>1
<1>6. TuplesWithComma(Phrases, n) \subseteq Phrases[n]
  BY <1>5, LongPhrases
<1>7. Applied(g, <<"(">>, Separated(Phrases, Len(args), Len(l)), <<",", ")">>)
        \subseteq TuplesWithComma(Phrases, n)
  BY <1>3, <1>4, Zenon DEF TuplesWithComma
<1>8. Applied(g, <<"(">>, Separated(Phrases, Len(args), Len(l)), <<",", ")">>)
        \subseteq Phrases[Len(<<"(">>) + Len(l) + Len(<<",", ")">>)]
  BY <1>2, <1>4, <1>6, <1>7
<1>9. Len(<<"(">>) + Len(l) + Len(<<",", ")">>) <= MaxTokens
  BY <1>2, <1>4, <1>5
<1> QED
  BY <1>2, <1>3, <1>8, <1>9, AppliedPhrased DEF g

-----------------------------------------------------------------------------
(***************************************************************************)
(* What the open frames have read.                                         *)
(***************************************************************************)

\* The tokens that open a frame.
Opening(kind) ==
  CASE kind = "root" -> <<>> [] kind = "tuple" -> <<"(">> [] OTHER -> <<kind, "<">>

\* The tokens behind them: up to three types as a list, and the comma behind it that
\* lets the frame wait for another.
Body(f, body, b) ==
  /\ body \in Seq(Token)
  /\ \E T : f.args \in Seq(T)
  /\ f.args = <<>> => body = <<>> /\ f.expecting /\ ~f.comma
  /\ Len(f.args) = 1 /\ f.comma => f.expecting
  /\ Len(f.args) \in 1..3 /\ ~f.expecting => Listed(body, f.args, b)
  /\ Len(f.args) \in 1..3 /\ f.expecting => \E l : body = l \o <<",">> /\ Listed(l, f.args, b)

Segment(f, s, b) == \E body : s = Opening(f.kind) \o body /\ Body(f, body, b)

\* seg[i] is what the frame at i has read itself, and pre[i] what was read before it
\* was opened; each frame leaves room for the nesting of those below it.
Layout(fs, pre, seg, s) ==
  /\ pre \in Seq(Seq(Token)) /\ Len(pre) = Len(fs)
  /\ seg \in Seq(Seq(Token)) /\ Len(seg) = Len(fs)
  /\ pre[1] = <<>>
  /\ \A i \in 1..(Len(fs) - 1) : pre[i + 1] = pre[i] \o seg[i]
  /\ \A i \in 1..Len(fs) : Segment(fs[i], seg[i], MaxNesting + 1 - i)
  /\ s = pre[Len(fs)] \o seg[Len(fs)]

Laid(fs, s) == \E pre, seg : Layout(fs, pre, seg, s)

\* The tokens are those that the frames have read, and the name whose opening
\* delimiter must follow.
TokensRead(fs, name, tokens) ==
  /\ tokens \in Seq(Token) /\ Len(tokens) <= MaxTokens
  /\ \E s : /\ Laid(fs, s)
            /\ tokens = s \o (IF name = "none" THEN <<>> ELSE <<name>>)

\* As long as there is no error, the frames have read all that was typed.
PhraseInv ==
  /\ status \in {"reading", "accepted"} => TokensRead(frames, pending, text)
  /\ status = "accepted" => pending = "none"

LEMMA ThreeTexts ==
  ASSUME NEW r \in Seq(Token), NEW s \in Seq(Token), NEW t \in Seq(Token)
  PROVE  (r \o s) \o t = r \o (s \o t)
BY ConcatAssociative

LEMMA TwoTexts ==
  ASSUME NEW r \in Seq(Token), NEW s \in Seq(Token)
  PROVE  r \o s \in Seq(Token) /\ Len(r \o s) = Len(r) + Len(s)
BY ConcatProperties

LEMMA OneMore ==
  ASSUME NEW s \in Seq(Token), NEW token \in Token
  PROVE  s \o <<token>> \in Seq(Token) /\ Len(s \o <<token>>) = Len(s) + 1
<1>1. <<token>> \in Seq(Token) /\ Len(<<token>>) = 1
  OBVIOUS
<1> QED
  BY <1>1, ConcatProperties

LEMMA TwoTokens ==
  ASSUME NEW a \in Token, NEW b \in Token
  PROVE  <<a>> \o <<b>> = <<a, b>>
<1> DEFINE s == <<a>> \o <<b>>
           t == <<a, b>>
<1>1. <<a>> \in Seq(Token) /\ Len(<<a>>) = 1 /\ <<a>>[1] = a
  OBVIOUS
<1>2. <<b>> \in Seq(Token) /\ Len(<<b>>) = 1 /\ <<b>>[1] = b
  OBVIOUS
<1>3. s \in Seq(Token) /\ Len(s) = 2 /\ s[1] = a /\ s[2] = b
  BY <1>1, <1>2, ConcatProperties
<1>4. t \in Seq(Token) /\ Len(t) = 2 /\ t[1] = a /\ t[2] = b
  OBVIOUS
<1> HIDE DEF s, t
<1>5. \A i \in 1..2 : i = 1 \/ i = 2
  OBVIOUS
<1>6. s = t
  BY <1>3, <1>4, <1>5, SeqEqual
<1> QED
  BY <1>6 DEF s, t

LEMMA Delimiters ==
  /\ {",", "(", ")", "<", ">"} \subseteq Token
  /\ <<",">> \in Seq(Token) /\ <<"(">> \in Seq(Token)
  /\ <<")">> \in Seq(Token) /\ <<">">> \in Seq(Token)
BY DEF Token, Punctuation

LEMMA ListedText ==
  ASSUME NEW l, NEW args, NEW b, Listed(l, args, b)
  PROVE  l \in Seq(Token) /\ Len(l) \in Nat /\ Len(l) >= 1
BY DEF Listed

LEMMA OpeningTokens ==
  ASSUME NEW kind \in Generic \cup {"root", "tuple"}
  PROVE  Opening(kind) \in Seq(Token)
<1>1. kind \in Generic => kind \in Token
  BY DEF Token, Punctuation, Name
<1>2. "(" \in Token /\ "<" \in Token
  BY DEF Token, Punctuation
<1>3. CASE kind = "root"
  BY <1>3 DEF Opening
<1>4. CASE kind = "tuple"
  BY <1>2, <1>4 DEF Opening
<1>5. CASE kind \in Generic
  <2>1. kind # "root" /\ kind # "tuple"
    BY <1>5 DEF Generic
  <2> QED
    BY <1>1, <1>2, <1>5, <2>1 DEF Opening
<1> QED
  BY <1>3, <1>4, <1>5

\* A frame that waited for a type takes one.
LEMMA BodyTakesType ==
  ASSUME NEW f, NEW body, NEW b \in Nat, Body(f, body, b), f.expecting,
         NEW p, NEW t, Phrased(p, t, b), Len(body) + Len(p) <= MaxTokens,
         NEW g, g.args = Append(f.args, t), ~g.expecting, g.comma = f.comma
  PROVE  Body(g, body \o p, b)
<1>1. PICK R : f.args \in Seq(R)
  BY DEF Body
<1> DEFINE T == R \cup {t}
<1>2. f.args \in Seq(T) /\ t \in T
  BY <1>1, SeqMonotonic
<1> HIDE DEF T
<1>3. g.args \in Seq(T) /\ Len(g.args) = Len(f.args) + 1 /\ g.args # <<>> /\ Len(f.args) \in Nat
  BY <1>2, AppendProperties
<1>4. body \in Seq(Token) /\ p \in Seq(Token)
  BY DEF Body, Phrased
<1>5. body \o p \in Seq(Token)
  BY <1>4, ConcatProperties
<1>6. CASE f.args = <<>>
  <2>1. body = <<>> /\ ~f.comma
    BY <1>6 DEF Body
  <2>2. body \o p = p
    BY <1>4, <2>1
  <2>3. g.args[1] = t /\ Len(g.args) = 1
    BY <1>2, <1>3, <1>6
  <2>4. Listed(p, g.args, b)
    BY <2>3 DEF Listed, Phrased
  <2> QED
    BY <1>3, <1>5, <2>1, <2>2, <2>4 DEF Body
<1>7. CASE Len(f.args) \in 1..2
  <2>1. Len(f.args) \in 1..3 /\ Len(g.args) \in 1..3 /\ Len(g.args) # 1
    <3>1. \A k \in Nat : k \in 1..2 => k \in 1..3 /\ k + 1 \in 1..3 /\ k + 1 # 1
      OBVIOUS
    <3> QED
      BY <1>3, <1>7, <3>1, Zenon
  <2>2. PICK l : body = l \o <<",">> /\ Listed(l, f.args, b)
    BY <2>1, Zenon DEF Body
  <2>3. l \in Seq(Token) /\ Len(l) \in Nat
    BY <2>2, ListedText
  <2>4. Len(body) = Len(l) + 1 /\ Len(p) \in Nat
    <3>1. "," \in Token
      BY Delimiters
    <3>2. Len(body) = Len(l) + 1
      BY <2>2, <2>3, <3>1, OneMore
    <3> QED
      BY <1>4, <3>2
  <2>5. Listed(l \o <<",">> \o p, g.args, b)
    BY <1>2, <1>7, <2>2, <2>3, <2>4, ListGrows
  <2>6. Listed(body \o p, g.args, b)
    BY <2>2, <2>5
  <2> QED
    BY <1>3, <1>5, <2>1, <2>6, Zenon DEF Body
<1>8. CASE Len(f.args) > 2
  <2>1. Len(g.args) # 1 /\ Len(g.args) \notin 1..3
    BY <1>3, <1>8
  <2> QED
    BY <1>3, <1>5, <2>1, Zenon DEF Body
<1>9. f.args = <<>> \/ Len(f.args) \in 1..2 \/ Len(f.args) > 2
  <2>1. Len(f.args) = 0 => f.args = <<>>
    BY <1>2, EmptySeq
  <2>2. \A n \in Nat : n = 0 \/ n \in 1..2 \/ n > 2
    OBVIOUS
  <2> QED
    BY <1>3, <2>1, <2>2, Zenon
<1> QED
  BY <1>6, <1>7, <1>8, <1>9

\* A comma behind a type.
LEMMA BodyTakesComma ==
  ASSUME NEW f, NEW body, NEW b \in Nat, Body(f, body, b), ~f.expecting,
         NEW g, g.args = f.args, g.expecting
  PROVE  Body(g, body \o <<",">>, b)
<1>1. body \in Seq(Token)
  BY DEF Body
<1>2. body \o <<",">> \in Seq(Token)
  BY <1>1, Delimiters, ConcatProperties
<1>3. g.args # <<>>
  BY DEF Body
<1> QED
  BY <1>2, <1>3, Zenon DEF Body

LEMMA SegmentTakesType ==
  ASSUME NEW f, f.kind \in Generic \cup {"root", "tuple"}, f.expecting,
         NEW s, NEW b \in Nat, Segment(f, s, b),
         NEW p, NEW t, Phrased(p, t, b), Len(s) + Len(p) <= MaxTokens,
         NEW g, g.kind = f.kind, g.args = Append(f.args, t), ~g.expecting, g.comma = f.comma
  PROVE  Segment(g, s \o p, b)
<1>1. PICK body : s = Opening(f.kind) \o body /\ Body(f, body, b)
  BY DEF Segment
<1>2. Opening(f.kind) \in Seq(Token) /\ body \in Seq(Token) /\ p \in Seq(Token)
  BY <1>1, OpeningTokens DEF Body, Phrased
<1>3. Len(body) + Len(p) <= MaxTokens
  <2>1. Len(s) = Len(Opening(f.kind)) + Len(body)
    BY <1>1, <1>2, ConcatProperties
  <2> QED
    BY <1>2, <2>1, TypeAssumption
<1>4. s \o p = Opening(g.kind) \o (body \o p)
  BY SMTT(30), <1>1, <1>2, ConcatAssociative
<1>5. Body(g, body \o p, b)
  BY <1>1, <1>3, BodyTakesType
<1> QED
  BY <1>4, <1>5 DEF Segment

LEMMA SegmentTakesComma ==
  ASSUME NEW f, f.kind \in Generic \cup {"root", "tuple"}, ~f.expecting,
         NEW s, NEW b \in Nat, Segment(f, s, b),
         NEW g, g.kind = f.kind, g.args = f.args, g.expecting
  PROVE  Segment(g, s \o <<",">>, b)
<1>1. PICK body : s = Opening(f.kind) \o body /\ Body(f, body, b)
  BY DEF Segment
<1>2. Opening(f.kind) \in Seq(Token) /\ body \in Seq(Token) /\ <<",">> \in Seq(Token)
  BY <1>1, OpeningTokens, Delimiters DEF Body
<1>3. (Opening(f.kind) \o body) \o <<",">> = Opening(f.kind) \o (body \o <<",">>)
  BY <1>2, ThreeTexts, Zenon
<1>4. Body(g, body \o <<",">>, b)
  BY <1>1, BodyTakesComma
<1>5. s \o <<",">> = Opening(g.kind) \o (body \o <<",">>)
  BY <1>1, <1>3, Zenon
<1> QED
  BY <1>4, <1>5, Zenon DEF Segment

\* What a frame has read is a phrase with its closing delimiter.
LEMMA SegmentCloses ==
  ASSUME NEW f, f.kind \in Generic \cup {"tuple"},
         NEW s, NEW b \in Nat, b < MaxNesting, Segment(f, s, b), Len(s) + 1 <= MaxTokens,
         NEW delimiter, Matches(delimiter, f.kind), Complete(f), Fits(f)
  PROVE  Phrased(s \o <<delimiter>>, Built(f), b + 1)
<1>1. PICK body : s = Opening(f.kind) \o body /\ Body(f, body, b)
  BY DEF Segment
<1>2. PICK T : f.args \in Seq(T)
  BY <1>1 DEF Body
<1>3. Opening(f.kind) \in Seq(Token) /\ body \in Seq(Token)
  BY <1>1, OpeningTokens DEF Body
<1>4. Len(s) = Len(Opening(f.kind)) + Len(body)
  BY <1>1, <1>3, ConcatProperties
<1>5. CASE f.kind \in Generic
  <2>1. f.kind # "tuple" /\ f.kind # "root"
    BY <1>5 DEF Generic
  <2>2. delimiter = ">" /\ ~f.expecting /\ Len(f.args) = Arity(f.kind)
    BY <2>1 DEF Matches, Complete, Fits
  <2>3. Arity(f.kind) \in 1..3
    BY DEF Arity
  <2>4. Listed(body, f.args, b)
    BY <1>1, <2>2, <2>3 DEF Body
  <2>5. Opening(f.kind) = <<f.kind, "<">> /\ Len(<<f.kind, "<">>) = 2
    BY <2>1 DEF Opening
  <2>6. Len(body) + 3 <= MaxTokens
    BY <1>3, <1>4, <2>5
  <2>7. Built(f) = Type(f.kind, f.args)
    BY <2>1 DEF Built
  <2>8. Phrased(<<f.kind, "<">> \o body \o <<">">>, Type(f.kind, f.args), b + 1)
    BY <1>2, <1>5, <2>2, <2>4, <2>6, GenericPhrased
  <2> QED
    BY <1>1, <2>2, <2>5, <2>7, <2>8
<1>6. CASE f.kind = "tuple"
  <2>1. delimiter = ")" /\ Len(f.args) \in 1..3 /\ (Len(f.args) = 1 => f.comma)
    BY <1>6 DEF Matches, Fits, Generic
  <2>2. Opening(f.kind) = <<"(">> /\ Len(<<"(">>) = 1
    BY <1>6 DEF Opening
  <2>3. Built(f) = Type(TheTuple(Len(f.args)), f.args)
    BY <1>6 DEF Built, TheTuple
  <2>4. CASE ~f.expecting
    <3>1. Len(f.args) # 1
      BY <1>1, <2>1, <2>4, Zenon DEF Body
    <3>2. Len(f.args) \in 2..3
      BY <2>1, <3>1
    <3>3. Listed(body, f.args, b)
      BY <1>1, <2>1, <2>4, Zenon DEF Body
    <3>4. Len(body) + 2 <= MaxTokens
      BY <1>3, <1>4, <2>2
    <3>5. Phrased(<<"(">> \o body \o <<")">>, Type(TheTuple(Len(f.args)), f.args), b + 1)
      BY <1>2, <3>2, <3>3, <3>4, TuplePhrased
    <3> QED
      BY <1>1, <2>1, <2>2, <2>3, <3>5
  <2>5. CASE f.expecting
    <3>1. PICK l : body = l \o <<",">> /\ Listed(l, f.args, b)
      BY <1>1, <2>1, <2>5, Zenon DEF Body
    <3>2. l \in Seq(Token) /\ Len(l) \in Nat
      BY <3>1, ListedText
    <3>3. Len(body) = Len(l) + 1
      <4>1. "," \in Token
        BY Delimiters
      <4> QED
        BY <3>1, <3>2, <4>1, OneMore
    <3>4. Len(l) + 3 <= MaxTokens
      BY <1>4, <2>2, <3>2, <3>3
    <3>5. (<<"(">> \o (l \o <<",">>)) \o <<")">> = <<"(">> \o l \o <<",", ")">>
      <4>1. <<",">> \o <<")">> = <<",", ")">>
        BY TwoTokens, Delimiters, Zenon
      <4>2. <<"(">> \o l \in Seq(Token)
        BY <3>2, Delimiters, TwoTexts, Zenon
      <4>3. <<"(">> \o (l \o <<",">>) = (<<"(">> \o l) \o <<",">>
        BY <3>2, Delimiters, ThreeTexts, ZenonT(30)
      <4>4. ((<<"(">> \o l) \o <<",">>) \o <<")">> = (<<"(">> \o l) \o (<<",">> \o <<")">>)
        BY <4>2, Delimiters, ThreeTexts, Zenon
      <4> QED
        BY <4>1, <4>3, <4>4
    <3>6. Phrased(<<"(">> \o l \o <<",", ")">>, Type(TheTuple(Len(f.args)), f.args), b + 1)
      BY <1>2, <2>1, <3>1, <3>4, TupleWithCommaPhrased
    <3> QED
      BY <1>1, <2>1, <2>2, <2>3, <3>1, <3>5, <3>6
  <2> QED
    BY <2>4, <2>5
<1> QED
  BY <1>5, <1>6

\* The parts of the text around the last frame.
LEMMA LayoutTop ==
  ASSUME NEW fs, NEW pre, NEW seg, NEW s, Layout(fs, pre, seg, s),
         Len(fs) \in Nat, Len(fs) >= 1
  PROVE  /\ pre[Len(fs)] \in Seq(Token) /\ seg[Len(fs)] \in Seq(Token) /\ s \in Seq(Token)
         /\ s = pre[Len(fs)] \o seg[Len(fs)]
         /\ Len(s) = Len(pre[Len(fs)]) + Len(seg[Len(fs)])
<1>1. /\ pre \in Seq(Seq(Token)) /\ Len(pre) = Len(fs)
      /\ seg \in Seq(Seq(Token)) /\ Len(seg) = Len(fs)
      /\ s = pre[Len(fs)] \o seg[Len(fs)]
  BY DEF Layout
<1>2. pre[Len(fs)] \in Seq(Token) /\ seg[Len(fs)] \in Seq(Token)
  BY <1>1, ElementOfSeq
<1> QED
  BY <1>1, <1>2, TwoTexts

\* The last frame reads on.
LEMMA LayoutGrows ==
  ASSUME NEW fs, NEW pre, NEW seg, NEW s, Layout(fs, pre, seg, s),
         Len(fs) \in Nat, Len(fs) >= 1,
         NEW x \in Seq(Token), NEW gs, Len(gs) = Len(fs),
         \A i \in 1..(Len(fs) - 1) : gs[i] = fs[i],
         Segment(gs[Len(fs)], seg[Len(fs)] \o x, MaxNesting + 1 - Len(fs))
  PROVE  Laid(gs, s \o x)
<1> DEFINE n    == Len(fs)
           more == [seg EXCEPT ![n] = seg[n] \o x]
<1>1. pre[n] \in Seq(Token) /\ seg[n] \in Seq(Token) /\ s = pre[n] \o seg[n]
  BY ZenonT(30), LayoutTop
<1>2. seg[n] \o x \in Seq(Token)
  BY <1>1, TwoTexts
<1>3. /\ pre \in Seq(Seq(Token)) /\ Len(pre) = n
      /\ seg \in Seq(Seq(Token)) /\ Len(seg) = n /\ pre[1] = <<>>
  BY DEF Layout
<1>4. /\ more \in Seq(Seq(Token)) /\ Len(more) = n /\ more[n] = seg[n] \o x
      /\ \A i \in 1..(n - 1) : more[i] = seg[i]
  BY SMTT(30), <1>2, <1>3, ExceptSeq
<1> HIDE DEF more
<1>5. \A i \in 1..(n - 1) : pre[i + 1] = pre[i] \o more[i]
  BY <1>4 DEF Layout
<1>6. ASSUME NEW i \in 1..n
      PROVE  Segment(gs[i], more[i], MaxNesting + 1 - i)
  <2>1. CASE i = n
    BY <1>4, <2>1
  <2>2. CASE i # n
    <3>1. i \in 1..(n - 1)
      BY <2>2
    <3>2. gs[i] = fs[i] /\ more[i] = seg[i]
      BY <1>4, <3>1
    <3> QED
      BY <3>2 DEF Layout
  <2> QED
    BY <2>1, <2>2
<1>7. s \o x = pre[n] \o more[n]
  <2>1. (pre[n] \o seg[n]) \o x = pre[n] \o (seg[n] \o x)
    BY <1>1, ThreeTexts, Zenon
  <2> QED
    BY <1>1, <1>4, <2>1, Zenon
<1>8. Layout(gs, pre, more, s \o x)
  BY <1>3, <1>4, <1>5, <1>6, <1>7 DEF Layout
<1> QED
  BY <1>8, Zenon DEF Laid

\* Another frame is opened.
LEMMA LayoutOpens ==
  ASSUME NEW fs, NEW pre, NEW seg, NEW s, Layout(fs, pre, seg, s),
         Len(fs) \in Nat, Len(fs) >= 1,
         NEW x \in Seq(Token), NEW gs, Len(gs) = Len(fs) + 1,
         \A i \in 1..Len(fs) : gs[i] = fs[i],
         Segment(gs[Len(fs) + 1], x, MaxNesting - Len(fs))
  PROVE  Laid(gs, s \o x)
<1> DEFINE n      == Len(fs)
           before == Append(pre, s)
           more   == Append(seg, x)
<1>1. s \in Seq(Token) /\ s = pre[n] \o seg[n]
  BY LayoutTop
<1>2. /\ pre \in Seq(Seq(Token)) /\ Len(pre) = n
      /\ seg \in Seq(Seq(Token)) /\ Len(seg) = n /\ pre[1] = <<>>
  BY DEF Layout
<1>3. /\ before \in Seq(Seq(Token)) /\ Len(before) = n + 1 /\ before[n + 1] = s
      /\ \A i \in 1..n : before[i] = pre[i]
  <2>1. s \in Seq(Token)
    BY <1>1
  <2>2. pre \in Seq(Seq(Token)) /\ Len(pre) = n
    BY <1>2
  <2> QED
    BY <2>1, <2>2, AppendProperties
<1>4. /\ more \in Seq(Seq(Token)) /\ Len(more) = n + 1 /\ more[n + 1] = x
      /\ \A i \in 1..n : more[i] = seg[i]
  BY <1>2, AppendProperties
<1> HIDE DEF before, more
<1>5. before[1] = <<>>
  BY <1>2, <1>3
<1>6. ASSUME NEW i \in 1..n
      PROVE  before[i + 1] = before[i] \o more[i]
  <2>1. before[i] = pre[i] /\ more[i] = seg[i]
    BY <1>3, <1>4
  <2>2. CASE i = n
    BY <1>1, <1>3, <2>1, <2>2
  <2>3. CASE i # n
    <3>1. i \in 1..(n - 1) /\ i + 1 \in 1..n
      BY <2>3
    <3>2. before[i + 1] = pre[i + 1]
      BY <1>3, <3>1
    <3>3. pre[i + 1] = pre[i] \o seg[i]
      BY <3>1 DEF Layout
    <3> QED
      BY <2>1, <3>2, <3>3
  <2> QED
    BY <2>2, <2>3
<1>7. ASSUME NEW i \in 1..(n + 1)
      PROVE  Segment(gs[i], more[i], MaxNesting + 1 - i)
  <2>1. CASE i = n + 1
    <3>1. MaxNesting + 1 - i = MaxNesting - n
      BY <2>1, TypeAssumption
    <3> QED
      BY <1>4, <2>1, <3>1
  <2>2. CASE i # n + 1
    <3>1. i \in 1..n
      BY <2>2
    <3>2. gs[i] = fs[i] /\ more[i] = seg[i]
      BY <1>4, <3>1
    <3> QED
      BY <3>1, <3>2 DEF Layout
  <2> QED
    BY <2>1, <2>2
<1>8. s \o x = before[n + 1] \o more[n + 1]
  BY <1>3, <1>4
<1>9. (n + 1) - 1 = n
  OBVIOUS
<1>10. Layout(gs, before, more, s \o x)
  BY <1>3, <1>4, <1>5, <1>6, <1>7, <1>8, <1>9 DEF Layout
<1> QED
  BY <1>10, Zenon DEF Laid

\* Without the last frame there is what was read before it was opened.
LEMMA LayoutCloses ==
  ASSUME NEW fs, NEW pre, NEW seg, NEW s, Layout(fs, pre, seg, s),
         Len(fs) \in Nat, Len(fs) > 1, NEW gs, Len(gs) = Len(fs) - 1,
         \A i \in 1..(Len(fs) - 1) : gs[i] = fs[i]
  PROVE  Laid(gs, pre[Len(fs)])
<1> DEFINE n      == Len(fs)
           before == SubSeq(pre, 1, n - 1)
           less   == SubSeq(seg, 1, n - 1)
<1>1. /\ pre \in Seq(Seq(Token)) /\ Len(pre) = n
      /\ seg \in Seq(Seq(Token)) /\ Len(seg) = n /\ pre[1] = <<>>
  BY DEF Layout
<1>2. /\ before \in Seq(Seq(Token)) /\ Len(before) = n - 1
      /\ \A i \in 1..(n - 1) : before[i] = pre[i]
  BY <1>1
<1>3. /\ less \in Seq(Seq(Token)) /\ Len(less) = n - 1
      /\ \A i \in 1..(n - 1) : less[i] = seg[i]
  BY SMTT(30), <1>1
<1> HIDE DEF before, less
<1>4. before[1] = <<>>
  <2>1. 1 \in 1..(n - 1)
    OBVIOUS
  <2> QED
    BY <1>1, <1>2, <2>1
<1>5. ASSUME NEW i \in 1..(n - 1)
      PROVE  Segment(gs[i], less[i], MaxNesting + 1 - i)
  <2>1. gs[i] = fs[i] /\ less[i] = seg[i]
    BY <1>3
  <2> QED
    BY <2>1 DEF Layout
<1>6. ASSUME NEW i \in 1..(n - 2)
      PROVE  before[i + 1] = before[i] \o less[i]
  <2>1. i \in 1..(n - 1) /\ i + 1 \in 1..(n - 1)
    OBVIOUS
  <2>2. pre[i + 1] = pre[i] \o seg[i]
    BY <2>1 DEF Layout
  <2> QED
    BY <1>2, <1>3, <2>1, <2>2
<1>7. pre[n] = before[n - 1] \o less[n - 1]
  <2>1. n - 1 \in 1..(n - 1) /\ (n - 1) + 1 = n
    OBVIOUS
  <2>2. pre[(n - 1) + 1] = pre[n - 1] \o seg[n - 1]
    BY <2>1 DEF Layout
  <2> QED
    BY <1>2, <1>3, <2>1, <2>2
<1>8. (n - 1) - 1 = n - 2
  OBVIOUS
<1>9. Layout(gs, before, less, pre[n])
  BY <1>2, <1>3, <1>4, <1>5, <1>6, <1>7, <1>8 DEF Layout
<1> QED
  BY <1>9, Zenon DEF Laid

-----------------------------------------------------------------------------
(***************************************************************************)
(* Every turn of the parser's loop keeps to the syntax.                    *)
(***************************************************************************)

LEMMA Shorter ==
  ASSUME NEW a \in Nat, NEW b \in Nat, NEW c \in Nat, NEW d, d = a + b, d + c <= MaxTokens
  PROVE  b + c <= MaxTokens
BY TypeAssumption

\* What the frames of a stack need of it here.
LEMMA StackTop ==
  ASSUME NEW fs, Stack(fs), Len(fs) <= MaxNesting + 1
  PROVE  /\ Len(fs) \in Nat /\ Len(fs) >= 1 /\ MaxNesting + 1 - Len(fs) \in Nat
         /\ fs[Len(fs)].kind \in Generic \cup {"root", "tuple"}
<1>1. PICK S : fs \in Seq(FrameOf(S))
  BY DEF Stack
<1>2. Len(fs) \in Nat /\ Len(fs) >= 1
  BY <1>1 DEF Stack
<1>3. fs[Len(fs)] \in FrameOf(S)
  BY <1>1, <1>2, ElementOfSeq
<1>4. fs[Len(fs)].kind \in Generic \cup {"root", "tuple"}
  BY <1>3 DEF FrameOf
<1> QED
  BY <1>2, <1>4, TypeAssumption

LEMMA LaidText ==
  ASSUME NEW fs, Stack(fs), Len(fs) <= MaxNesting + 1, NEW s, Laid(fs, s)
  PROVE  s \in Seq(Token) /\ Len(s) \in Nat
<1>1. PICK pre, seg : Layout(fs, pre, seg, s)
  BY DEF Laid
<1>2. Len(fs) \in Nat /\ Len(fs) >= 1
  BY StackTop
<1>3. s \in Seq(Token)
  BY <1>1, <1>2, LayoutTop
<1> QED
  BY <1>3

\* The last frame takes a phrase.
LEMMA TypeLaid ==
  ASSUME NEW fs, Stack(fs), Len(fs) <= MaxNesting + 1, Last(fs).expecting,
         NEW s, Laid(fs, s), NEW p, NEW t, Phrased(p, t, MaxNesting + 1 - Len(fs)),
         Len(s) + Len(p) <= MaxTokens
  PROVE  Laid(WithType(fs, t), s \o p)
<1> DEFINE n  == Len(fs)
           b  == MaxNesting + 1 - n
           gs == WithType(fs, t)
<1>1. PICK pre, seg : Layout(fs, pre, seg, s)
  BY DEF Laid
<1>2. n \in Nat /\ n >= 1 /\ b \in Nat /\ fs[n].kind \in Generic \cup {"root", "tuple"}
  BY StackTop
<1>3. /\ pre[n] \in Seq(Token) /\ seg[n] \in Seq(Token)
      /\ Len(s) = Len(pre[n]) + Len(seg[n])
  BY <1>1, <1>2, LayoutTop
<1>4. p \in Seq(Token)
  BY DEF Phrased
<1>5. Len(seg[n]) + Len(p) <= MaxTokens
  <2>1. Len(pre[n]) \in Nat /\ Len(seg[n]) \in Nat /\ Len(p) \in Nat
    BY <1>3, <1>4
  <2> QED
    BY <1>3, <2>1, Shorter
<1>6. /\ Len(gs) = n
      /\ gs[n].args = Append(fs[n].args, t)
      /\ gs[n].kind = fs[n].kind
      /\ ~gs[n].expecting /\ gs[n].comma = fs[n].comma
      /\ \A i \in 1..(n - 1) : gs[i] = fs[i]
  BY TypePushed
<1> HIDE DEF gs
<1>7. Segment(fs[n], seg[n], b) /\ fs[n].expecting
  BY <1>1, <1>2 DEF Layout, Last
<1>8. Segment(gs[n], seg[n] \o p, b)
  BY <1>2, <1>5, <1>6, <1>7, SegmentTakesType
<1>9. Laid(gs, s \o p)
  BY <1>1, <1>2, <1>4, <1>6, <1>8, LayoutGrows
<1> QED
  BY <1>9 DEF gs

\* push_type of a phrase that was read behind the frames.
LEMMA PhrasePushed ==
  ASSUME status = "reading", NEW fs, Stack(fs), Len(fs) <= MaxNesting + 1,
         NEW s, Laid(fs, s), NEW p, NEW t, Phrased(p, t, MaxNesting + 1 - Len(fs)),
         text' = s \o p, Len(text') <= MaxTokens, PushType(fs, t)
  PROVE  PhraseInv'
<1>1. CASE Last(fs).expecting
  <2>1. /\ frames' = WithType(fs, t) /\ pending' = "none" /\ status' = "reading"
    BY <1>1 DEF PushType, WithType
  <2>2. s \in Seq(Token) /\ p \in Seq(Token)
    BY LaidText DEF Phrased
  <2>3. text' \in Seq(Token) /\ Len(text') = Len(s) + Len(p)
    BY <2>2, TwoTexts
  <2>4. Laid(WithType(fs, t), text')
    BY <1>1, <2>3, TypeLaid
  <2>5. text' = text' \o <<>>
    BY <2>3, ConcatEmptySeq
  <2>6. TokensRead(frames', pending', text')
    BY <2>1, <2>3, <2>4, <2>5 DEF TokensRead
  <2> QED
    BY <2>1, <2>6 DEF PhraseInv
<1>2. CASE ~Last(fs).expecting
  BY <1>2 DEF PushType, Reject, Stop, PhraseInv
<1> QED
  BY <1>1, <1>2

\* An error ends all claims.
LEMMA StoppedPhrase ==
  ASSUME NEW reason \in {"rejected", "incomplete"}, Stop(reason)
  PROVE  PhraseInv'
BY DEF Stop, PhraseInv

\* PushFrame, behind the delimiter that opens the frame.
LEMMA FrameOpened ==
  ASSUME StackInv, status = "reading", Top.expecting,
         NEW s, Laid(frames, s), NEW kind \in Generic \cup {"tuple"},
         text' = s \o Opening(kind), Len(text') <= MaxTokens, PushFrame(kind)
  PROVE  PhraseInv'
<1> DEFINE n  == Len(frames)
           gs == Append(frames, Frame(kind))
<1>1. CASE Room
  <2>1. frames' = gs /\ pending' = "none" /\ status' = "reading"
    BY <1>1 DEF PushFrame
  <2>2. Len(gs) = n + 1 /\ gs[n + 1] = Frame(kind) /\ \A i \in 1..n : gs[i] = frames[i]
    BY FramePushed DEF StackInv, Top
  <2> HIDE DEF gs
  <2>3. n \in Nat /\ n >= 1
    BY StackTop DEF StackInv
  <2>4. PICK pre, seg : Layout(frames, pre, seg, s)
    BY DEF Laid
  <2>5. s \in Seq(Token) /\ Opening(kind) \in Seq(Token)
    BY LaidText, OpeningTokens DEF StackInv
  <2>6. Segment(Frame(kind), Opening(kind), MaxNesting - n)
    <3> DEFINE f == Frame(kind)
    <3>1. f.kind = kind /\ f.args = <<>> /\ f.expecting /\ ~f.comma
      BY DEF Frame
    <3>2. <<>> \in Seq(Token) /\ Len(<<>>) = 0
      OBVIOUS
    <3>3. Len(f.args) # 1 /\ Len(f.args) \notin 1..3 /\ f.args \in Seq(Token)
      BY <3>1, <3>2
    <3> HIDE DEF f
    <3>4. Body(f, <<>>, MaxNesting - n)
      BY <3>1, <3>2, <3>3, Zenon DEF Body
    <3>5. Opening(f.kind) \o <<>> = Opening(kind)
      BY <2>5, <3>1, ConcatEmptySeq
    <3> QED
      BY <3>4, <3>5 DEF Segment, f
  <2>7. Laid(gs, s \o Opening(kind))
    BY <2>2, <2>3, <2>4, <2>5, <2>6, LayoutOpens
  <2>8. text' \in Seq(Token)
    BY <2>5, TwoTexts
  <2>9. text' = text' \o <<>>
    BY <2>8, ConcatEmptySeq
  <2>10. TokensRead(frames', pending', text')
    BY <2>1, <2>7, <2>8, <2>9 DEF TokensRead
  <2> QED
    BY <2>1, <2>10 DEF PhraseInv
<1>2. CASE ~Room
  BY <1>2 DEF PushFrame, Reject, Stop, PhraseInv
<1> QED
  BY <1>1, <1>2

\* With no name pending the frames have read the whole text.
LEMMA AllRead ==
  ASSUME StackInv, TokensRead(frames, "none", text)
  PROVE  Laid(frames, text)
<1>1. PICK s : Laid(frames, s) /\ text = s \o <<>>
  BY DEF TokensRead
<1>2. s \in Seq(Token)
  BY <1>1, LaidText DEF StackInv
<1>3. s \o <<>> = s
  BY <1>2, ConcatEmptySeq
<1> QED
  BY <1>1, <1>3

\* With a name pending they have read all but the name.
LEMMA AllButName ==
  ASSUME StackInv, NEW name, name # "none", TokensRead(frames, name, text)
  PROVE  \E s : Laid(frames, s) /\ text = s \o <<name>> /\ s \in Seq(Token)
<1>1. PICK s : Laid(frames, s) /\ text = s \o <<name>>
  BY DEF TokensRead
<1>2. s \in Seq(Token)
  BY <1>1, LaidText DEF StackInv
<1> QED
  BY <1>1, <1>2

LEMMA NameRead ==
  ASSUME StackInv, PhraseInv, NEW name \in Name, ReadName(name)
  PROVE  PhraseInv'
<1>1. /\ status = "reading" /\ text' = text \o <<name>> /\ Len(text') <= MaxTokens
  BY DEF ReadName, Read
<1>2. TokensRead(frames, pending, text)
  BY <1>1 DEF PhraseInv
<1>3. CASE pending # "none" \/ ~Top.expecting
  BY <1>3, StoppedPhrase DEF ReadName, Reject
<1>4. ASSUME pending = "none", Top.expecting
      PROVE  PhraseInv'
  <2>1. Laid(frames, text)
    BY <1>2, <1>4, AllRead
  <2>2. text \in Seq(Token) /\ name \in Token
    BY <1>2 DEF TokensRead, Token
  <2>3. text' \in Seq(Token) /\ Len(text') = Len(text) + 1 /\ Len(text) \in Nat
    BY <1>1, <2>2, OneMore
  <2>4. CASE name \in Generic \cup {"bytearray"}
    <3>1. pending' = name /\ frames' = frames /\ status' = "reading" /\ name # "none"
      BY <1>1, <1>4, <2>4 DEF ReadName, Generic
    <3>2. TokensRead(frames, name, text')
      BY <1>1, <2>1, <2>3, <3>1 DEF TokensRead
    <3> QED
      BY <3>1, <3>2 DEF PhraseInv
  <2>5. CASE name \notin Generic \cup {"bytearray"}
    <3>1. PushType(frames, Named(name))
      BY <1>4, <2>5 DEF ReadName
    <3>2. name \in Basic \cup {"accounthash"}
      BY <2>5 DEF Name
    <3>3. MaxNesting + 1 - Len(frames) \in Nat /\ MaxTokens >= 1
      BY <1>1, <2>3, StackTop, TypeAssumption DEF StackInv
    <3>4. Phrased(<<name>>, Named(name), MaxNesting + 1 - Len(frames))
      BY <3>2, <3>3, NamePhrased
    <3> QED
      BY <1>1, <2>1, <3>1, <3>4, PhrasePushed DEF StackInv
  <2> QED
    BY <2>4, <2>5
<1> QED
  BY <1>3, <1>4

LEMMA OpenRead ==
  ASSUME StackInv, PhraseInv, NEW b \in {"<", "["}, ReadOpen(b)
  PROVE  PhraseInv'
<1>1. status = "reading" /\ text' = text \o <<b>> /\ Len(text') <= MaxTokens
  BY DEF ReadOpen, Read
<1>2. TokensRead(frames, pending, text)
  BY <1>1 DEF PhraseInv
<1>3. CASE pending # "none" /\ b = "<"
  <2>1. pending \in Generic /\ Top.expecting /\ PushFrame(pending)
    BY <1>3 DEF ReadOpen, StackInv
  <2>2. PICK s : Laid(frames, s) /\ text = s \o <<pending>> /\ s \in Seq(Token)
    BY <1>2, <1>3, AllButName
  <2>3. Opening(pending) = <<pending, "<">>
    BY <2>1 DEF Opening, Generic
  <2>4. pending \in Token /\ "<" \in Token
    BY <2>1 DEF Token, Punctuation, Name
  <2>5. <<pending>> \in Seq(Token) /\ <<"<">> \in Seq(Token)
    BY <2>4
  <2>6. (s \o <<pending>>) \o <<"<">> = s \o (<<pending>> \o <<"<">>)
    BY <2>2, <2>5, ThreeTexts, Zenon
  <2>7. <<pending>> \o <<"<">> = <<pending, "<">>
    BY <2>4, TwoTokens, Zenon
  <2>8. text' = s \o Opening(pending)
    BY <1>1, <1>3, <2>2, <2>3, <2>6, <2>7
  <2> QED
    BY <1>1, <2>1, <2>2, <2>8, FrameOpened
<1>4. CASE ~(pending # "none" /\ b = "<")
  BY <1>4, StoppedPhrase DEF ReadOpen, Reject
<1> QED
  BY <1>3, <1>4

LEMMA LengthRead ==
  ASSUME StackInv, PhraseInv, NEW b \in {"<", "["}, ReadLength(b)
  PROVE  PhraseInv'
<1>1. ASSUME NEW k \in DOMAIN Number, Read(<<b, k, Closing[b]>>),
             PushType(frames, ByteArray(Number[k]))
      PROVE  PhraseInv'
  <2> DEFINE p == <<b, k, Closing[b]>>
             q == <<"bytearray", b, k, Closing[b]>>
  <2>1. pending = "bytearray" /\ pending # "none"
    BY DEF ReadLength
  <2>2. status = "reading" /\ text' = text \o p /\ Len(text') <= MaxTokens
    BY <1>1 DEF Read
  <2>3. TokensRead(frames, pending, text)
    BY <2>2 DEF PhraseInv
  <2>4. PICK s : Laid(frames, s) /\ text = s \o <<"bytearray">> /\ s \in Seq(Token)
    BY <2>1, <2>3, AllButName
  <2>5. "bytearray" \in Token /\ b \in Token /\ k \in Token /\ Closing[b] \in Token
    BY DEF Token, Punctuation, Name, Closing
  <2>6. /\ <<"bytearray">> \in Seq(Token) /\ p \in Seq(Token) /\ q \in Seq(Token)
        /\ Len(<<"bytearray">>) = 1 /\ Len(p) = 3 /\ Len(q) = 4
    BY <2>5
  <2>7. <<"bytearray">> \o p = q
    <3> DEFINE r == <<"bytearray">> \o p
    <3>1. /\ r \in Seq(Token) /\ Len(r) = 4
          /\ \A i \in 1..4 : r[i] = IF i <= 1 THEN "bytearray" ELSE p[i - 1]
      BY <2>6, ConcatProperties
    <3>2. r[1] = q[1] /\ r[2] = q[2] /\ r[3] = q[3] /\ r[4] = q[4]
      BY <3>1
    <3> HIDE DEF r
    <3>3. \A i \in 1..4 : i = 1 \/ i = 2 \/ i = 3 \/ i = 4
      OBVIOUS
    <3>4. \A i \in 1..4 : r[i] = q[i]
      BY <3>2, <3>3, Zenon
    <3> HIDE DEF q
    <3>5. r = q
      BY <2>6, <3>1, <3>4, SeqEqual
    <3> QED
      BY <3>5 DEF r
  <2> HIDE DEF p, q
  <2>8. (s \o <<"bytearray">>) \o p = s \o (<<"bytearray">> \o p)
    BY <2>4, <2>6, ThreeTexts, Zenon
  <2>9. text' = s \o q
    BY <2>2, <2>4, <2>7, <2>8, Zenon
  <2>10. Len(text') = Len(s) + 4 /\ Len(s) \in Nat
    <3>1. Len(s \o q) = Len(s) + Len(q)
      BY <2>4, <2>6, TwoTexts
    <3>2. Len(s) \in Nat
      BY <2>4
    <3> QED
      BY <2>6, <2>9, <3>1, <3>2
  <2>11. MaxNesting + 1 - Len(frames) \in Nat /\ MaxTokens >= 4
    BY <2>2, <2>10, StackTop, TypeAssumption DEF StackInv
  <2>12. Phrased(q, ByteArray(Number[k]), MaxNesting + 1 - Len(frames))
    BY <2>11, ByteArrayPhrased DEF q
  <2> QED
    BY <1>1, <2>2, <2>4, <2>9, <2>12, PhrasePushed DEF StackInv
<1>2. CASE Reject \/ Stop("incomplete")
  BY <1>2, StoppedPhrase DEF Reject
<1> QED
  BY <1>1, <1>2 DEF ReadLength

LEMMA UnitRead ==
  ASSUME StackInv, PhraseInv, ReadUnit
  PROVE  PhraseInv'
<1>1. status = "reading" /\ text' = text \o <<"(", ")">> /\ Len(text') <= MaxTokens
  BY DEF ReadUnit, Read
<1>2. TokensRead(frames, pending, text)
  BY <1>1 DEF PhraseInv
<1>3. CASE pending # "none"
  BY <1>3, StoppedPhrase DEF ReadUnit, Reject
<1>4. ASSUME pending = "none"
      PROVE  PhraseInv'
  <2>1. Laid(frames, text)
    BY <1>2, <1>4, AllRead
  <2>2. text \in Seq(Token)
    BY <1>2 DEF TokensRead
  <2>3. <<"(", ")">> \in Seq(Token) /\ Len(<<"(", ")">>) = 2
    <3>1. "(" \in Token /\ ")" \in Token
      BY Delimiters
    <3> QED
      BY <3>1
  <2>4. Len(text') = Len(text) + 2 /\ Len(text) \in Nat
    BY <1>1, <2>2, <2>3, TwoTexts
  <2>5. MaxNesting + 1 - Len(frames) \in Nat /\ MaxTokens >= 2
    BY <1>1, <2>4, StackTop, TypeAssumption DEF StackInv
  <2>6. Phrased(<<"(", ")">>, Named("unit"), MaxNesting + 1 - Len(frames))
    BY <2>5, UnitPhrased
  <2>7. PushType(frames, Named("unit"))
    BY <1>4 DEF ReadUnit
  <2> QED
    BY <1>1, <2>1, <2>6, <2>7, PhrasePushed DEF StackInv
<1> QED
  BY <1>3, <1>4

LEMMA TupleRead ==
  ASSUME StackInv, PhraseInv, OpenTuple
  PROVE  PhraseInv'
<1>1. status = "reading" /\ text' = text \o <<"(">> /\ Len(text') <= MaxTokens
  BY DEF OpenTuple, Read
<1>2. TokensRead(frames, pending, text)
  BY <1>1 DEF PhraseInv
<1>3. CASE pending # "none" \/ ~Top.expecting
  BY <1>3, StoppedPhrase DEF OpenTuple, Reject
<1>4. ASSUME pending = "none", Top.expecting
      PROVE  PhraseInv'
  <2>1. Laid(frames, text)
    BY <1>2, <1>4, AllRead
  <2>2. Opening("tuple") = <<"(">>
    BY DEF Opening
  <2>3. PushFrame("tuple")
    BY <1>4 DEF OpenTuple
  <2> QED
    BY <1>1, <1>4, <2>1, <2>2, <2>3, FrameOpened
<1> QED
  BY <1>3, <1>4

LEMMA CommaRead ==
  ASSUME StackInv, PhraseInv, ReadComma
  PROVE  PhraseInv'
<1> DEFINE n  == Len(frames)
           b  == MaxNesting + 1 - n
           gs == WithComma(frames)
<1>1. status = "reading" /\ text' = text \o <<",">> /\ Len(text') <= MaxTokens
  BY DEF ReadComma, Read
<1>2. TokensRead(frames, pending, text)
  BY <1>1 DEF PhraseInv
<1>3. CASE pending # "none" \/ Top.kind = "root" \/ Top.expecting
  BY <1>3, StoppedPhrase DEF ReadComma, Reject
<1>4. ASSUME pending = "none", Top.kind # "root", ~Top.expecting
      PROVE  PhraseInv'
  <2>1. Laid(frames, text)
    BY <1>2, <1>4, AllRead
  <2>2. frames' = gs /\ pending' = "none" /\ status' = "reading"
    BY <1>1, <1>4 DEF ReadComma, WithComma
  <2>3. /\ Len(gs) = n /\ \A i \in 1..n : gs[i].args = frames[i].args
        /\ \A i \in 1..(n - 1) : gs[i] = frames[i]
        /\ gs[n].kind = frames[n].kind /\ gs[n].expecting
    BY <1>4, CommaTaken DEF StackInv, Top
  <2> HIDE DEF gs
  <2>4. n \in Nat /\ n >= 1 /\ b \in Nat /\ frames[n].kind \in Generic \cup {"root", "tuple"}
    BY StackTop DEF StackInv
  <2>5. PICK pre, seg : Layout(frames, pre, seg, text)
    BY <2>1 DEF Laid
  <2>6. Segment(frames[n], seg[n], b) /\ ~frames[n].expecting
    BY <1>4, <2>4, <2>5 DEF Layout, Top, Last
  <2>7. gs[n].args = frames[n].args
    BY <2>3, <2>4
  <2>8. Segment(gs[n], seg[n] \o <<",">>, b)
    BY <2>3, <2>4, <2>6, <2>7, SegmentTakesComma
  <2>9. <<",">> \in Seq(Token) /\ text \in Seq(Token)
    BY <1>2, Delimiters DEF TokensRead
  <2>10. Laid(gs, text')
    BY <1>1, <2>3, <2>4, <2>5, <2>8, <2>9, LayoutGrows
  <2>11. text' \in Seq(Token)
    BY <1>1, <2>9, TwoTexts
  <2>12. text' = text' \o <<>>
    BY <2>11, ConcatEmptySeq
  <2>13. TokensRead(frames', pending', text')
    BY <1>1, <2>2, <2>10, <2>11, <2>12 DEF TokensRead
  <2> QED
    BY <2>2, <2>13 DEF PhraseInv
<1> QED
  BY <1>3, <1>4

LEMMA CloseRead ==
  ASSUME StackInv, PhraseInv, NEW delimiter \in {">", "]", ")"}, ReadClose(delimiter)
  PROVE  PhraseInv'
<1> DEFINE n == Len(frames)
           b == MaxNesting + 1 - n
<1>1. status = "reading" /\ text' = text \o <<delimiter>> /\ Len(text') <= MaxTokens
  BY DEF ReadClose, Read
<1>2. TokensRead(frames, pending, text)
  BY <1>1 DEF PhraseInv
<1>3. ASSUME pending = "none", Matches(delimiter, Top.kind), Complete(Top), Fits(Top)
      PROVE  PhraseInv'
  <2>1. Laid(frames, text)
    BY <1>2, <1>3, AllRead
  <2>2. Top = frames[n] /\ Top.kind \in Generic \cup {"tuple"} /\ Top.kind # "root"
    BY <1>3 DEF Top, Last, Matches, Generic
  <2>3. /\ Stack(Front(frames)) /\ Len(Front(frames)) = n - 1
        /\ \A i \in 1..(n - 1) : Front(frames)[i] = frames[i]
    BY <2>2, FrameClosed DEF StackInv, Top
  <2>4. n \in Nat /\ n >= 1 /\ b \in Nat
    BY StackTop DEF StackInv
  <2>5. n > 1
    <3>1. frames[1].kind = "root"
      BY DEF StackInv, Stack
    <3>2. n # 1
      BY <2>2, <3>1
    <3>3. \A k \in Nat : k # 1 /\ k >= 1 => k > 1
      OBVIOUS
    <3> QED
      BY <2>4, <3>2, <3>3, Zenon
  <2>6. /\ Len(Front(frames)) <= MaxNesting + 1 /\ b < MaxNesting
        /\ MaxNesting + 1 - (n - 1) = b + 1
    BY <2>3, <2>4, <2>5, TypeAssumption DEF StackInv
  <2>7. PICK pre, seg : Layout(frames, pre, seg, text)
    BY <2>1 DEF Laid
  <2>8. /\ pre[n] \in Seq(Token) /\ seg[n] \in Seq(Token) /\ text \in Seq(Token)
        /\ text = pre[n] \o seg[n] /\ Len(text) = Len(pre[n]) + Len(seg[n])
    BY <2>4, <2>7, LayoutTop
  <2>9. Laid(Front(frames), pre[n])
    BY <2>3, <2>4, <2>5, <2>7, LayoutCloses
  <2>10. Segment(frames[n], seg[n], b)
    BY <2>4, <2>7 DEF Layout
  <2>11. delimiter \in Token
    BY DEF Token, Punctuation
  <2>12. Len(seg[n]) + 1 <= MaxTokens
    <3>1. Len(text') = Len(text) + 1
      BY <1>1, <2>8, <2>11, OneMore
    <3>2. Len(pre[n]) \in Nat /\ Len(seg[n]) \in Nat
      BY <2>8
    <3>3. Len(text) + 1 <= MaxTokens
      BY <1>1, <3>1
    <3>4. 1 \in Nat /\ Len(text) = Len(pre[n]) + Len(seg[n])
      BY <2>8
    <3> QED
      BY <3>2, <3>3, <3>4, Shorter, Zenon
  <2>13. Phrased(seg[n] \o <<delimiter>>, Built(Top), b + 1)
    BY <1>3, <2>2, <2>4, <2>6, <2>10, <2>12, SegmentCloses
  <2>14. text' = pre[n] \o (seg[n] \o <<delimiter>>)
    <3>1. <<delimiter>> \in Seq(Token)
      BY <2>11
    <3>2. (pre[n] \o seg[n]) \o <<delimiter>> = pre[n] \o (seg[n] \o <<delimiter>>)
      BY <2>8, <3>1, ThreeTexts, ZenonT(30)
    <3> QED
      BY <1>1, <2>8, <3>2, Zenon
  <2>15. PushType(Front(frames), Built(Top))
    BY <1>3 DEF ReadClose
  <2>16. Phrased(seg[n] \o <<delimiter>>, Built(Top), MaxNesting + 1 - Len(Front(frames)))
    BY <2>3, <2>6, <2>13
  <2> QED
    BY <1>1, <2>3, <2>6, <2>9, <2>14, <2>15, <2>16, PhrasePushed
<1>4. CASE ~(/\ pending = "none" /\ Matches(delimiter, Top.kind)
             /\ Complete(Top) /\ Fits(Top))
  BY <1>4, StoppedPhrase DEF ReadClose, Reject
<1> QED
  BY <1>3, <1>4

\* What the root has read when it waits for nothing more is a phrase.
LEMMA RootIsPhrase ==
  ASSUME StackInv, TokensRead(frames, "none", text), Len(frames) = 1, ~Top.expecting
  PROVE  \E nesting \in 0..MaxNesting : Phrase(text, Parsed, nesting) \in Written
<1>1. PICK pre, seg : Layout(frames, pre, seg, text)
  BY AllRead DEF Laid
<1>2. /\ seg[1] \in Seq(Token) /\ text = pre[1] \o seg[1] /\ pre[1] = <<>>
      /\ Segment(frames[1], seg[1], MaxNesting + 1 - 1)
  <2>1. Len(frames) \in Nat /\ Len(frames) >= 1 /\ 1 \in 1..Len(frames)
    OBVIOUS
  <2>2. seg[Len(frames)] \in Seq(Token) /\ text = pre[Len(frames)] \o seg[Len(frames)]
    BY <1>1, <2>1, LayoutTop
  <2>3. pre[1] = <<>> /\ Segment(frames[1], seg[1], MaxNesting + 1 - 1)
    BY <1>1, <2>1 DEF Layout
  <2> QED
    BY <2>2, <2>3
<1>3. text = seg[1]
  BY <1>2, ConcatEmptySeq
<1>4. frames[1].kind = "root" /\ ~frames[1].expecting
  BY DEF StackInv, Stack, Top, Last
<1>5. PICK t : frames[1].args = <<t>>
  BY <1>4 DEF StackInv, Stack
<1>6. Len(frames[1].args) = 1 /\ frames[1].args[1] = t
  BY <1>5
<1>7. PICK body : seg[1] = Opening("root") \o body /\ Body(frames[1], body, MaxNesting)
  <2>1. MaxNesting + 1 - 1 = MaxNesting
    BY TypeAssumption
  <2> QED
    BY <1>2, <1>4, <2>1 DEF Segment
<1>8. Opening("root") = <<>> /\ body \in Seq(Token)
  BY <1>7 DEF Opening, Body
<1>9. text = body
  BY <1>3, <1>7, <1>8, ConcatEmptySeq
<1>10. Listed(text, frames[1].args, MaxNesting)
  <2>1. Len(frames[1].args) \in 1..3
    BY <1>6
  <2> QED
    BY <1>4, <1>7, <1>9, <2>1, Zenon DEF Body
<1>11. Phrased(text, Parsed, MaxNesting)
  BY <1>6, <1>10 DEF Listed, Parsed
<1>12. PICK d \in 0..MaxNesting : Phrase(text, Parsed, d) \in Phrases[Len(text)]
  BY <1>11 DEF Phrased
<1>13. Len(text) \in 0..MaxTokens
  BY <1>11 DEF Phrased
<1>14. Phrase(text, Parsed, d) \in Written
  BY <1>12, <1>13, Zenon DEF Written
<1> QED
  BY <1>12, <1>14

\* Whatever is accepted as a type is a phrase of the accepted syntax, with commas
\* and brackets of the right kind in the right places and no more types nested in
\* each other than MAX_TYPE_NESTING, and it is read as the type that the phrase
\* stands for: for all names, all depths and texts of all lengths (parse_cl_type).
THEOREM AcceptedIsPhrase == TypeSpec => []OnlyPhrases
<1>1. StackInv /\ TypeInit => PhraseInv
  <2> SUFFICES ASSUME StackInv, TypeInit
               PROVE  PhraseInv
    OBVIOUS
  <2> DEFINE f == Frame("root")
  <2>1. /\ text = <<>> /\ frames = <<f>> /\ pending = "none" /\ status = "reading"
    BY DEF TypeInit
  <2>2. <<>> \in Seq(Token) /\ <<>> \o <<>> = <<>> /\ Len(<<>>) = 0
    OBVIOUS
  <2>3. f.kind = "root" /\ f.args = <<>> /\ f.expecting /\ ~f.comma
    BY DEF Frame
  <2>4. Segment(f, <<>>, MaxNesting + 1 - 1)
    <3> HIDE DEF f
    <3>1. Len(f.args) # 1 /\ Len(f.args) \notin 1..3 /\ f.args \in Seq(Token)
      BY <2>2, <2>3
    <3>2. Body(f, <<>>, MaxNesting + 1 - 1)
      BY <2>2, <2>3, <3>1, Zenon DEF Body
    <3>3. <<>> = Opening(f.kind) \o <<>>
      BY <2>2, <2>3 DEF Opening
    <3> QED
      BY <3>2, <3>3 DEF Segment
  <2> HIDE DEF f
  <2>5. Layout(frames, <<<<>>>>, <<<<>>>>, <<>>)
    <3>1. <<<<>>>> \in Seq(Seq(Token)) /\ Len(<<<<>>>>) = 1 /\ <<<<>>>>[1] = <<>>
      BY <2>2
    <3>2. Len(frames) = 1 /\ frames[1] = f
      BY <2>1
    <3>3. \A i \in 1..Len(frames) : i = 1
      BY <3>2
    <3>4. \A i \in 1..Len(frames) : Segment(frames[i], <<<<>>>>[i], MaxNesting + 1 - i)
      BY <2>4, <3>1, <3>2, <3>3
    <3>5. 1..(Len(frames) - 1) = {}
      BY <3>2
    <3> QED
      BY <2>2, <3>1, <3>2, <3>4, <3>5 DEF Layout
  <2>6. TokensRead(frames, pending, text)
    BY <2>1, <2>2, <2>5, TypeAssumption DEF TokensRead, Laid
  <2> QED
    BY <2>1, <2>6 DEF PhraseInv
<1>2. StackInv /\ PhraseInv /\ [TypeNext]_typeVars => PhraseInv'
  <2> SUFFICES ASSUME StackInv, PhraseInv, [TypeNext]_typeVars
               PROVE  PhraseInv'
    OBVIOUS
  <2>1. CASE \E n \in DOMAIN Number : ReadNumber(n)
    BY <2>1, StoppedPhrase DEF ReadNumber, Reject
  <2>2. CASE End
    BY <2>2 DEF End, Stop, PhraseInv
  <2>3. CASE UNCHANGED typeVars
    BY <2>3 DEF typeVars, PhraseInv
  <2> QED
    BY <2>1, <2>2, <2>3, NameRead, OpenRead, LengthRead, UnitRead, TupleRead, CommaRead,
       CloseRead DEF TypeNext
<1>3. StackInv /\ PhraseInv => OnlyPhrases
  <2> SUFFICES ASSUME StackInv, PhraseInv, status = "accepted"
               PROVE  \E nesting \in 0..MaxNesting : Phrase(text, Parsed, nesting) \in Written
    BY DEF OnlyPhrases
  <2>1. Len(frames) = 1 /\ ~Top.expecting /\ TokensRead(frames, "none", text)
    BY DEF StackInv, PhraseInv
  <2> QED
    BY <2>1, RootIsPhrase
<1> QED
  BY <1>1, <1>2, <1>3, StackInvariant, PTL DEF TypeSpec


-----------------------------------------------------------------------------
(***************************************************************************)
(* The way of the parser through a given text.  A configuration is what    *)
(* the variables are at some time; a turn of the loop takes one to another *)
(* and is told by the first token that it reads.                           *)
(***************************************************************************)

At(t, fs, p, s) == [text |-> t, frames |-> fs, pending |-> p, status |-> s]

Reading(t, fs) == At(t, fs, "none", "reading")

Now == At(text, frames, pending, status)

\* Where the next token is one that may follow, these are the turns that read it.
NameTurn(c, tokens, e) ==
  \A name \in Name :
    tokens[1] = name /\ c.pending = "none" /\ Last(c.frames).expecting =>
      /\ tokens = <<name>>
      /\ e = IF name \in Generic \cup {"bytearray"}
             THEN At(c.text \o tokens, c.frames, name, "reading")
             ELSE Reading(c.text \o tokens, WithType(c.frames, Named(name)))

OpenTurn(c, tokens, e) ==
  tokens[1] = "<" /\ c.pending \in Generic /\ Len(c.frames) <= MaxNesting =>
    /\ tokens = <<"<">>
    /\ e = Reading(c.text \o tokens, Append(c.frames, Frame(c.pending)))

LengthTurn(c, tokens, e) ==
  \A b \in {"<", "["} :
    tokens[1] = b /\ c.pending = "bytearray" /\ Last(c.frames).expecting =>
      \/ \E n \in DOMAIN Number :
           /\ tokens = <<b, n, Closing[b]>>
           /\ e = Reading(c.text \o tokens, WithType(c.frames, ByteArray(Number[n])))
      \/ \E n \in DOMAIN Number : \E other \in Token \ {Closing[b]} : tokens = <<b, n, other>>
      \/ \E other \in Token \ DOMAIN Number : tokens = <<b, other>>
      \/ Len(tokens) < 3 /\ e = At(c.text \o tokens, c.frames, c.pending, "incomplete")

TupleTurn(c, tokens, e) ==
  tokens[1] = "(" /\ c.pending = "none" /\ Last(c.frames).expecting =>
    \/ /\ tokens = <<"(", ")">>
       /\ e = Reading(c.text \o tokens, WithType(c.frames, Named("unit")))
    \/ /\ tokens = <<"(">>
       /\ e = IF Len(c.frames) <= MaxNesting
              THEN Reading(c.text \o tokens, Append(c.frames, Frame("tuple")))
              ELSE At(c.text \o tokens, c.frames, "none", "rejected")

CommaTurn(c, tokens, e) ==
  /\ tokens[1] = "," /\ c.pending = "none"
  /\ Last(c.frames).kind # "root" /\ ~Last(c.frames).expecting
  => /\ tokens = <<",">>
     /\ e = Reading(c.text \o tokens, WithComma(c.frames))

CloseTurn(c, tokens, e) ==
  \A delimiter \in {">", ")"} :
    tokens[1] = delimiter =>
      /\ ~(delimiter = ")" /\ c.pending = "none" /\ c.text # <<>> /\ Last(c.text) = "(")
      /\ /\ c.pending = "none" /\ Matches(delimiter, Last(c.frames).kind)
         /\ Complete(Last(c.frames)) /\ Fits(Last(c.frames))
         /\ Last(Front(c.frames)).expecting
         => /\ tokens = <<delimiter>>
            /\ e = Reading(c.text \o tokens, WithType(Front(c.frames), Built(Last(c.frames))))

Turn(c, tokens, e) ==
  /\ NameTurn(c, tokens, e) /\ OpenTurn(c, tokens, e) /\ LengthTurn(c, tokens, e)
  /\ TupleTurn(c, tokens, e) /\ CommaTurn(c, tokens, e) /\ CloseTurn(c, tokens, e)

EndTurn(c, e) ==
  e = At(c.text, c.frames, c.pending,
         IF c.pending = "none" /\ Len(c.frames) = 1 /\ ~Last(c.frames).expecting
         THEN "accepted" ELSE "incomplete")

Moves(c, e) ==
  /\ c.status = "reading"
  /\ \/ EndTurn(c, e)
     \/ \E tokens \in Seq(Token) \ {<<>>} : e.text = c.text \o tokens /\ Turn(c, tokens, e)

\* A token is told from the others.
LEMMA Kinds ==
  /\ Punctuation \cap (Name \cup DOMAIN Number) = {}
  /\ Name \cap DOMAIN Number = {}
  /\ Basic \cap (Generic \cup {"bytearray", "accounthash"}) = {}
  /\ Generic \cap {"bytearray", "accounthash", "none"} = {}
  /\ "none" \notin Name
  /\ Punctuation \cup Name \cup DOMAIN Number = Token
BY TypeAssumption DEF Token, Name, Generic, Punctuation

LEMMA OneToken ==
  ASSUME NEW T, NEW t \in T
  PROVE  <<t>> \in Seq(T) \ {<<>>} /\ <<t>>[1] = t
OBVIOUS

\* Every turn of the loop is such a move.
LEMMA NameMoves ==
  ASSUME NEW name \in Name, ReadName(name)
  PROVE  \E tokens \in Seq(Token) \ {<<>>} : text' = text \o tokens /\ Turn(Now, tokens, Now')
<1> DEFINE tokens == <<name>>
<1>1. tokens \in Seq(Token) \ {<<>>} /\ tokens[1] = name /\ text' = text \o tokens
  BY DEF ReadName, Read, Token
<1>2. status = "reading"
  BY DEF ReadName, Read
<1>3. NameTurn(Now, tokens, Now')
  <2> SUFFICES ASSUME pending = "none", Top.expecting
               PROVE  Now' = IF name \in Generic \cup {"bytearray"}
                             THEN At(text \o tokens, frames, name, "reading")
                             ELSE Reading(text \o tokens, WithType(frames, Named(name)))
    BY <1>1, Zenon DEF NameTurn, Now, At, Top
  <2>1. CASE name \in Generic \cup {"bytearray"}
    BY <1>1, <1>2, <2>1 DEF ReadName, Now, At
  <2>2. CASE name \notin Generic \cup {"bytearray"}
    <3>1. PushType(frames, Named(name))
      BY <2>2 DEF ReadName
    <3>2. frames' = WithType(frames, Named(name)) /\ pending' = "none" /\ status' = status
      BY <3>1 DEF PushType, WithType, Top
    <3> QED
      BY <1>1, <1>2, <2>2, <3>2 DEF Now, At, Reading
  <2> QED
    BY <2>1, <2>2
<1>4. tokens[1] \notin Punctuation
  BY <1>1, Kinds
<1> HIDE DEF tokens
<1>5. Turn(Now, tokens, Now')
  BY <1>3, <1>4
     DEF Turn, OpenTurn, LengthTurn, TupleTurn, CommaTurn, CloseTurn, Punctuation
<1> QED
  BY <1>1, <1>5

LEMMA NumberMoves ==
  ASSUME NEW n \in DOMAIN Number, ReadNumber(n)
  PROVE  \E tokens \in Seq(Token) \ {<<>>} : text' = text \o tokens /\ Turn(Now, tokens, Now')
<1> DEFINE tokens == <<n>>
<1>1. tokens \in Seq(Token) \ {<<>>} /\ tokens[1] = n /\ text' = text \o tokens
  BY DEF ReadNumber, Read, Token
<1>2. tokens[1] \notin Punctuation /\ tokens[1] \notin Name
  BY <1>1, Kinds
<1> HIDE DEF tokens
<1>3. Turn(Now, tokens, Now')
  BY <1>2
     DEF Turn, NameTurn, OpenTurn, LengthTurn, TupleTurn, CommaTurn, CloseTurn, Punctuation
<1> QED
  BY <1>1, <1>3

LEMMA OpenMoves ==
  ASSUME NEW b \in {"<", "["}, ReadOpen(b)
  PROVE  \E tokens \in Seq(Token) \ {<<>>} : text' = text \o tokens /\ Turn(Now, tokens, Now')
<1> DEFINE tokens == <<b>>
<1>1. tokens \in Seq(Token) \ {<<>>} /\ tokens[1] = b /\ text' = text \o tokens
  <2>1. b \in Token /\ Read(tokens)
    BY DEF ReadOpen, Token, Punctuation
  <2> QED
    BY <2>1 DEF Read
<1>2. status = "reading" /\ pending # "bytearray"
  BY DEF ReadOpen, Read
<1>3. OpenTurn(Now, tokens, Now')
  <2> SUFFICES ASSUME b = "<", pending \in Generic, Room
               PROVE  /\ tokens = <<"<">>
                      /\ Now' = Reading(text \o tokens, Append(frames, Frame(pending)))
    BY <1>1 DEF OpenTurn, Now, At, Room
  <2>1. PushFrame(pending)
    BY Kinds DEF ReadOpen
  <2>2. /\ frames' = Append(frames, Frame(pending))
        /\ pending' = "none" /\ status' = status
    BY <2>1 DEF PushFrame
  <2> QED
    BY <1>1, <1>2, <2>2 DEF Now, At, Reading
<1>4. tokens[1] \in Punctuation /\ tokens[1] \notin Name
  BY <1>1, Kinds DEF Punctuation
<1>5. Turn(Now, tokens, Now')
  <2> HIDE DEF tokens
  <2> QED
    BY <1>1, <1>2, <1>3, <1>4
       DEF Turn, NameTurn, LengthTurn, TupleTurn, CommaTurn, CloseTurn, Now, At
<1> QED
  BY <1>1, <1>5

LEMMA LengthMoves ==
  ASSUME NEW b \in {"<", "["}, ReadLength(b)
  PROVE  \E tokens \in Seq(Token) \ {<<>>} : text' = text \o tokens /\ Turn(Now, tokens, Now')
<1> SUFFICES ASSUME NEW tokens, Read(tokens), tokens \in Seq(Token) \ {<<>>}, tokens[1] = b,
                    Top.expecting => LengthTurn(Now, tokens, Now')
             PROVE  \E k \in Seq(Token) \ {<<>>} : text' = text \o k /\ Turn(Now, k, Now')
  <2>1. pending = "bytearray" /\ b \in Token /\ Closing[b] \in Token
    BY DEF ReadLength, Closing, Token, Punctuation
  <2>2. ASSUME NEW n \in DOMAIN Number
        PROVE  n \in Token
    BY DEF Token
  <2>3. ASSUME NEW n \in DOMAIN Number, Read(<<b, n, Closing[b]>>),
               PushType(frames, ByteArray(Number[n]))
        PROVE  \E tokens : /\ Read(tokens) /\ tokens \in Seq(Token) \ {<<>>} /\ tokens[1] = b
                           /\ Top.expecting => LengthTurn(Now, tokens, Now')
    <3> DEFINE tokens == <<b, n, Closing[b]>>
    <3>1. tokens \in Seq(Token) \ {<<>>} /\ tokens[1] = b /\ text' = text \o tokens
      BY <2>1, <2>2, <2>3 DEF Read
    <3>2. ASSUME Top.expecting
          PROVE  Now' = Reading(text \o tokens, WithType(frames, ByteArray(Number[n])))
      <4>1. /\ frames' = WithType(frames, ByteArray(Number[n]))
            /\ pending' = "none" /\ status' = status
        BY <2>3, <3>2 DEF PushType, WithType, Top
      <4> QED
        BY <2>3, <3>1, <4>1 DEF Now, At, Reading, Read
    <3>3. Now.text = text /\ Now.frames = frames
      BY DEF Now, At
    <3>4. Top.expecting => LengthTurn(Now, tokens, Now')
      BY <3>1, <3>2, <3>3 DEF LengthTurn
    <3> QED
      BY <2>3, <3>1, <3>4
  <2>4. ASSUME NEW n \in DOMAIN Number, NEW other \in Token \ {Closing[b]},
               Read(<<b, n, other>>)
        PROVE  \E tokens : /\ Read(tokens) /\ tokens \in Seq(Token) \ {<<>>} /\ tokens[1] = b
                           /\ Top.expecting => LengthTurn(Now, tokens, Now')
    <3> DEFINE tokens == <<b, n, other>>
    <3>1. tokens \in Seq(Token) \ {<<>>} /\ tokens[1] = b
      BY <2>1, <2>2, <2>4
    <3>2. LengthTurn(Now, tokens, Now')
      BY <3>1 DEF LengthTurn
    <3> QED
      BY <2>4, <3>1, <3>2
  <2>5. ASSUME NEW other \in Token \ DOMAIN Number, Read(<<b, other>>)
        PROVE  \E tokens : /\ Read(tokens) /\ tokens \in Seq(Token) \ {<<>>} /\ tokens[1] = b
                           /\ Top.expecting => LengthTurn(Now, tokens, Now')
    <3> DEFINE tokens == <<b, other>>
    <3>1. tokens \in Seq(Token) \ {<<>>} /\ tokens[1] = b
      BY <2>1, <2>5
    <3>2. LengthTurn(Now, tokens, Now')
      BY <3>1 DEF LengthTurn
    <3> QED
      BY <2>5, <3>1, <3>2
  <2>6. ASSUME NEW tokens \in Seq(Token) \ {<<>>}, Read(tokens), tokens[1] = b,
               Len(tokens) < 3, Stop("incomplete")
        PROVE  \E k : /\ Read(k) /\ k \in Seq(Token) \ {<<>>} /\ k[1] = b
                      /\ Top.expecting => LengthTurn(Now, k, Now')
    <3>1. Now' = At(text \o tokens, frames, pending, "incomplete")
      BY <2>6 DEF Now, At, Read, Stop
    <3>2. Now.text = text /\ Now.frames = frames /\ Now.pending = pending
      BY DEF Now, At
    <3>3. LengthTurn(Now, tokens, Now')
      BY <2>6, <3>1, <3>2 DEF LengthTurn
    <3> QED
      BY <2>6, <3>3
  <2>7. ASSUME NEW n \in DOMAIN Number
        PROVE  <<b, n>> \in Seq(Token) \ {<<>>} /\ <<b, n>>[1] = b /\ Len(<<b, n>>) < 3
    BY <2>1, <2>2
  <2>8. <<b>> \in Seq(Token) \ {<<>>} /\ <<b>>[1] = b /\ Len(<<b>>) < 3
    BY <2>1
  <2>9. ASSUME NEW n \in DOMAIN Number, Read(<<b, n>>), Stop("incomplete")
        PROVE  \E k : /\ Read(k) /\ k \in Seq(Token) \ {<<>>} /\ k[1] = b
                      /\ Top.expecting => LengthTurn(Now, k, Now')
    BY <2>6, <2>7, <2>9
  <2>10. ASSUME Read(<<b>>), Stop("incomplete")
         PROVE  \E k : /\ Read(k) /\ k \in Seq(Token) \ {<<>>} /\ k[1] = b
                       /\ Top.expecting => LengthTurn(Now, k, Now')
    BY <2>6, <2>8, <2>10
  <2>11. \E k : /\ Read(k) /\ k \in Seq(Token) \ {<<>>} /\ k[1] = b
                /\ Top.expecting => LengthTurn(Now, k, Now')
    BY <2>3, <2>4, <2>5, <2>9, <2>10, Zenon DEF ReadLength
  <2> QED
    BY <2>11
<1>1. text' = text \o tokens
  BY DEF Read
<1>2. pending = "bytearray"
  BY DEF ReadLength
<1>3. tokens[1] \in Punctuation /\ tokens[1] \notin Name
  BY Kinds DEF Punctuation
<1>4. Now.pending = "bytearray" /\ Now.frames = frames
  BY <1>2 DEF Now, At
<1>5. OpenTurn(Now, tokens, Now')
  BY <1>4, Kinds DEF OpenTurn
<1>6. LengthTurn(Now, tokens, Now')
  BY <1>4 DEF LengthTurn, Top
<1>7. Turn(Now, tokens, Now')
  BY <1>3, <1>4, <1>5, <1>6 DEF Turn, NameTurn, TupleTurn, CommaTurn, CloseTurn
<1> QED
  BY <1>1, <1>7

LEMMA UnitMoves ==
  ASSUME ReadUnit
  PROVE  \E tokens \in Seq(Token) \ {<<>>} : text' = text \o tokens /\ Turn(Now, tokens, Now')
<1> DEFINE tokens == <<"(", ")">>
<1>1. tokens \in Seq(Token) \ {<<>>} /\ tokens[1] = "(" /\ text' = text \o tokens
  BY DEF ReadUnit, Read, Token, Punctuation
<1>2. TupleTurn(Now, tokens, Now')
  <2> SUFFICES ASSUME pending = "none", Top.expecting
               PROVE  Now' = Reading(text \o tokens, WithType(frames, Named("unit")))
    BY <1>1, Zenon DEF TupleTurn, Now, At, Top
  <2>1. /\ frames' = WithType(frames, Named("unit"))
        /\ pending' = "none" /\ status' = status /\ status = "reading"
    BY DEF ReadUnit, Read, PushType, WithType, Top
  <2> QED
    BY <1>1, <2>1 DEF Now, At, Reading
<1>3. tokens[1] \notin Name
  BY <1>1, Kinds DEF Punctuation
<1> HIDE DEF tokens
<1>4. Turn(Now, tokens, Now')
  BY <1>1, <1>2, <1>3 DEF Turn, NameTurn, OpenTurn, LengthTurn, CommaTurn, CloseTurn
<1> QED
  BY <1>1, <1>4

LEMMA TupleMoves ==
  ASSUME OpenTuple
  PROVE  \E tokens \in Seq(Token) \ {<<>>} : text' = text \o tokens /\ Turn(Now, tokens, Now')
<1> DEFINE tokens == <<"(">>
<1>1. tokens \in Seq(Token) \ {<<>>} /\ tokens[1] = "(" /\ text' = text \o tokens
  BY DEF OpenTuple, Read, Token, Punctuation
<1>2. TupleTurn(Now, tokens, Now')
  <2> SUFFICES ASSUME pending = "none", Top.expecting
               PROVE  Now' = IF Room
                             THEN Reading(text \o tokens, Append(frames, Frame("tuple")))
                             ELSE At(text \o tokens, frames, "none", "rejected")
    BY <1>1, Zenon DEF TupleTurn, Now, At, Top, Room
  <2>1. PushFrame("tuple") /\ status = "reading"
    BY DEF OpenTuple, Read
  <2>2. CASE Room
    <3>1. frames' = Append(frames, Frame("tuple")) /\ pending' = "none" /\ status' = status
      BY <2>1, <2>2 DEF PushFrame
    <3> QED
      BY <1>1, <2>1, <2>2, <3>1 DEF Now, At, Reading
  <2>3. CASE ~Room
    <3>1. frames' = frames /\ pending' = pending /\ status' = "rejected"
      BY <2>1, <2>3 DEF PushFrame, Reject, Stop
    <3> QED
      BY <1>1, <2>3, <3>1 DEF Now, At
  <2> QED
    BY <2>2, <2>3
<1>3. tokens[1] \notin Name
  BY <1>1, Kinds DEF Punctuation
<1> HIDE DEF tokens
<1>4. Turn(Now, tokens, Now')
  BY <1>1, <1>2, <1>3 DEF Turn, NameTurn, OpenTurn, LengthTurn, CommaTurn, CloseTurn
<1> QED
  BY <1>1, <1>4

LEMMA CommaMoves ==
  ASSUME ReadComma
  PROVE  \E tokens \in Seq(Token) \ {<<>>} : text' = text \o tokens /\ Turn(Now, tokens, Now')
<1> DEFINE tokens == <<",">>
<1>1. tokens \in Seq(Token) \ {<<>>} /\ tokens[1] = "," /\ text' = text \o tokens
  <2>1. "," \in Token
    BY DEF Token, Punctuation
  <2>2. tokens \in Seq(Token) \ {<<>>} /\ tokens[1] = ","
    BY <2>1, OneToken
  <2>3. text' = text \o tokens
    BY Zenon DEF ReadComma, Read
  <2> QED
    BY <2>2, <2>3
<1>2. CommaTurn(Now, tokens, Now')
  <2> SUFFICES ASSUME pending = "none", Top.kind # "root", ~Top.expecting
               PROVE  Now' = Reading(text \o tokens, WithComma(frames))
    BY <1>1, Zenon DEF CommaTurn, Now, At, Top
  <2>1. /\ frames' = WithComma(frames)
        /\ pending' = pending /\ status' = status /\ status = "reading"
    BY DEF ReadComma, Read, WithComma, Top
  <2> QED
    BY <1>1, <2>1 DEF Now, At, Reading
<1>3. tokens[1] \notin Name
  BY <1>1, Kinds DEF Punctuation
<1> HIDE DEF tokens
<1>4. Turn(Now, tokens, Now')
  BY <1>1, <1>2, <1>3 DEF Turn, NameTurn, OpenTurn, LengthTurn, TupleTurn, CloseTurn
<1> QED
  BY <1>1, <1>4

LEMMA CloseMoves ==
  ASSUME NEW delimiter \in {">", "]", ")"}, ReadClose(delimiter)
  PROVE  \E tokens \in Seq(Token) \ {<<>>} : text' = text \o tokens /\ Turn(Now, tokens, Now')
<1> DEFINE tokens == <<delimiter>>
<1>1. tokens \in Seq(Token) \ {<<>>} /\ tokens[1] = delimiter /\ text' = text \o tokens
  <2>1. delimiter \in Token /\ Read(tokens)
    BY DEF ReadClose, Token, Punctuation
  <2> QED
    BY <2>1 DEF Read
<1>2. CloseTurn(Now, tokens, Now')
  <2>1. ~(delimiter = ")" /\ pending = "none" /\ text # <<>> /\ Last(text) = "(")
    BY DEF ReadClose
  <2>2. ASSUME pending = "none", Matches(delimiter, Top.kind), Complete(Top), Fits(Top),
               Last(Front(frames)).expecting
        PROVE  Now' = Reading(text \o tokens, WithType(Front(frames), Built(Top)))
    <3>1. PushType(Front(frames), Built(Top)) /\ status = "reading"
      BY <2>2 DEF ReadClose, Read
    <3>2. /\ frames' = WithType(Front(frames), Built(Top))
          /\ pending' = "none" /\ status' = status
      BY <2>2, <3>1 DEF PushType, WithType
    <3> QED
      BY <1>1, <3>1, <3>2 DEF Now, At, Reading
  <2>3. Now.text = text /\ Now.frames = frames /\ Now.pending = pending
    BY DEF Now, At
  <2> QED
    BY <1>1, <2>1, <2>2, <2>3 DEF CloseTurn, Top
<1>3. tokens[1] \notin Name
  BY <1>1, Kinds DEF Punctuation
<1> HIDE DEF tokens
<1>4. Turn(Now, tokens, Now')
  BY <1>1, <1>2, <1>3 DEF Turn, NameTurn, OpenTurn, LengthTurn, TupleTurn, CommaTurn
<1> QED
  BY <1>1, <1>4

LEMMA NextMoves ==
  ASSUME TypeNext
  PROVE  Moves(Now, Now')
<1> DEFINE takes ==
      \E tokens \in Seq(Token) \ {<<>>} : text' = text \o tokens /\ Turn(Now, tokens, Now')
<1>1. Now.status = status /\ Now.text = text /\ Now'.text = text'
  BY DEF Now, At
<1>2. CASE End
  <2>1. EndTurn(Now, Now')
    BY <1>2 DEF End, Stop, EndTurn, Now, At, Top
  <2> QED
    BY <1>1, <1>2, <2>1 DEF Moves, End
<1>3. ASSUME ~End
      PROVE  takes /\ status = "reading"
  <2>1. takes
    BY <1>3, NameMoves, NumberMoves, OpenMoves, LengthMoves, UnitMoves, TupleMoves,
       CommaMoves, CloseMoves, Zenon DEF TypeNext
  <2>2. status = "reading"
    BY <1>3 DEF TypeNext, ReadName, ReadNumber, ReadOpen, ReadLength, ReadUnit, OpenTuple,
       ReadComma, ReadClose, Read
  <2> QED
    BY <2>1, <2>2
<1> QED
  BY <1>1, <1>2, <1>3 DEF Moves

-----------------------------------------------------------------------------
(***************************************************************************)
(* A configuration leads to another within a text if the parser, as long   *)
(* as what it has read begins the text, is on the way between the two.     *)
(***************************************************************************)

Begins(x, w) == Len(x) <= Len(w) /\ \A i \in 1..Len(x) : w[i] = x[i]

LEMMA BeginsShorter ==
  ASSUME NEW w \in Seq(Token), NEW x \in Seq(Token), NEW y \in Seq(Token), Begins(x \o y, w)
  PROVE  Begins(x, w)
<1>1. Len(x \o y) = Len(x) + Len(y) /\ \A i \in 1..Len(x) : (x \o y)[i] = x[i]
  OBVIOUS
<1>2. Len(x) \in Nat /\ Len(y) \in Nat /\ Len(w) \in Nat
  OBVIOUS
<1> QED
  BY <1>1, <1>2 DEF Begins

LEMMA BeginsWith ==
  ASSUME NEW w \in Seq(Token), NEW x \in Seq(Token), NEW y \in Seq(Token),
         NEW z \in Seq(Token), Begins(x \o (y \o z), w)
  PROVE  x \o y \in Seq(Token) /\ Begins((x \o y) \o z, w) /\ Begins(x \o y, w)
<1>1. x \o (y \o z) = (x \o y) \o z
  BY SMTT(30), ConcatAssociative
<1>2. x \o y \in Seq(Token)
  BY ConcatProperties
<1>3. Begins((x \o y) \o z, w)
  BY <1>1
<1> QED
  BY <1>2, <1>3, BeginsShorter

Agree(y, z) == \A i \in 1..Len(y) : i <= Len(z) => y[i] = z[i]

LEMMA SameTokens ==
  ASSUME NEW w \in Seq(Token), NEW x \in Seq(Token),
         NEW y \in Seq(Token), Begins(x \o y, w),
         NEW z \in Seq(Token), Begins(x \o z, w)
  PROVE  Agree(y, z)
<1>1. /\ Len(x \o y) = Len(x) + Len(y) /\ Len(x \o z) = Len(x) + Len(z)
      /\ \A i \in 1..Len(y) : (x \o y)[Len(x) + i] = y[i]
      /\ \A i \in 1..Len(z) : (x \o z)[Len(x) + i] = z[i]
  OBVIOUS
<1>2. Len(x) \in Nat /\ Len(y) \in Nat /\ Len(z) \in Nat
  OBVIOUS
<1> SUFFICES ASSUME NEW i \in 1..Len(y), i <= Len(z)
             PROVE  y[i] = z[i]
  BY DEF Agree
<1>3. Len(x) + i \in 1..Len(x \o y) /\ Len(x) + i \in 1..Len(x \o z) /\ i \in 1..Len(z)
  BY <1>1, <1>2
<1>4. w[Len(x) + i] = (x \o y)[Len(x) + i] /\ w[Len(x) + i] = (x \o z)[Len(x) + i]
  BY <1>3 DEF Begins
<1> QED
  BY <1>1, <1>3, <1>4

\* The configurations of P lead on in P, until they are d.
Behind(e, d, w, P) ==
  Len(e.text) < Len(d.text) /\ \A f : Moves(e, f) /\ Begins(f.text, w) => f \in P

\* If k, a unit type may be on the way, where the parser may be rejected at the (.
OnWay(P, w, k, d) ==
  \A e \in P : /\ e.text \in Seq(Token)
               /\ e.status = "rejected" => k
               /\ e = d \/ Behind(e, d, w, P)

Leads(w, k, c, d) ==
  /\ c.text \in Seq(Token) /\ d.text \in Seq(Token)
  /\ Len(c.text) <= Len(d.text)
  /\ \E P : c \in P /\ OnWay(P, w, k, d)

LEMMA LeadsOn ==
  ASSUME NEW w, NEW k, NEW b, NEW c, NEW d, Leads(w, k, b, c), Leads(w, k, c, d)
  PROVE  Leads(w, k, b, d)
<1>1. PICK P : b \in P /\ OnWay(P, w, k, c)
  BY DEF Leads
<1>2. PICK Q : c \in Q /\ OnWay(Q, w, k, d)
  BY DEF Leads
<1>3. /\ b.text \in Seq(Token) /\ c.text \in Seq(Token) /\ d.text \in Seq(Token)
      /\ Len(b.text) <= Len(c.text) /\ Len(c.text) <= Len(d.text)
  BY DEF Leads
<1>4. Len(b.text) \in Nat /\ Len(c.text) \in Nat /\ Len(d.text) \in Nat
  BY <1>3
<1> DEFINE R == P \cup Q
<1>5. ASSUME NEW e \in R
      PROVE  /\ e.text \in Seq(Token)
             /\ e.status = "rejected" => k
             /\ e = d \/ Behind(e, d, w, R)
  <2>1. CASE e \in Q
    BY <1>2, <2>1 DEF OnWay, Behind
  <2>2. CASE e \in P /\ e # c
    <3>1. /\ e.text \in Seq(Token)
          /\ e.status = "rejected" => k
          /\ Behind(e, c, w, P)
      BY <1>1, <2>2 DEF OnWay
    <3>2. Len(e.text) \in Nat /\ Len(e.text) < Len(c.text)
      BY <3>1 DEF Behind
    <3>3. Len(e.text) < Len(d.text)
      BY <1>3, <1>4, <3>2
    <3>4. \A f : Moves(e, f) /\ Begins(f.text, w) => f \in R
      BY <3>1 DEF Behind
    <3> QED
      BY <3>1, <3>3, <3>4 DEF Behind
  <2> QED
    BY <1>2, <2>1, <2>2
<1>6. b \in R /\ OnWay(R, w, k, d)
  BY <1>1, <1>5 DEF OnWay
<1>7. Len(b.text) <= Len(d.text)
  BY <1>3, <1>4
<1> QED
  BY <1>3, <1>6, <1>7 DEF Leads

-----------------------------------------------------------------------------
(***************************************************************************)
(* Where single turns lead to.                                             *)
(***************************************************************************)

\* The parser has come to an end and goes no further.
Ended(x, fs, p) == {At(x, fs, p, s) : s \in {"accepted", "incomplete"}}

LEMMA EndedStays ==
  ASSUME NEW x, NEW fs, NEW p, NEW e \in Ended(x, fs, p)
  PROVE  e.text = x /\ e.status \in {"accepted", "incomplete"} /\ \A f : ~Moves(e, f)
<1>1. PICK s \in {"accepted", "incomplete"} : e = At(x, fs, p, s)
  BY DEF Ended
<1> QED
  BY <1>1 DEF At, Moves

LEMMA Fields ==
  ASSUME NEW x, NEW fs, NEW p, NEW s
  PROVE  /\ At(x, fs, p, s).text = x /\ At(x, fs, p, s).frames = fs
         /\ At(x, fs, p, s).pending = p /\ At(x, fs, p, s).status = s
BY DEF At

\* The end of the text comes where it comes.
LEMMA EndLeads ==
  ASSUME NEW x, NEW fs, NEW p, NEW e, EndTurn(At(x, fs, p, "reading"), e)
  PROVE  e \in Ended(x, fs, p)
BY Fields DEF EndTurn, Ended

\* Every turn that reads on in the text takes the parser to d, or it ends before.
LEMMA TurnLeads ==
  ASSUME NEW w \in Seq(Token), NEW k, NEW x \in Seq(Token), NEW fs, NEW p,
         NEW y \in Seq(Token), y # <<>>, NEW d, d.text = x \o y, d.status = "reading",
         Begins(x \o y, w),
         \A tokens \in Seq(Token) \ {<<>>} : \A e :
           /\ Turn(At(x, fs, p, "reading"), tokens, e) /\ e.text = x \o tokens
           /\ tokens[1] = y[1] /\ Begins(x \o tokens, w)
           => \/ e = d
              \/ Len(tokens) < Len(y) /\ e = At(x \o tokens, fs, p, "incomplete")
  PROVE  Leads(w, k, At(x, fs, p, "reading"), d)
<1> DEFINE c == At(x, fs, p, "reading")
           E == UNION {Ended(z, fs, p) : z \in {v \in Seq(Token) : Len(v) < Len(x \o y)}}
           P == {c, d} \cup E
<1>1. /\ c.text = x /\ c.status = "reading"
      /\ x \o y \in Seq(Token) /\ Len(x) < Len(x \o y)
  <2>1. Len(x \o y) = Len(x) + Len(y) /\ Len(x) \in Nat /\ Len(y) \in Nat /\ Len(y) # 0
    OBVIOUS
  <2> QED
    BY <2>1, Fields
<1>2. ASSUME NEW e \in E
      PROVE  /\ e.text \in Seq(Token) /\ Len(e.text) < Len(x \o y)
             /\ e.status # "rejected" /\ \A f : ~Moves(e, f)
  <2>1. PICK z \in Seq(Token) : Len(z) < Len(x \o y) /\ e \in Ended(z, fs, p)
    OBVIOUS
  <2>2. e.text = z /\ e.status \in {"accepted", "incomplete"} /\ \A f : ~Moves(e, f)
    BY ZenonT(30), <2>1, EndedStays
  <2> QED
    BY <2>1, <2>2
<1>3. ASSUME NEW f, Moves(c, f), Begins(f.text, w)
      PROVE  f \in P
  <2>1. CASE EndTurn(c, f)
    <3>1. f \in Ended(x, fs, p)
      BY <2>1, EndLeads
    <3> QED
      BY <1>1, <3>1
  <2>2. ASSUME NEW tokens \in Seq(Token) \ {<<>>}, f.text = c.text \o tokens,
               Turn(c, tokens, f)
        PROVE  f \in P
    <3>1. Begins(x \o tokens, w) /\ f.text = x \o tokens
      BY <1>1, <1>3, <2>2
    <3>2. 1 \in 1..Len(tokens) /\ 1 <= Len(y)
      <4>1. Len(tokens) \in Nat /\ Len(tokens) # 0 /\ Len(y) \in Nat /\ Len(y) # 0
        OBVIOUS
      <4> QED
        BY <4>1
    <3>3. tokens[1] = y[1]
      <4>1. tokens \in Seq(Token)
        OBVIOUS
      <4>2. Agree(tokens, y)
        BY <3>1, <4>1, SameTokens
      <4> QED
        BY <3>2, <4>2 DEF Agree
    <3>4. \/ f = d
          \/ Len(tokens) < Len(y) /\ f = At(x \o tokens, fs, p, "incomplete")
      BY <2>2, <3>1, <3>3
    <3>5. ASSUME Len(tokens) < Len(y), f = At(x \o tokens, fs, p, "incomplete")
          PROVE  f \in E
      <4>1. x \o tokens \in Seq(Token) /\ Len(x \o tokens) < Len(x \o y)
        BY <3>5
      <4>2. f \in Ended(x \o tokens, fs, p)
        BY <3>5 DEF Ended
      <4> QED
        BY <4>1, <4>2
    <3> QED
      BY <3>4, <3>5
  <2> QED
    BY <1>3, <2>1, <2>2 DEF Moves
<1>4. Behind(c, d, w, P)
  BY <1>1, <1>3 DEF Behind
<1>5. \A e \in E : Behind(e, d, w, P)
  BY <1>2 DEF Behind
<1> HIDE DEF c, E
<1>6. OnWay(P, w, k, d)
  BY <1>1, <1>2, <1>4, <1>5 DEF OnWay
<1>7. Len(x) <= Len(x \o y)
  <2>1. Len(x \o y) = Len(x) + Len(y) /\ Len(x) \in Nat /\ Len(y) \in Nat
    OBVIOUS
  <2> QED
    BY <2>1
<1> QED
  BY <1>1, <1>6, <1>7 DEF Leads, c

\* A name that is a type by itself.
LEMMA NameLeads ==
  ASSUME NEW w \in Seq(Token), NEW k, NEW x \in Seq(Token), NEW fs, Last(fs).expecting,
         NEW name \in Basic \cup {"accounthash"}, Begins(x \o <<name>>, w)
  PROVE  Leads(w, k, Reading(x, fs), Reading(x \o <<name>>, WithType(fs, Named(name))))
<1> DEFINE y == <<name>>
           d == Reading(x \o y, WithType(fs, Named(name)))
<1>1. name \in Name /\ name \notin Generic \cup {"bytearray"} /\ name \in Token
  BY Kinds DEF Name
<1>2. y \in Seq(Token) /\ y # <<>> /\ y[1] = name
  BY <1>1, OneToken
<1>3. d.text = x \o y /\ d.status = "reading"
  BY DEF Reading, At
<1> HIDE DEF y
<1>4. ASSUME NEW tokens \in Seq(Token) \ {<<>>}, NEW e,
             Turn(At(x, fs, "none", "reading"), tokens, e), tokens[1] = y[1]
      PROVE  e = d
  BY <1>1, <1>2, <1>4, Fields DEF Turn, NameTurn, y
<1> HIDE DEF d
<1>5. Leads(w, k, At(x, fs, "none", "reading"), d)
  BY <1>2, <1>3, <1>4, TurnLeads DEF y
<1> QED
  BY <1>5 DEF d, y, Reading

\* A name that is followed by what it is applied to.
LEMMA PendingLeads ==
  ASSUME NEW w \in Seq(Token), NEW k, NEW x \in Seq(Token), NEW fs, Last(fs).expecting,
         NEW name \in Generic \cup {"bytearray"}, Begins(x \o <<name>>, w)
  PROVE  Leads(w, k, Reading(x, fs), At(x \o <<name>>, fs, name, "reading"))
<1> DEFINE y == <<name>>
           d == At(x \o y, fs, name, "reading")
<1>1. name \in Name /\ name \in Token
  BY Kinds DEF Name
<1>2. y \in Seq(Token) /\ y # <<>> /\ y[1] = name
  BY <1>1, OneToken
<1>3. d.text = x \o y /\ d.status = "reading"
  BY DEF At
<1> HIDE DEF y
<1>4. ASSUME NEW tokens \in Seq(Token) \ {<<>>}, NEW e,
             Turn(At(x, fs, "none", "reading"), tokens, e), tokens[1] = y[1]
      PROVE  e = d
  BY <1>1, <1>2, <1>4, Fields DEF Turn, NameTurn, y
<1> HIDE DEF d
<1>5. Leads(w, k, At(x, fs, "none", "reading"), d)
  BY <1>2, <1>3, <1>4, TurnLeads DEF y
<1> QED
  BY <1>5 DEF d, y, Reading

LEMMA OpenLeads ==
  ASSUME NEW w \in Seq(Token), NEW k, NEW x \in Seq(Token), NEW fs,
         NEW g \in Generic, Len(fs) <= MaxNesting, Begins(x \o <<"<">>, w)
  PROVE  Leads(w, k, At(x, fs, g, "reading"), Reading(x \o <<"<">>, Append(fs, Frame(g))))
<1> DEFINE y == <<"<">>
           d == Reading(x \o y, Append(fs, Frame(g)))
<1>1. "<" \in Token
  BY DEF Token, Punctuation
<1>2. y \in Seq(Token) /\ y # <<>> /\ y[1] = "<"
  BY <1>1, OneToken
<1>3. d.text = x \o y /\ d.status = "reading"
  BY DEF Reading, At
<1> HIDE DEF y
<1>4. ASSUME NEW tokens \in Seq(Token) \ {<<>>}, NEW e,
             Turn(At(x, fs, g, "reading"), tokens, e), tokens[1] = y[1]
      PROVE  e = d
  BY <1>2, <1>4, Fields DEF Turn, OpenTurn, y
<1> HIDE DEF d
<1>5. Leads(w, k, At(x, fs, g, "reading"), d)
  BY <1>2, <1>3, <1>4, TurnLeads DEF y
<1> QED
  BY <1>5 DEF d, y

\* SMT cannot do with this character itself.
Separator == ","

LEMMA SeparatorIsToken == Separator \in Token
BY Zenon DEF Separator, Token, Punctuation

LEMMA CommaFollows ==
  ASSUME NEW c, NEW tokens, NEW e, CommaTurn(c, tokens, e), tokens[1] = Separator,
         c.pending = "none", Last(c.frames).kind # "root", ~Last(c.frames).expecting
  PROVE  tokens = <<Separator>> /\ e = Reading(c.text \o tokens, WithComma(c.frames))
BY Zenon DEF CommaTurn, Separator

LEMMA CommaLeads ==
  ASSUME NEW w \in Seq(Token), NEW k, NEW x \in Seq(Token), NEW fs,
         Last(fs).kind # "root", ~Last(fs).expecting, Begins(x \o <<Separator>>, w)
  PROVE  Leads(w, k, Reading(x, fs), Reading(x \o <<Separator>>, WithComma(fs)))
<1> DEFINE y == <<Separator>>
           d == Reading(x \o y, WithComma(fs))
           c == At(x, fs, "none", "reading")
<1>1. Separator \in Token
  BY SeparatorIsToken
<1>2. y \in Seq(Token) /\ y # <<>> /\ y[1] = Separator
  BY <1>1, OneToken
<1>3. d.text = x \o y /\ d.status = "reading"
  BY DEF Reading, At
<1>4. c.text = x /\ c.frames = fs /\ c.pending = "none"
  BY Fields
<1> HIDE DEF y, c
<1>5. ASSUME NEW tokens \in Seq(Token) \ {<<>>}, NEW e, Turn(c, tokens, e), tokens[1] = y[1]
      PROVE  e = d
  <2>1. CommaTurn(c, tokens, e) /\ tokens[1] = Separator
    BY <1>2, <1>5 DEF Turn
  <2>2. tokens = y /\ e = Reading(x \o tokens, WithComma(fs))
    BY <1>4, <2>1, CommaFollows DEF y
  <2> QED
    BY <2>2
<1> HIDE DEF d
<1>6. Leads(w, k, c, d)
  BY <1>2, <1>3, <1>5, TurnLeads DEF y, c
<1> QED
  BY <1>6 DEF c, d, y, Reading

LEMMA CloseLeads ==
  ASSUME NEW w \in Seq(Token), NEW k, NEW x \in Seq(Token), NEW fs,
         NEW delimiter \in {">", ")"}, Matches(delimiter, Last(fs).kind),
         Complete(Last(fs)), Fits(Last(fs)), Last(Front(fs)).expecting,
         Begins(x \o <<delimiter>>, w)
  PROVE  Leads(w, k, Reading(x, fs),
               Reading(x \o <<delimiter>>, WithType(Front(fs), Built(Last(fs)))))
<1> DEFINE y == <<delimiter>>
           d == Reading(x \o y, WithType(Front(fs), Built(Last(fs))))
<1>1. delimiter \in Token
  BY DEF Token, Punctuation
<1>2. y \in Seq(Token) /\ y # <<>> /\ y[1] = delimiter
  BY <1>1, OneToken
<1>3. d.text = x \o y /\ d.status = "reading"
  BY DEF Reading, At
<1> HIDE DEF y
<1>4. ASSUME NEW tokens \in Seq(Token) \ {<<>>}, NEW e,
             Turn(At(x, fs, "none", "reading"), tokens, e), tokens[1] = y[1]
      PROVE  e = d
  <2> DEFINE c == At(x, fs, "none", "reading")
  <2>1. c.text = x /\ c.frames = fs /\ c.pending = "none"
    BY Fields
  <2>2. CloseTurn(c, tokens, e) /\ tokens[1] = delimiter
    BY <1>2, <1>4 DEF Turn
  <2> HIDE DEF c
  <2>3. /\ tokens = <<delimiter>>
        /\ e = Reading(c.text \o tokens, WithType(Front(c.frames), Built(Last(c.frames))))
    BY <2>1, <2>2 DEF CloseTurn
  <2> QED
    BY <2>1, <2>3, Zenon DEF y
<1> HIDE DEF d
<1>5. Leads(w, k, At(x, fs, "none", "reading"), d)
  BY <1>2, <1>3, <1>4, TurnLeads DEF y
<1> QED
  BY <1>5 DEF d, y, Reading

\* The length of a byte array and the brackets around it.
LEMMA LengthLeads ==
  ASSUME NEW w \in Seq(Token), NEW k, NEW x \in Seq(Token), NEW fs, Last(fs).expecting,
         NEW b \in {"<", "["}, NEW n \in DOMAIN Number, Begins(x \o <<b, n, Closing[b]>>, w)
  PROVE  Leads(w, k, At(x, fs, "bytearray", "reading"),
               Reading(x \o <<b, n, Closing[b]>>, WithType(fs, ByteArray(Number[n]))))
<1> DEFINE y == <<b, n, Closing[b]>>
           d == Reading(x \o y, WithType(fs, ByteArray(Number[n])))
           c == At(x, fs, "bytearray", "reading")
<1>1. b \in Token /\ n \in Token /\ Closing[b] \in Token
  BY DEF Token, Punctuation, Closing
<1>2. /\ y \in Seq(Token) /\ y # <<>> /\ Len(y) = 3
      /\ y[1] = b /\ y[2] = n /\ y[3] = Closing[b]
  BY <1>1
<1>3. d.text = x \o y /\ d.status = "reading"
  BY DEF Reading, At
<1>4. c.text = x /\ c.frames = fs /\ c.pending = "bytearray"
  BY Fields
<1> HIDE DEF y, c
<1>5. ASSUME NEW tokens \in Seq(Token) \ {<<>>}, NEW e,
             Turn(c, tokens, e), tokens[1] = y[1], Begins(x \o tokens, w)
      PROVE  \/ e = d
             \/ Len(tokens) < Len(y) /\ e = At(x \o tokens, fs, "bytearray", "incomplete")
  <2>1. \A i \in 1..Len(tokens) : i <= 3 => tokens[i] = y[i]
    <3>1. Begins(x \o y, w) /\ tokens \in Seq(Token)
      BY DEF y
    <3>2. Agree(tokens, y)
      BY <1>2, <1>5, <3>1, SameTokens, Zenon
    <3> QED
      BY <1>2, <3>2 DEF Agree
  <2>2. \/ \E m \in DOMAIN Number :
             /\ tokens = <<b, m, Closing[b]>>
             /\ e = Reading(x \o tokens, WithType(fs, ByteArray(Number[m])))
        \/ \E m \in DOMAIN Number : \E other \in Token \ {Closing[b]} : tokens = <<b, m, other>>
        \/ \E other \in Token \ DOMAIN Number : tokens = <<b, other>>
        \/ Len(tokens) < 3 /\ e = At(x \o tokens, fs, "bytearray", "incomplete")
    <3>1. LengthTurn(c, tokens, e) /\ tokens[1] = b
      BY <1>2, <1>5 DEF Turn
    <3> QED
      BY <1>4, <3>1 DEF LengthTurn
  <2>3. ASSUME NEW m \in DOMAIN Number, tokens = <<b, m, Closing[b]>>,
               e = Reading(x \o tokens, WithType(fs, ByteArray(Number[m])))
        PROVE  e = d
    <3>1. m = n
      <4>1. Len(tokens) = 3 /\ tokens[2] = m
        BY <2>3
      <4> QED
        BY <1>2, <2>1, <4>1
    <3> QED
      BY <2>3, <3>1 DEF y
  <2>4. ASSUME NEW m \in DOMAIN Number, NEW other \in Token \ {Closing[b]},
               tokens = <<b, m, other>>
        PROVE  FALSE
    <3>1. Len(tokens) = 3 /\ tokens[3] = other
      BY <2>4
    <3> QED
      BY <1>2, <2>1, <3>1
  <2>5. ASSUME NEW other \in Token \ DOMAIN Number, tokens = <<b, other>>
        PROVE  FALSE
    <3>1. Len(tokens) = 2 /\ tokens[2] = other
      BY <2>5
    <3> QED
      BY <1>2, <2>1, <3>1
  <2> HIDE DEF d
  <2> QED
    BY <1>2, <2>2, <2>3, <2>4, <2>5
<1> HIDE DEF d
<1>6. \A tokens \in Seq(Token) \ {<<>>} : \A e :
        /\ Turn(c, tokens, e) /\ e.text = x \o tokens
        /\ tokens[1] = y[1] /\ Begins(x \o tokens, w)
        => \/ e = d
           \/ Len(tokens) < Len(y) /\ e = At(x \o tokens, fs, "bytearray", "incomplete")
  BY <1>5
<1>7. Begins(x \o y, w)
  BY DEF y
<1>8. Leads(w, k, c, d)
  BY <1>2, <1>3, <1>6, <1>7, TurnLeads, Zenon DEF c
<1> QED
  BY <1>8 DEF c, d, y

\* A ( that is not followed by a ).
LEMMA TupleLeads ==
  ASSUME NEW w \in Seq(Token), NEW k, NEW x \in Seq(Token), NEW fs, Last(fs).expecting,
         Len(fs) <= MaxNesting, NEW z \in Seq(Token), z # <<>>, z[1] # ")",
         Begins(x \o (<<"(">> \o z), w)
  PROVE  Leads(w, k, Reading(x, fs), Reading(x \o <<"(">>, Append(fs, Frame("tuple"))))
<1> DEFINE y == <<"(">>
           d == Reading(x \o y, Append(fs, Frame("tuple")))
           c == At(x, fs, "none", "reading")
<1>1. "(" \in Token
  BY DEF Token, Punctuation
<1>2. y \in Seq(Token) /\ y # <<>> /\ y[1] = "(" /\ y \o z \in Seq(Token)
  BY <1>1, OneToken
<1>3. d.text = x \o y /\ d.status = "reading"
  BY DEF Reading, At
<1>4. c.text = x /\ c.frames = fs /\ c.pending = "none"
  BY Fields
<1>5. Len(y \o z) >= 2 /\ (y \o z)[2] = z[1]
  <2>1. Len(z) \in Nat /\ Len(z) # 0
    OBVIOUS
  <2> QED
    BY <1>1, <2>1
<1>6. Begins(x \o (y \o z), w)
  OBVIOUS
<1> HIDE DEF y, c
<1>7. Begins(x \o y, w)
  BY <1>2, <1>6, BeginsWith, Zenon
<1>8. ASSUME NEW tokens \in Seq(Token) \ {<<>>}, NEW e,
             Turn(c, tokens, e), tokens[1] = y[1], Begins(x \o tokens, w)
      PROVE  e = d
  <2>1. TupleTurn(c, tokens, e) /\ tokens[1] = "("
    BY <1>2, <1>8 DEF Turn
  <2>2. \/ tokens = <<"(", ")">>
        \/ tokens = <<"(">> /\ e = Reading(x \o tokens, Append(fs, Frame("tuple")))
    BY <1>4, <2>1 DEF TupleTurn
  <2>3. ASSUME tokens = <<"(", ")">>
        PROVE  FALSE
    <3>1. Len(tokens) = 2 /\ tokens[2] = ")"
      BY <2>3
    <3>2. tokens[2] = (y \o z)[2]
      <4>1. 2 \in 1..Len(tokens) /\ 2 <= Len(y \o z)
        BY <1>5, <3>1
      <4>2. tokens \in Seq(Token)
        OBVIOUS
      <4>3. Agree(tokens, y \o z)
        BY <1>2, <1>6, <1>8, <4>2, SameTokens, Zenon
      <4> QED
        BY <4>1, <4>3 DEF Agree
    <3> QED
      BY <1>5, <3>1, <3>2
  <2> QED
    BY <2>2, <2>3 DEF y
<1> HIDE DEF d
<1>9. Leads(w, k, c, d)
  BY <1>2, <1>3, <1>7, <1>8, TurnLeads DEF c
<1> QED
  BY <1>9 DEF c, d, y, Reading

\* ( and ): had the parser taken the ( for a tuple it would not get on.
LEMMA UnitLeads ==
  ASSUME NEW w \in Seq(Token), NEW x \in Seq(Token), NEW fs, Last(fs).expecting,
         Begins(x \o <<"(", ")">>, w)
  PROVE  Leads(w, TRUE, Reading(x, fs), Reading(x \o <<"(", ")">>, WithType(fs, Named("unit"))))
<1> DEFINE y == <<"(", ")">>
           z == x \o <<"(">>
           gs == Append(fs, Frame("tuple"))
           d == Reading(x \o y, WithType(fs, Named("unit")))
           c == Reading(x, fs)
           t == Reading(z, gs)
           r == At(z, fs, "none", "rejected")
           E == Ended(x, fs, "none") \cup Ended(z, gs, "none")
           P == {c, d, t, r} \cup E
<1>1. "(" \in Token /\ ")" \in Token
  BY DEF Token, Punctuation
<1>2. /\ y \in Seq(Token) /\ y[1] = "(" /\ y[2] = ")" /\ Len(y) = 2
      /\ x \o y \in Seq(Token) /\ z \in Seq(Token)
      /\ Len(x \o y) = Len(x) + 2 /\ Len(z) = Len(x) + 1 /\ Len(x) \in Nat
      /\ z # <<>> /\ Last(z) = "("
  BY <1>1 DEF Last
<1>3. /\ c.text = x /\ c.frames = fs /\ c.pending = "none" /\ c.status = "reading"
      /\ t.text = z /\ t.frames = gs /\ t.pending = "none" /\ t.status = "reading"
      /\ r.text = z /\ r.status = "rejected"
      /\ d.text = x \o y /\ d.status = "reading"
  BY DEF Reading, At
<1>4. Begins(x \o y, w) /\ x \o y = z \o <<")">>
  BY <1>1
<1> HIDE DEF y, z, gs, c, d, t, r
<1>5. ASSUME NEW e \in E
      PROVE  /\ e.text \in Seq(Token) /\ Len(e.text) < Len(x \o y)
             /\ e.status # "rejected" /\ \A f : ~Moves(e, f)
  <2>1. e.text \in {x, z} /\ e.status \in {"accepted", "incomplete"} /\ \A f : ~Moves(e, f)
    BY EndedStays
  <2> QED
    BY <1>2, <2>1
<1>6. ASSUME NEW f, Moves(c, f), Begins(f.text, w)
      PROVE  f \in P
  <2>1. CASE EndTurn(c, f)
    BY <2>1, EndLeads DEF c, Reading
  <2>2. ASSUME NEW tokens \in Seq(Token) \ {<<>>}, f.text = x \o tokens,
               Turn(c, tokens, f)
        PROVE  f \in P
    <3>1. tokens[1] = "("
      <4>1. 1 \in 1..Len(tokens) /\ 1 <= Len(y)
        <5>1. Len(tokens) \in Nat /\ Len(tokens) # 0
          OBVIOUS
        <5> QED
          BY <1>2, <5>1
      <4>2. tokens \in Seq(Token) /\ Begins(x \o tokens, w)
        BY <1>6, <2>2
      <4>3. Agree(tokens, y)
        BY <1>2, <1>4, <4>2, SameTokens, Zenon
      <4> QED
        BY <1>2, <4>1, <4>3 DEF Agree
    <3>2. \/ tokens = y /\ f = Reading(x \o tokens, WithType(fs, Named("unit")))
          \/ /\ tokens = <<"(">>
             /\ \/ f = Reading(x \o tokens, gs)
                \/ f = At(x \o tokens, fs, "none", "rejected")
      BY <1>3, <2>2, <3>1 DEF Turn, TupleTurn, y, gs
    <3> QED
      BY <3>2 DEF d, t, r, z
  <2> QED
    BY <1>3, <1>6, <2>1, <2>2 DEF Moves
<1>7. ASSUME NEW f, Moves(t, f), Begins(f.text, w)
      PROVE  f \in P
  <2>1. CASE EndTurn(t, f)
    BY <2>1, EndLeads DEF t, Reading
  <2>2. ASSUME NEW tokens \in Seq(Token) \ {<<>>}, f.text = z \o tokens,
               Turn(t, tokens, f)
        PROVE  FALSE
    <3>1. tokens[1] = ")"
      <4>1. 1 \in 1..Len(tokens) /\ 1 <= Len(<<")">>)
        <5>1. Len(tokens) \in Nat /\ Len(tokens) # 0
          OBVIOUS
        <5> QED
          BY <5>1
      <4>2. <<")">> \in Seq(Token) /\ <<")">>[1] = ")"
        BY <1>1
      <4>3. Begins(z \o tokens, w) /\ Begins(z \o <<")">>, w)
        BY <1>4, <1>7, <2>2
      <4>4. tokens \in Seq(Token)
        OBVIOUS
      <4> DEFINE u == <<")">>
      <4>5. u[1] = ")" /\ u \in Seq(Token) /\ Begins(z \o u, w) /\ 1 <= Len(u)
        BY <4>1, <4>2, <4>3
      <4> HIDE DEF u
      <4>6. Agree(tokens, u)
        BY <1>2, <4>3, <4>4, <4>5, SameTokens, Zenon
      <4> QED
        BY <4>1, <4>5, <4>6 DEF Agree
    <3> QED
      BY <1>2, <1>3, <2>2, <3>1 DEF Turn, CloseTurn
  <2> QED
    BY <1>3, <1>7, <2>1, <2>2 DEF Moves
<1>8. ASSUME NEW f, Moves(r, f)
      PROVE  FALSE
  BY <1>3, <1>8 DEF Moves
<1>9. \A e \in P : e = d \/ Behind(e, d, w, P)
  <2>1. Behind(c, d, w, P)
    BY <1>2, <1>3, <1>6 DEF Behind
  <2>2. Behind(t, d, w, P)
    BY <1>2, <1>3, <1>7 DEF Behind
  <2>3. Behind(r, d, w, P)
    BY <1>2, <1>3, <1>8 DEF Behind
  <2>4. \A e \in E : Behind(e, d, w, P)
    BY <1>3, <1>5 DEF Behind
  <2> HIDE DEF E
  <2> QED
    BY <2>1, <2>2, <2>3, <2>4
<1>10. \A e \in P : e.text \in Seq(Token)
  <2> HIDE DEF E
  <2> QED
    BY <1>2, <1>3, <1>5
<1>11. OnWay(P, w, TRUE, d)
  BY <1>9, <1>10 DEF OnWay
<1>12. c.text \in Seq(Token) /\ d.text \in Seq(Token) /\ Len(c.text) <= Len(d.text)
  BY <1>2, <1>3
<1>13. Leads(w, TRUE, c, d)
  BY <1>11, <1>12 DEF Leads
<1> QED
  BY <1>13 DEF c, d, y

-----------------------------------------------------------------------------
(***************************************************************************)
(* The frame on top of a stack, as types and commas are read in it.        *)
(***************************************************************************)

Filled(kind, args, expecting, comma) ==
  [kind |-> kind, args |-> args, expecting |-> expecting, comma |-> comma]

Row(q) == \E R : q \in Seq(R)

\* A frame on top of a stack.
LEMMA OnTop ==
  ASSUME NEW fs, Row(fs), NEW f
  PROVE  LET gs == Append(fs, f) IN
         /\ Row(gs) /\ Len(fs) \in Nat /\ Len(gs) = Len(fs) + 1
         /\ Last(gs) = f /\ Front(gs) = fs
         /\ \A g : [gs EXCEPT ![Len(gs)] = g] = Append(fs, g)
<1>1. PICK R : fs \in Seq(R)
  BY DEF Row
<1> DEFINE S  == R \cup {f}
           n  == Len(fs)
           gs == Append(fs, f)
<1>2. fs \in Seq(S) /\ n \in Nat
  BY <1>1, SeqMonotonic
<1>3. /\ gs \in Seq(S) /\ Len(gs) = n + 1 /\ gs[n + 1] = f
      /\ \A i \in 1..n : gs[i] = fs[i]
  BY <1>2
<1>4. Front(gs) = fs
  <2> DEFINE p == SubSeq(gs, 1, n)
  <2>1. p \in Seq(S) /\ Len(p) = n /\ \A i \in 1..n : p[i] = gs[i]
    BY <1>2, <1>3
  <2> HIDE DEF p, gs
  <2>2. p = fs
    BY <1>2, <1>3, <2>1, SeqEqual
  <2>3. Len(gs) - 1 = n
    BY <1>2, <1>3
  <2> QED
    BY <2>2, <2>3 DEF Front, p
<1>5. ASSUME NEW g
      PROVE  [gs EXCEPT ![Len(gs)] = g] = Append(fs, g)
  <2> DEFINE T == S \cup {g}
             p == [gs EXCEPT ![n + 1] = g]
             q == Append(fs, g)
  <2>1. fs \in Seq(T) /\ gs \in Seq(T)
    BY <1>2, <1>3, SeqMonotonic
  <2>2. /\ p \in Seq(T) /\ Len(p) = n + 1 /\ p[n + 1] = g
        /\ \A i \in 1..n : p[i] = gs[i]
    <3>1. n + 1 \in 1..Len(gs) /\ g \in T /\ \A i \in 1..n : i # n + 1 /\ i \in 1..Len(gs)
      BY <1>2, <1>3
    <3> HIDE DEF gs, T
    <3> QED
      BY <1>2, <1>3, <2>1, <3>1, ExceptSeq
  <2>3. /\ q \in Seq(T) /\ Len(q) = n + 1 /\ q[n + 1] = g
        /\ \A i \in 1..n : q[i] = fs[i]
    BY <1>2, <2>1
  <2> HIDE DEF p, q, gs, T
  <2>4. \A i \in 1..(n + 1) : i \in 1..n \/ i = n + 1
    BY <1>2
  <2>5. \A i \in 1..Len(p) : p[i] = q[i]
    BY <1>3, <2>2, <2>3, <2>4
  <2>6. p = q
    BY <2>2, <2>3, <2>5, SeqEqual
  <2> QED
    BY <1>3, <2>6 DEF p, q
<1>6. Last(gs) = f /\ Row(gs)
  BY <1>3 DEF Last, Row
<1> QED
  BY <1>2, <1>3, <1>4, <1>5, <1>6

TypeReadOnTop(fs, kind, args, expecting, comma, type) ==
  WithType(Append(fs, Filled(kind, args, expecting, comma)), type) =
    Append(fs, Filled(kind, Append(args, type), FALSE, comma))

LEMMA TypeOnTop ==
  ASSUME NEW fs, Row(fs), NEW kind \in Generic \cup {"root", "tuple"}, NEW args,
         NEW expecting \in BOOLEAN, NEW comma \in BOOLEAN, NEW type
  PROVE  TypeReadOnTop(fs, kind, args, expecting, comma, type)
<1> DEFINE f  == Filled(kind, args, expecting, comma)
           g  == Filled(kind, Append(args, type), FALSE, comma)
           S  == {args, Append(args, type)}
           gs == Append(fs, f)
<1>1. /\ f \in FrameOf(S) /\ f.kind = kind /\ f.args = args
      /\ f.expecting = expecting /\ f.comma = comma
  BY DEF Filled, FrameOf
<1>2. /\ g \in FrameOf(S) /\ g.kind = kind /\ g.args = Append(args, type)
      /\ g.expecting = FALSE /\ g.comma = comma
  BY DEF Filled, FrameOf
<1>3. /\ Last(gs) = f /\ Len(gs) = Len(fs) + 1 /\ Len(fs) \in Nat
      /\ \A h : [gs EXCEPT ![Len(gs)] = h] = Append(fs, h)
  BY OnTop
<1>4. gs[Len(gs)] = f
  BY <1>3 DEF Last
<1> HIDE DEF f, g
<1>5. [[f EXCEPT !.args = Append(@, type)] EXCEPT !.expecting = FALSE] = g
  <2> DEFINE h == [f EXCEPT !.args = Append(@, type)]
  <2>1. /\ h \in FrameOf(S) /\ h.args = Append(args, type)
        /\ h.kind = kind /\ h.comma = comma
    BY <1>1 DEF FrameOf
  <2> HIDE DEF h
  <2> DEFINE j == [h EXCEPT !.expecting = FALSE]
  <2>2. /\ j \in FrameOf(S) /\ j.args = h.args /\ j.kind = h.kind
        /\ j.expecting = FALSE /\ j.comma = h.comma
    BY <2>1 DEF FrameOf
  <2> HIDE DEF j
  <2>3. j = g
    BY <1>2, <2>1, <2>2, SameFrame
  <2> QED
    BY <2>3 DEF h, j
<1>6. WithType(gs, type) = [gs EXCEPT ![Len(gs)] = g]
  <2>1. WithType(gs, type) =
          [gs EXCEPT ![Len(gs)] =
             [[gs[Len(gs)] EXCEPT !.args = Append(@, type)] EXCEPT !.expecting = FALSE]]
    <3>1. PICK R : gs \in Seq(R)
      BY OnTop DEF Row
    <3>2. Len(gs) \in DOMAIN gs
      BY <1>3, <3>1
    <3> HIDE DEF gs
    <3> QED
      BY <3>1, <3>2 DEF WithType
  <2> QED
    BY <1>4, <1>5, <2>1
<1> QED
  BY <1>3, <1>6 DEF f, g, gs, TypeReadOnTop

LEMMA CommaOnTop ==
  ASSUME NEW fs, Row(fs), NEW kind \in Generic \cup {"root", "tuple"}, NEW args,
         NEW expecting \in BOOLEAN, NEW comma \in BOOLEAN
  PROVE  WithComma(Append(fs, Filled(kind, args, expecting, comma))) =
         Append(fs, Filled(kind, args, TRUE, TRUE))
<1> DEFINE f  == Filled(kind, args, expecting, comma)
           g  == Filled(kind, args, TRUE, TRUE)
           S  == {args}
           gs == Append(fs, f)
<1>1. /\ f \in FrameOf(S) /\ f.kind = kind /\ f.args = args
      /\ f.expecting = expecting /\ f.comma = comma
  BY DEF Filled, FrameOf
<1>2. /\ g \in FrameOf(S) /\ g.kind = kind /\ g.args = args
      /\ g.expecting = TRUE /\ g.comma = TRUE
  BY DEF Filled, FrameOf
<1>3. /\ Last(gs) = f /\ Len(gs) = Len(fs) + 1 /\ Len(fs) \in Nat
      /\ \A h : [gs EXCEPT ![Len(gs)] = h] = Append(fs, h)
  BY OnTop
<1>4. gs[Len(gs)] = f
  BY <1>3 DEF Last
<1> HIDE DEF f, g
<1>5. [[f EXCEPT !.expecting = TRUE] EXCEPT !.comma = TRUE] = g
  <2> DEFINE h == [f EXCEPT !.expecting = TRUE]
  <2>1. /\ h \in FrameOf(S) /\ h.args = args
        /\ h.kind = kind /\ h.expecting = TRUE
    BY <1>1 DEF FrameOf
  <2> HIDE DEF h
  <2> DEFINE j == [h EXCEPT !.comma = TRUE]
  <2>2. /\ j \in FrameOf(S) /\ j.args = h.args /\ j.kind = h.kind
        /\ j.expecting = h.expecting /\ j.comma = TRUE
    BY <2>1 DEF FrameOf
  <2> HIDE DEF j
  <2>3. j = g
    BY <1>2, <2>1, <2>2, SameFrame
  <2> QED
    BY <2>3 DEF h, j
<1>6. WithComma(gs) = [gs EXCEPT ![Len(gs)] = g]
  <2>1. WithComma(gs) =
          [gs EXCEPT ![Len(gs)] =
             [[gs[Len(gs)] EXCEPT !.expecting = TRUE] EXCEPT !.comma = TRUE]]
    <3>1. PICK R : gs \in Seq(R)
      BY OnTop DEF Row
    <3>2. Len(gs) \in DOMAIN gs
      BY <1>3, <3>1
    <3> HIDE DEF gs
    <3> QED
      BY <3>1, <3>2 DEF WithComma
  <2> QED
    BY <1>4, <1>5, <2>1
<1> QED
  BY <1>3, <1>6 DEF f, g, gs

LEMMA NewFrame ==
  \A kind : Frame(kind) = Filled(kind, <<>>, TRUE, FALSE)
BY DEF Frame, Filled

-----------------------------------------------------------------------------
(***************************************************************************)
(* Where a type is awaited and there is room for what is nested in it, the *)
(* tokens of a phrase lead to its type.                                    *)
(***************************************************************************)

Proper(s) ==
  /\ s.text \in Seq(Token) /\ s.text # <<>> /\ s.text[1] # ")"
  /\ s.nesting \in Nat

Awaited(fs, nesting) ==
  Row(fs) /\ Last(fs).expecting /\ Len(fs) + nesting <= MaxNesting + 1

Understood(s, k) ==
  /\ Proper(s)
  /\ \A w, x \in Seq(Token) : \A fs :
       Awaited(fs, s.nesting) /\ Begins(x \o s.text, w)
       => Leads(w, k, Reading(x, fs), Reading(x \o s.text, WithType(fs, s.type)))

\* The same for a list, in the frame that was opened for it.
ListUnderstood(l, k) ==
  /\ Proper(l) /\ Row(l.args)
  /\ \A w, x \in Seq(Token) : \A fs : \A kind \in Generic \cup {"tuple"} :
       Awaited(fs, l.nesting + 1) /\ Begins(x \o l.text, w)
       => \E comma \in BOOLEAN :
            Leads(w, k, Reading(x, Append(fs, Frame(kind))),
                  Reading(x \o l.text, Append(fs, Filled(kind, l.args, FALSE, comma))))

LEMMA FrameAwaits ==
  ASSUME NEW fs, NEW nesting \in Nat, Awaited(fs, nesting + 1),
         NEW kind, NEW args, NEW comma
  PROVE  /\ Awaited(Append(fs, Filled(kind, args, TRUE, comma)), nesting)
         /\ Row(fs) /\ Last(fs).expecting /\ Len(fs) <= MaxNesting
<1> DEFINE gs == Append(fs, Filled(kind, args, TRUE, comma))
<1>1. Row(fs) /\ Last(fs).expecting /\ Len(fs) + (nesting + 1) <= MaxNesting + 1
  BY DEF Awaited
<1>2. /\ Row(gs) /\ Len(fs) \in Nat /\ Len(gs) = Len(fs) + 1
      /\ Last(gs) = Filled(kind, args, TRUE, comma)
  BY <1>1, OnTop
<1>3. Last(gs).expecting
  BY <1>2 DEF Filled
<1> HIDE DEF gs
<1>4. Len(gs) + nesting <= MaxNesting + 1 /\ Len(fs) <= MaxNesting
  BY <1>1, <1>2, TypeAssumption
<1>5. Awaited(gs, nesting)
  BY <1>2, <1>3, <1>4 DEF Awaited
<1> QED
  BY <1>1, <1>4, <1>5 DEF gs

\* A list of one.
Regrouped(x, l, c, s) == ((x \o l) \o c) \o s = x \o ((l \o c) \o s)

LEMMA FourTexts ==
  ASSUME NEW x \in Seq(Token), NEW l \in Seq(Token), NEW c \in Seq(Token), NEW s \in Seq(Token)
  PROVE  /\ x \o l \in Seq(Token) /\ (x \o l) \o c \in Seq(Token)
         /\ Regrouped(x, l, c, s)
<1>1. x \o l \in Seq(Token) /\ (x \o l) \o c \in Seq(Token) /\ l \o c \in Seq(Token)
  BY ConcatProperties
<1>2. (x \o l) \o c = x \o (l \o c)
  BY ThreeTexts
<1> DEFINE d == l \o c
<1> HIDE DEF d
<1>3. (x \o d) \o s = x \o (d \o s)
  <2>1. d \in Seq(Token)
    BY <1>1 DEF d
  <2> QED
    BY ZenonT(30), <2>1, ThreeTexts
<1>4. ((x \o l) \o c) \o s = (x \o d) \o s
  BY Zenon, <1>2 DEF d
<1>5. ((x \o l) \o c) \o s = x \o (d \o s)
  BY Zenon, <1>3, <1>4
<1> QED
  BY Zenon, <1>1, <1>5 DEF d, Regrouped

LEMMA OneUnderstood ==
  ASSUME NEW k, NEW s, Understood(s, k), NEW l, l.text = s.text, l.args = <<s.type>>,
         l.nesting = s.nesting
  PROVE  ListUnderstood(l, k)
<1>1. Proper(l) /\ Row(l.args)
  <2>1. Proper(l)
    BY DEF Understood, Proper
  <2>2. <<s.type>> \in Seq({s.type})
    OBVIOUS
  <2> QED
    BY <2>1, <2>2 DEF Row
<1>2. ASSUME NEW w \in Seq(Token), NEW x \in Seq(Token), NEW fs,
             NEW kind \in Generic \cup {"tuple"},
             Awaited(fs, l.nesting + 1), Begins(x \o l.text, w)
      PROVE  Leads(w, k, Reading(x, Append(fs, Frame(kind))),
                   Reading(x \o l.text, Append(fs, Filled(kind, l.args, FALSE, FALSE))))
  <2> DEFINE gs == Append(fs, Filled(kind, <<>>, TRUE, FALSE))
  <2>1. Awaited(gs, s.nesting) /\ Row(fs)
    <3>1. s.nesting \in Nat /\ Awaited(fs, s.nesting + 1)
      BY <1>1, <1>2 DEF Proper
    <3> QED
      BY <3>1, FrameAwaits
  <2>2. Leads(w, k, Reading(x, gs), Reading(x \o s.text, WithType(gs, s.type)))
    <3>1. Begins(x \o s.text, w)
      BY <1>2
    <3> HIDE DEF gs
    <3> QED
      BY <2>1, <3>1 DEF Understood
  <2>3. WithType(gs, s.type) = Append(fs, Filled(kind, Append(<<>>, s.type), FALSE, FALSE))
    <3>1. kind \in Generic \cup {"root", "tuple"}
      BY <1>2
    <3>2. TypeReadOnTop(fs, kind, <<>>, TRUE, FALSE, s.type)
      BY <2>1, <3>1, TypeOnTop
    <3> QED
      BY <3>2, Zenon DEF TypeReadOnTop
  <2>4. Append(<<>>, s.type) = l.args
    OBVIOUS
  <2>5. gs = Append(fs, Frame(kind))
    BY NewFrame
  <2> HIDE DEF gs
  <2> QED
    BY <2>2, <2>3, <2>4, <2>5
<1> QED
  BY <1>1, <1>2 DEF ListUnderstood

\* A list with one more.
LEMMA MoreUnderstood ==
  ASSUME NEW k, NEW l, ListUnderstood(l, k), NEW s, Understood(s, k),
         NEW m, m.text = l.text \o <<Separator>> \o s.text,
         m.args = l.args \o <<s.type>>,
         m.nesting = IF l.nesting > s.nesting THEN l.nesting ELSE s.nesting
  PROVE  ListUnderstood(m, k)
<1> DEFINE c == <<Separator>>
<1>1. Proper(l) /\ Row(l.args) /\ Proper(s)
  BY DEF ListUnderstood, Understood
<1>2. c \in Seq(Token) /\ c # <<>>
  BY SeparatorIsToken, OneToken
<1>3. m.text = l.text \o c \o s.text
  OBVIOUS
<1>4. Append(l.args, s.type) = m.args /\ Row(m.args)
  <2>1. PICK R : l.args \in Seq(R)
    BY <1>1 DEF Row
  <2> DEFINE T == R \cup {s.type}
  <2>2. l.args \in Seq(T) /\ s.type \in T
    BY <2>1, SeqMonotonic
  <2> HIDE DEF T
  <2>3. Append(l.args, s.type) \in Seq(T) /\ Append(l.args, s.type) = l.args \o <<s.type>>
    BY <2>2, AppendProperties, AppendIsConcat
  <2> QED
    BY <2>3 DEF Row
<1> HIDE DEF c
<1>5. /\ l.nesting \in Nat /\ s.nesting \in Nat /\ m.nesting \in Nat
      /\ l.nesting <= m.nesting /\ s.nesting <= m.nesting
  BY <1>1 DEF Proper
<1>6. Proper(m)
  <2>1. l.text \in Seq(Token) /\ l.text # <<>> /\ l.text[1] # ")" /\ s.text \in Seq(Token)
    BY <1>1 DEF Proper
  <2>2. ASSUME NEW u \in Seq(Token), NEW v \in Seq(Token), u # <<>>
        PROVE  u \o v \in Seq(Token) /\ u \o v # <<>> /\ (u \o v)[1] = u[1]
    BY <2>2
  <2>3. /\ l.text \o c \in Seq(Token) /\ l.text \o c # <<>>
        /\ (l.text \o c)[1] = l.text[1]
    BY <1>2, <2>1, <2>2
  <2>4. /\ (l.text \o c) \o s.text \in Seq(Token) /\ (l.text \o c) \o s.text # <<>>
        /\ ((l.text \o c) \o s.text)[1] = (l.text \o c)[1]
    BY <2>1, <2>2, <2>3
  <2> QED
    BY <1>3, <1>5, <2>1, <2>3, <2>4 DEF Proper
<1>7. ASSUME NEW w \in Seq(Token), NEW x \in Seq(Token), NEW fs,
             NEW kind \in Generic \cup {"tuple"},
             Awaited(fs, m.nesting + 1), Begins(x \o m.text, w)
      PROVE  Leads(w, k, Reading(x, Append(fs, Frame(kind))),
                   Reading(x \o m.text, Append(fs, Filled(kind, m.args, FALSE, TRUE))))
  <2> DEFINE y == x \o l.text
             z == y \o c
             f == Filled(kind, m.args, FALSE, TRUE)
             g == Filled(kind, l.args, TRUE, TRUE)
  <2>1. l.text \in Seq(Token) /\ s.text \in Seq(Token)
    BY <1>1 DEF Proper
  <2>2. y \in Seq(Token) /\ z \in Seq(Token) /\ z \o s.text = x \o m.text
    <3>1. x \in Seq(Token)
      BY <1>7
    <3> DEFINE t == s.text
               u == l.text
    <3>2. u \in Seq(Token) /\ t \in Seq(Token) /\ c \in Seq(Token)
      BY <1>2, <2>1
    <3>3. m.text = (u \o c) \o t
      BY <1>3
    <3> HIDE DEF t, u
    <3>4. /\ x \o u \in Seq(Token) /\ (x \o u) \o c \in Seq(Token)
          /\ Regrouped(x, u, c, t)
      BY Zenon, <3>1, <3>2, FourTexts
    <3> QED
      BY Zenon, <3>3, <3>4 DEF t, u, y, z, Regrouped
  <2>3. kind \in Generic \cup {"root", "tuple"}
    BY <1>7
  <2> HIDE DEF y, z, f, g
  <2>4. Begins(z \o s.text, w)
    BY <1>7, <2>2
  <2>5. Begins(z, w)
    BY <2>1, <2>2, <2>4, BeginsShorter
  <2>6. Begins(y, w)
    <3>1. Begins(y \o c, w)
      BY <2>5 DEF z
    <3> QED
      BY <1>2, <2>2, <3>1, BeginsShorter
  <2>7. Awaited(fs, l.nesting + 1) /\ Awaited(fs, s.nesting + 1) /\ Row(fs)
    <3>1. Row(fs) /\ Last(fs).expecting /\ Len(fs) + (m.nesting + 1) <= MaxNesting + 1
      BY <1>7 DEF Awaited
    <3>2. Len(fs) \in Nat
      BY <3>1, OnTop
    <3>3. /\ Len(fs) + (l.nesting + 1) <= MaxNesting + 1
          /\ Len(fs) + (s.nesting + 1) <= MaxNesting + 1
      BY <1>5, <3>1, <3>2, TypeAssumption
    <3> QED
      BY <3>1, <3>3 DEF Awaited
  <2>8. PICK comma \in BOOLEAN :
          Leads(w, k, Reading(x, Append(fs, Frame(kind))),
                Reading(y, Append(fs, Filled(kind, l.args, FALSE, comma))))
    <3>1. Begins(x \o l.text, w)
      BY <2>6 DEF y
    <3> QED
      BY <2>7, <3>1 DEF ListUnderstood, y
  <2>9. Leads(w, k, Reading(y, Append(fs, Filled(kind, l.args, FALSE, comma))),
              Reading(z, Append(fs, g)))
    <3> DEFINE e == Filled(kind, l.args, FALSE, comma)
               gs == Append(fs, e)
    <3>1. Last(gs) = e
      BY <2>7, OnTop
    <3>2. e.kind # "root" /\ ~e.expecting
      BY DEF Filled, Generic
    <3>3. WithComma(gs) = Append(fs, g)
      BY <2>3, <2>7, CommaOnTop, Zenon DEF g
    <3>4. Begins(y \o <<Separator>>, w)
      BY <2>5 DEF z, c
    <3> HIDE DEF e, gs
    <3>5. Leads(w, k, Reading(y, gs), Reading(y \o <<Separator>>, WithComma(gs)))
      BY <2>2, <3>1, <3>2, <3>4, CommaLeads
    <3> QED
      BY <3>3, <3>5 DEF e, gs, z, c
  <2>10. Leads(w, k, Reading(z, Append(fs, g)), Reading(x \o m.text, Append(fs, f)))
    <3> DEFINE gs == Append(fs, g)
    <3>1. Awaited(gs, s.nesting)
      BY <1>5, <2>7, FrameAwaits DEF g
    <3>2. WithType(gs, s.type) = Append(fs, Filled(kind, Append(l.args, s.type), FALSE, TRUE))
      <4>1. TypeReadOnTop(fs, kind, l.args, TRUE, TRUE, s.type)
        BY <2>3, <2>7, TypeOnTop
      <4> QED
        BY <4>1, Zenon DEF TypeReadOnTop, g
    <3> HIDE DEF gs
    <3>3. Leads(w, k, Reading(z, gs), Reading(z \o s.text, WithType(gs, s.type)))
      BY <2>2, <2>4, <3>1 DEF Understood
    <3> QED
      BY <1>4, <2>2, <3>2, <3>3 DEF gs, f
  <2> DEFINE c1 == Reading(x, Append(fs, Frame(kind)))
             c2 == Reading(y, Append(fs, Filled(kind, l.args, FALSE, comma)))
             c3 == Reading(z, Append(fs, g))
             c4 == Reading(x \o m.text, Append(fs, f))
  <2> HIDE DEF c1, c2, c3, c4
  <2>11. Leads(w, k, c1, c2) /\ Leads(w, k, c2, c3) /\ Leads(w, k, c3, c4)
    BY <2>8, <2>9, <2>10 DEF c1, c2, c3, c4
  <2>12. Leads(w, k, c1, c4)
    BY <2>11, LeadsOn
  <2> QED
    BY <2>12 DEF c1, c4, f
<1> QED
  BY <1>4, <1>6, <1>7 DEF ListUnderstood

\* The lists of types, and what they are applied to.
LEMMA JoinedFields ==
  ASSUME NEW a, NEW b
  PROVE  /\ Join(a, b).text = a.text \o <<Separator>> \o b.text
         /\ Join(a, b).args = a.args \o b.args
         /\ Join(a, b).nesting = IF a.nesting > b.nesting THEN a.nesting ELSE b.nesting
BY Zenon DEF Join, Separator

AllUnderstood(S, k) == \A s \in S : Understood(s, k)

Understands(l, k, n) == ListUnderstood(l, k) /\ Len(l.args) = n

LEMMA OneListFields ==
  ASSUME NEW F, NEW n, NEW l \in One(F, n)
  PROVE  \E s \in F[n] : l.text = s.text /\ l.args = <<s.type>> /\ l.nesting = s.nesting
BY DEF One

LEMMA OneListUnderstood ==
  ASSUME NEW k, NEW F, NEW n, AllUnderstood(F[n], k), NEW l \in One(F, n)
  PROVE  Understands(l, k, 1)
<1>1. PICK s \in F[n] : l.text = s.text /\ l.args = <<s.type>> /\ l.nesting = s.nesting
  BY OneListFields
<1>2. Understood(s, k)
  BY DEF AllUnderstood
<1>3. ListUnderstood(l, k)
  BY <1>1, <1>2, OneUnderstood
<1>4. Len(l.args) = 1
  BY <1>1
<1> QED
  BY <1>3, <1>4 DEF Understands

LEMMA JoinUnderstood ==
  ASSUME NEW k, NEW F, NEW n, AllUnderstood(F[n], k),
         NEW h \in Nat, NEW l, Understands(l, k, h), NEW b \in One(F, n), NEW m, m = Join(l, b)
  PROVE  Understands(m, k, h + 1)
<1>1. PICK s \in F[n] : b.text = s.text /\ b.args = <<s.type>> /\ b.nesting = s.nesting
  BY OneListFields
<1>2. Understood(s, k) /\ ListUnderstood(l, k) /\ Len(l.args) = h
  BY DEF AllUnderstood, Understands
<1>3. /\ m.text = l.text \o <<Separator>> \o b.text /\ m.args = l.args \o b.args
      /\ m.nesting = IF l.nesting > b.nesting THEN l.nesting ELSE b.nesting
  BY JoinedFields
<1>4. /\ m.text = l.text \o <<Separator>> \o s.text /\ m.args = l.args \o <<s.type>>
      /\ m.nesting = IF l.nesting > s.nesting THEN l.nesting ELSE s.nesting
  BY Zenon, <1>1, <1>3
<1>5. ListUnderstood(m, k)
  BY Zenon, <1>2, <1>4, MoreUnderstood
<1>6. Len(m.args) = Len(l.args) + 1
  <2>1. PICK R : l.args \in Seq(R)
    BY <1>2 DEF ListUnderstood, Row
  <2> DEFINE T == R \cup {s.type}
  <2>2. l.args \in Seq(T) /\ <<s.type>> \in Seq(T) /\ Len(<<s.type>>) = 1
    BY <2>1, SeqMonotonic
  <2> HIDE DEF T
  <2>3. Len(l.args \o <<s.type>>) = Len(l.args) + 1
    BY <2>2, ConcatProperties
  <2> QED
    BY <1>4, <2>3
<1> QED
  BY <1>2, <1>5, <1>6 DEF Understands

LEMMA JoinedUnderstood ==
  ASSUME NEW k, NEW F, NEW n \in Nat, \A i \in 0..(n - 1) : AllUnderstood(F[i], k),
         NEW h \in Nat, NEW i \in 1..(n - 1), NEW j \in 1..(i - 2), NEW S,
         \A l \in S : Understands(l, k, h), NEW m \in Joined(S, One(F, i - 1 - j))
  PROVE  Understands(m, k, h + 1)
<1> DEFINE o == i - 1 - j
<1>1. o \in 0..(n - 1)
  OBVIOUS
<1>2. PICK u \in S, v \in One(F, o) : m = Join(u, v)
  BY DEF Joined
<1> HIDE DEF o
<1>3. AllUnderstood(F[o], k) /\ Understands(u, k, h)
  BY <1>1
<1> QED
  BY <1>2, <1>3, JoinUnderstood

LEMMA ListsUnderstood ==
  ASSUME NEW k, NEW F, NEW n \in Nat, \A i \in 0..(n - 1) : AllUnderstood(F[i], k),
         NEW a \in 1..3, NEW j \in Int, j < n, NEW l \in Separated(F, a, j)
  PROVE  Understands(l, k, a)
<1>1. ASSUME NEW i \in 1..(n - 1), NEW m \in One(F, i)
      PROVE  Understands(m, k, 1)
  <2>1. AllUnderstood(F[i], k)
    OBVIOUS
  <2> QED
    BY <2>1, <1>1, OneListUnderstood
<1>2. ASSUME NEW i \in 1..(n - 1), NEW m \in Two(F, i)
      PROVE  Understands(m, k, 2)
  <2>1. PICK h \in 1..(i - 2) : m \in Joined(One(F, h), One(F, i - 1 - h))
    BY <1>2 DEF Two
  <2> DEFINE S == One(F, h)
  <2>2. h \in 1..(n - 1)
    OBVIOUS
  <2>3. \A u \in S : Understands(u, k, 1)
    BY <1>1, <2>2
  <2> HIDE DEF S
  <2>4. m \in Joined(S, One(F, i - 1 - h))
    BY <2>1 DEF S
  <2>5. Understands(m, k, 1 + 1)
    BY <2>3, <2>4, JoinedUnderstood
  <2> QED
    BY <2>5
<1>3. ASSUME NEW i \in 1..(n - 1), NEW m \in Three(F, i)
      PROVE  Understands(m, k, 3)
  <2>1. PICK h \in 1..(i - 2) : m \in Joined(Two(F, h), One(F, i - 1 - h))
    BY <1>3 DEF Three
  <2> DEFINE S == Two(F, h)
  <2>2. h \in 1..(n - 1)
    OBVIOUS
  <2>3. \A u \in S : Understands(u, k, 2)
    BY <1>2, <2>2
  <2> HIDE DEF S
  <2>4. m \in Joined(S, One(F, i - 1 - h))
    BY <2>1 DEF S
  <2>5. Understands(m, k, 2 + 1)
    BY <2>3, <2>4, JoinedUnderstood
  <2> QED
    BY <2>5
<1>4. j \in 1..(n - 1) /\ l \in (CASE a = 1 -> One(F, j) [] a = 2 -> Two(F, j) [] OTHER -> Three(F, j))
  <2>1. j >= 1
    BY DEF Separated
  <2> QED
    BY <2>1 DEF Separated
<1>5. CASE a = 1
  BY <1>1, <1>4, <1>5
<1>6. CASE a = 2
  BY <1>2, <1>4, <1>6
<1>7. CASE a = 3
  BY <1>3, <1>4, <1>7
<1> QED
  BY <1>5, <1>6, <1>7

-----------------------------------------------------------------------------
\* The types by their names, and the unit type by its brackets.
LEMMA NamesUnderstood ==
  ASSUME NEW k, NEW name \in Basic \cup {"accounthash"}
  PROVE  Understood(Phrase(<<name>>, Named(name), 0), k)
<1> DEFINE s == Phrase(<<name>>, Named(name), 0)
<1>1. s.text = <<name>> /\ s.type = Named(name) /\ s.nesting = 0
  BY DEF Phrase
<1>2. name \in Token /\ name # ")"
  BY Kinds DEF Name, Punctuation
<1> HIDE DEF s
<1>3. Proper(s)
  <2>1. <<name>> \in Seq(Token) /\ <<name>> # <<>> /\ <<name>>[1] = name
    BY <1>2
  <2> QED
    BY <1>1, <1>2, <2>1 DEF Proper
<1>4. ASSUME NEW w \in Seq(Token), NEW x \in Seq(Token), NEW fs,
             Awaited(fs, s.nesting), Begins(x \o s.text, w)
      PROVE  Leads(w, k, Reading(x, fs), Reading(x \o s.text, WithType(fs, s.type)))
  <2>1. Last(fs).expecting
    BY <1>4 DEF Awaited
  <2>2. Begins(x \o <<name>>, w)
    BY <1>1, <1>4
  <2>3. Leads(w, k, Reading(x, fs), Reading(x \o <<name>>, WithType(fs, Named(name))))
    BY <2>1, <2>2, NameLeads
  <2> QED
    BY <1>1, <2>3
<1>5. Understood(s, k)
  BY <1>3, <1>4 DEF Understood
<1> QED
  BY <1>5 DEF s

LEMMA UnitUnderstood ==
  Understood(Phrase(<<"(", ")">>, Named("unit"), 0), TRUE)
<1> DEFINE s == Phrase(<<"(", ")">>, Named("unit"), 0)
<1>1. s.text = <<"(", ")">> /\ s.type = Named("unit") /\ s.nesting = 0
  BY DEF Phrase
<1>2. "(" \in Token /\ ")" \in Token
  BY DEF Token, Punctuation
<1> HIDE DEF s
<1>3. Proper(s)
  <2> DEFINE t == <<"(", ")">>
  <2>1. t \in Seq(Token) /\ t # <<>> /\ t[1] = "("
    BY <1>2
  <2> HIDE DEF t
  <2>2. s.text = t
    BY <1>1 DEF t
  <2>3. "(" # ")" /\ 0 \in Nat
    OBVIOUS
  <2> HIDE DEF Phrase
  <2> QED
    BY <1>1, <2>1, <2>2, <2>3, Zenon DEF Proper
<1>4. ASSUME NEW w \in Seq(Token), NEW x \in Seq(Token), NEW fs,
             Awaited(fs, s.nesting), Begins(x \o s.text, w)
      PROVE  Leads(w, TRUE, Reading(x, fs), Reading(x \o s.text, WithType(fs, s.type)))
  <2>1. Last(fs).expecting
    BY <1>4 DEF Awaited
  <2>2. Begins(x \o <<"(", ")">>, w)
    BY <1>1, <1>4
  <2>3. Leads(w, TRUE, Reading(x, fs), Reading(x \o <<"(", ")">>, WithType(fs, Named("unit"))))
    BY <2>1, <2>2, UnitLeads
  <2> QED
    BY <1>1, <2>3
<1>5. Understood(s, TRUE)
  BY <1>3, <1>4 DEF Understood
<1> QED
  BY <1>5 DEF s

-----------------------------------------------------------------------------
\* A frame that is closed is the type that it was opened for.
LEMMA ClosedFrame ==
  ASSUME NEW kind \in Generic \cup {"tuple"}, NEW args, NEW expecting \in BOOLEAN,
         NEW comma \in BOOLEAN, NEW g \in Generic, Len(args) = Arity(g),
         \/ kind = g
         \/ kind = "tuple" /\ g \in {"tuple1", "tuple2", "tuple3"},
         g = "tuple1" /\ kind = "tuple" => comma,
         expecting => kind = "tuple" /\ comma /\ args # <<>>
  PROVE  LET f == Filled(kind, args, expecting, comma) IN
         Complete(f) /\ Fits(f) /\ Built(f) = Type(g, args) /\ f.kind = kind
<1> DEFINE f == Filled(kind, args, expecting, comma)
<1>1. f.kind = kind /\ f.args = args /\ f.expecting = expecting /\ f.comma = comma
  BY DEF Filled
<1> HIDE DEF f
<1>2. Complete(f)
  BY <1>1 DEF Complete
<1>3. Fits(f) /\ Built(f) = Type(g, args)
  <2>1. CASE kind = g
    <3>1. kind # "tuple"
      BY <2>1 DEF Generic
    <3> QED
      BY <1>1, <2>1, <3>1 DEF Fits, Built
  <2>2. CASE kind = "tuple" /\ g \in {"tuple1", "tuple2", "tuple3"}
    <3>1. /\ g = "tuple1" => Len(args) = 1
          /\ g = "tuple2" => Len(args) = 2
          /\ g = "tuple3" => Len(args) = 3
      BY DEF Arity
    <3>2. Fits(f)
      BY <1>1, <2>2, <3>1 DEF Fits
    <3>3. Built(f) = Type(g, args)
      BY <1>1, <2>2, <3>1 DEF Built
    <3> QED
      BY <3>2, <3>3
  <2> QED
    BY <2>1, <2>2
<1> QED
  BY <1>1, <1>2, <1>3 DEF f

\* What is read in a frame leads to the type that the frame is closed as.
LEMMA ClosedLeads ==
  ASSUME NEW w \in Seq(Token), NEW k, NEW x \in Seq(Token), NEW fs, Row(fs), Last(fs).expecting,
         NEW kind \in Generic \cup {"tuple"}, NEW args, NEW expecting \in BOOLEAN,
         NEW comma \in BOOLEAN, NEW g \in Generic, Len(args) = Arity(g),
         \/ kind = g
         \/ kind = "tuple" /\ g \in {"tuple1", "tuple2", "tuple3"},
         g = "tuple1" /\ kind = "tuple" => comma,
         expecting => kind = "tuple" /\ comma /\ args # <<>>,
         NEW delimiter \in {">", ")"}, Matches(delimiter, kind),
         Begins(x \o <<delimiter>>, w)
  PROVE  Leads(w, k, Reading(x, Append(fs, Filled(kind, args, expecting, comma))),
               Reading(x \o <<delimiter>>, WithType(fs, Type(g, args))))
<1> DEFINE f  == Filled(kind, args, expecting, comma)
           gs == Append(fs, f)
<1>1. Complete(f) /\ Fits(f) /\ Built(f) = Type(g, args) /\ f.kind = kind
  BY ZenonT(30), ClosedFrame
<1>2. Last(gs) = f /\ Front(gs) = fs
  BY OnTop
<1> HIDE DEF f, gs
<1>3. Leads(w, k, Reading(x, gs),
            Reading(x \o <<delimiter>>, WithType(Front(gs), Built(Last(gs)))))
  <2>1. Matches(delimiter, Last(gs).kind) /\ Complete(Last(gs)) /\ Fits(Last(gs))
    BY <1>1, <1>2
  <2>2. Last(Front(gs)).expecting
    BY <1>2
  <2> QED
    BY <2>1, <2>2, CloseLeads
<1> QED
  BY <1>1, <1>2, <1>3 DEF f, gs

\* A phrase in brackets.
InBrackets(before, l, behind, g) ==
  Phrase((before \o l.text) \o behind, Type(g, l.args), l.nesting + 1)

Bracketed(s, before, l, behind, g) ==
  /\ Proper(s) /\ l.text \in Seq(Token) /\ l.text # <<>> /\ l.text[1] # ")"
  /\ s.text = (before \o l.text) \o behind /\ s.type = Type(g, l.args)
  /\ s.nesting = l.nesting + 1 /\ l.nesting \in Nat

LEMMA BracketsProper ==
  ASSUME NEW before \in Seq(Token), before # <<>>, before[1] # ")", NEW behind \in Seq(Token),
         NEW g, NEW k, NEW n, NEW l, Understands(l, k, n),
         NEW s, s = InBrackets(before, l, behind, g)
  PROVE  Bracketed(s, before, l, behind, g)
<1>1. /\ s.text = (before \o l.text) \o behind /\ s.type = Type(g, l.args)
      /\ s.nesting = l.nesting + 1
  BY DEF InBrackets, Phrase
<1>2. /\ l.text \in Seq(Token) /\ l.text # <<>> /\ l.text[1] # ")" /\ l.nesting \in Nat
  BY DEF Understands, ListUnderstood, Proper
<1> DEFINE t == l.text
           y == before \o t
           z == y \o behind
<1>3. y \in Seq(Token) /\ y # <<>> /\ y[1] = before[1]
  BY <1>2
<1> HIDE DEF y
<1>4. z \in Seq(Token) /\ z # <<>> /\ z[1] = y[1]
  BY <1>3
<1> HIDE DEF z
<1>5. s.text = z /\ s.nesting \in Nat
  BY <1>1, <1>2 DEF y, z
<1>6. Proper(s)
  BY <1>3, <1>4, <1>5 DEF Proper
<1> QED
  BY <1>1, <1>2, <1>6 DEF Bracketed

LEMMA ListLeads ==
  ASSUME NEW k, NEW n, NEW l, Understands(l, k, n), NEW w \in Seq(Token), NEW x \in Seq(Token),
         NEW fs, NEW kind \in Generic \cup {"tuple"},
         Awaited(fs, l.nesting + 1), Begins(x \o l.text, w)
  PROVE  \E comma \in BOOLEAN :
           Leads(w, k, Reading(x, Append(fs, Frame(kind))),
                 Reading(x \o l.text, Append(fs, Filled(kind, l.args, FALSE, comma))))
BY DEF Understands, ListUnderstood

\* The texts before what is last in a text that is begun.
Begun(w, x, a, l, b) ==
  /\ x \o a \in Seq(Token) /\ (x \o a) \o l \in Seq(Token)
  /\ Regrouped(x, a, l, b) /\ Begins(((x \o a) \o l) \o b, w)
  /\ Begins((x \o a) \o l, w) /\ Begins(x \o a, w) /\ Begins(x \o (a \o l), w)

LEMMA BegunBefore ==
  ASSUME NEW w \in Seq(Token), NEW x \in Seq(Token), NEW a \in Seq(Token),
         NEW l \in Seq(Token), NEW b \in Seq(Token), Begins(x \o ((a \o l) \o b), w)
  PROVE  Begun(w, x, a, l, b)
<1> DEFINE y == x \o a
           z == y \o l
<1>1. y \in Seq(Token) /\ z \in Seq(Token) /\ Regrouped(x, a, l, b)
  BY Zenon, FourTexts
<1>2. Begins(((x \o a) \o l) \o b, w)
  BY Zenon, <1>1 DEF Regrouped
<1>3. z \in Seq(Token) /\ y \in Seq(Token) /\ Begins(z \o b, w)
  BY <1>1, <1>2
<1>4. z = x \o (a \o l)
  BY ZenonT(30), ThreeTexts
<1> HIDE DEF z
<1>5. Begins(z, w)
  BY <1>3, BeginsShorter
<1>6. Begins(y \o l, w) /\ Begins(x \o (a \o l), w)
  BY <1>4, <1>5 DEF z
<1> HIDE DEF y
<1>7. Begins(y, w)
  BY <1>3, <1>6, BeginsShorter
<1> QED
  BY <1>1, <1>2, <1>6, <1>7 DEF y, z, Begun

\* A generic type.
LEMMA GenericUnderstood ==
  ASSUME NEW k, NEW g \in Generic, NEW l, Understands(l, k, Arity(g)),
         NEW s, s = InBrackets(<<g, "<">>, l, <<">">>, g)
  PROVE  Understood(s, k)
<1> DEFINE a == <<g>>
           o == <<"<">>
           b == <<">">>
           t == l.text
           before == a \o o
<1>1. /\ g \in Token /\ "<" \in Token /\ ">" \in Token /\ g # ")"
  BY Kinds DEF Punctuation, Name, Generic
<1>2. /\ a \in Seq(Token) /\ o \in Seq(Token) /\ b \in Seq(Token)
      /\ <<g, "<">> = before
  BY <1>1, TwoTokens
<1>3. before \in Seq(Token) /\ before # <<>> /\ before[1] # ")"
  <2>1. a # <<>> /\ a[1] = g
    OBVIOUS
  <2> HIDE DEF a, o
  <2> QED
    BY <1>1, <1>2, <2>1
<1> HIDE DEF a, o, b, t, before
<1>4. s = InBrackets(before, l, b, g)
  BY <1>2 DEF b
<1>5. /\ Proper(s) /\ t \in Seq(Token)
      /\ s.text = (before \o t) \o b /\ s.type = Type(g, l.args)
      /\ s.nesting = l.nesting + 1 /\ l.nesting \in Nat
  <2>1. Bracketed(s, before, l, b, g)
    BY <1>2, <1>3, <1>4, BracketsProper
  <2> QED
    BY <2>1 DEF Bracketed, t
<1>6. ASSUME NEW w \in Seq(Token), NEW x \in Seq(Token), NEW fs,
             Awaited(fs, s.nesting), Begins(x \o s.text, w)
      PROVE  Leads(w, k, Reading(x, fs), Reading(x \o s.text, WithType(fs, s.type)))
  <2> DEFINE z1 == x \o a
             z2 == x \o before
             z3 == z2 \o t
  <2>1. Begins(x \o ((before \o t) \o b), w)
    BY <1>5, <1>6
  <2>2. /\ z2 \in Seq(Token) /\ z3 \in Seq(Token) /\ Regrouped(x, before, t, b)
        /\ Begins(z3 \o b, w) /\ Begins(z3, w) /\ Begins(z2, w)
    <3>1. Begun(w, x, before, t, b)
      BY <1>2, <1>3, <1>5, <1>6, <2>1, BegunBefore
    <3> QED
      BY <3>1, Zenon DEF Begun
  <2>3. z1 \in Seq(Token) /\ z2 = z1 \o o
    <3>1. z1 \o o = x \o (a \o o)
      BY <1>2, <1>6, ThreeTexts
    <3> QED
      BY <1>2, <1>6, <3>1, ConcatProperties DEF before
  <2>4. z3 \o b = x \o s.text
    BY Zenon, <1>5, <2>2 DEF Regrouped
  <2> HIDE DEF z1, z2, z3
  <2>5. Begins(z1, w) /\ Begins(z1 \o o, w)
    <3>1. Begins(z1 \o o, w)
      BY <2>2, <2>3
    <3> QED
      BY <1>2, <1>6, <2>3, <3>1, BeginsShorter
  <2>6. Awaited(fs, l.nesting + 1) /\ Row(fs) /\ Last(fs).expecting /\ Len(fs) <= MaxNesting
    <3>1. Awaited(fs, l.nesting + 1)
      BY <1>5, <1>6
    <3> QED
      BY <1>5, <3>1, FrameAwaits
  <2>7. Leads(w, k, Reading(x, fs), At(z1, fs, g, "reading"))
    <3>1. Begins(x \o <<g>>, w) /\ g \in Generic \cup {"bytearray"}
      BY <2>5 DEF z1, a
    <3>2. Leads(w, k, Reading(x, fs), At(x \o <<g>>, fs, g, "reading"))
      BY <1>6, <2>6, <3>1, PendingLeads
    <3> QED
      BY <3>2 DEF z1, a
  <2>8. Leads(w, k, At(z1, fs, g, "reading"), Reading(z2, Append(fs, Frame(g))))
    <3>1. Begins(z1 \o <<"<">>, w)
      BY <2>5 DEF o
    <3>2. Leads(w, k, At(z1, fs, g, "reading"), Reading(z1 \o <<"<">>, Append(fs, Frame(g))))
      BY <1>6, <2>3, <2>6, <3>1, OpenLeads
    <3> QED
      BY <2>3, <3>2 DEF o
  <2>9. PICK comma \in BOOLEAN :
          Leads(w, k, Reading(z2, Append(fs, Frame(g))),
                Reading(z3, Append(fs, Filled(g, l.args, FALSE, comma))))
    <3>1. Begins(z2 \o l.text, w) /\ g \in Generic \cup {"tuple"}
      BY <2>2 DEF z3, t
    <3>2. \E comma \in BOOLEAN :
            Leads(w, k, Reading(z2, Append(fs, Frame(g))),
                  Reading(z2 \o l.text, Append(fs, Filled(g, l.args, FALSE, comma))))
      BY <1>6, <2>2, <2>6, <3>1, ListLeads
    <3> QED
      BY <3>2 DEF z3, t
  <2>10. Leads(w, k, Reading(z3, Append(fs, Filled(g, l.args, FALSE, comma))),
               Reading(x \o s.text, WithType(fs, s.type)))
    <3>1. /\ g \in Generic \cup {"tuple"} /\ FALSE \in BOOLEAN /\ Len(l.args) = Arity(g)
          /\ g # "tuple" /\ Matches(">", g) /\ ">" \in {">", ")"}
      BY DEF Understands, Matches, Generic
    <3>2. Begins(z3 \o <<">">>, w)
      BY <2>2 DEF b
    <3>3. Leads(w, k, Reading(z3, Append(fs, Filled(g, l.args, FALSE, comma))),
                Reading(z3 \o <<">">>, WithType(fs, Type(g, l.args))))
      BY <1>6, <2>2, <2>6, <3>1, <3>2, ClosedLeads
    <3> QED
      BY <1>5, <2>4, <3>3 DEF b
  <2> DEFINE c1 == Reading(x, fs)
             c2 == At(z1, fs, g, "reading")
             c3 == Reading(z2, Append(fs, Frame(g)))
             c4 == Reading(z3, Append(fs, Filled(g, l.args, FALSE, comma)))
             c5 == Reading(x \o s.text, WithType(fs, s.type))
  <2> HIDE DEF c1, c2, c3, c4, c5
  <2>11. Leads(w, k, c1, c2) /\ Leads(w, k, c2, c3) /\ Leads(w, k, c3, c4) /\ Leads(w, k, c4, c5)
    BY <2>7, <2>8, <2>9, <2>10 DEF c1, c2, c3, c4, c5
  <2>12. Leads(w, k, c1, c3) /\ Leads(w, k, c3, c5)
    BY <2>11, LeadsOn
  <2>13. Leads(w, k, c1, c5)
    BY <2>12, LeadsOn
  <2> QED
    BY <2>13 DEF c1, c5
<1> QED
  BY <1>5, <1>6 DEF Understood

\* A tuple, without a comma at its end and with one.
LEMMA TupleUnderstood ==
  ASSUME NEW k, NEW g \in {"tuple1", "tuple2", "tuple3"}, NEW l, Understands(l, k, Arity(g)),
         NEW behind, \/ g # "tuple1" /\ behind = <<")">>
                     \/ behind = <<Separator>> \o <<")">>,
         NEW s, s = InBrackets(<<"(">>, l, behind, g)
  PROVE  Understood(s, k)
<1> DEFINE before == <<"(">>
           c == <<Separator>>
           b == <<")">>
           t == l.text
<1>1. "(" \in Token /\ ")" \in Token /\ Separator \in Token /\ "(" # ")"
  BY SeparatorIsToken DEF Token, Punctuation
<1>2. /\ before \in Seq(Token) /\ c \in Seq(Token) /\ b \in Seq(Token)
      /\ before # <<>> /\ before[1] # ")"
  BY <1>1, OneToken
<1>3. g \in Generic /\ Len(l.args) = Arity(g) /\ l.args # <<>>
  <2>1. Len(l.args) = Arity(g)
    BY DEF Understands
  <2>2. Arity(g) # 0
    BY DEF Arity
  <2>3. l.args # <<>>
    BY <2>1, <2>2
  <2> QED
    BY <2>1, <2>3 DEF Generic
<1> HIDE DEF before, c, b, t
<1>4. behind \in Seq(Token)
  <2>1. behind = b \/ behind = c \o b
    BY DEF b, c
  <2>2. c \o b \in Seq(Token)
    BY <1>2, ConcatProperties
  <2> QED
    BY <1>2, <2>1, <2>2
<1>5. /\ Proper(s) /\ t \in Seq(Token) /\ t # <<>> /\ t[1] # ")"
      /\ s.text = (before \o t) \o behind /\ s.type = Type(g, l.args)
      /\ s.nesting = l.nesting + 1 /\ l.nesting \in Nat
  <2>1. Bracketed(s, before, l, behind, g)
    <3>1. s = InBrackets(before, l, behind, g)
      BY DEF before
    <3> QED
      BY <1>2, <1>4, <3>1, BracketsProper
  <2> QED
    BY <2>1 DEF Bracketed, t
<1>6. ASSUME NEW w \in Seq(Token), NEW x \in Seq(Token), NEW fs,
             Awaited(fs, s.nesting), Begins(x \o s.text, w)
      PROVE  Leads(w, k, Reading(x, fs), Reading(x \o s.text, WithType(fs, s.type)))
  <2> DEFINE y == x \o before
             z == y \o t
  <2>1. Begins(x \o ((before \o t) \o behind), w)
    BY <1>5, <1>6
  <2>2. /\ y \in Seq(Token) /\ z \in Seq(Token) /\ Regrouped(x, before, t, behind)
        /\ Begins(z \o behind, w) /\ Begins(z, w) /\ Begins(x \o (before \o t), w)
    <3>1. Begun(w, x, before, t, behind)
      BY <1>2, <1>4, <1>5, <1>6, <2>1, BegunBefore
    <3> QED
      BY <3>1, Zenon DEF Begun
  <2>3. z \o behind = x \o s.text
    BY Zenon, <1>5, <2>2 DEF Regrouped
  <2> HIDE DEF y, z
  <2>4. Awaited(fs, l.nesting + 1) /\ Row(fs) /\ Last(fs).expecting /\ Len(fs) <= MaxNesting
    <3>1. Awaited(fs, l.nesting + 1)
      BY <1>5, <1>6
    <3> QED
      BY <1>5, <3>1, FrameAwaits
  <2>5. Leads(w, k, Reading(x, fs), Reading(y, Append(fs, Frame("tuple"))))
    <3>1. Begins(x \o (<<"(">> \o t), w)
      BY <2>2 DEF before
    <3>2. Leads(w, k, Reading(x, fs), Reading(x \o <<"(">>, Append(fs, Frame("tuple"))))
      BY <1>5, <1>6, <2>4, <3>1, TupleLeads
    <3> QED
      BY <3>2 DEF y, before
  <2>6. PICK comma \in BOOLEAN :
          Leads(w, k, Reading(y, Append(fs, Frame("tuple"))),
                Reading(z, Append(fs, Filled("tuple", l.args, FALSE, comma))))
    <3>1. Begins(y \o l.text, w) /\ "tuple" \in Generic \cup {"tuple"}
      BY <2>2 DEF z, t
    <3>2. \E comma \in BOOLEAN :
            Leads(w, k, Reading(y, Append(fs, Frame("tuple"))),
                  Reading(y \o l.text, Append(fs, Filled("tuple", l.args, FALSE, comma))))
      BY <1>6, <2>2, <2>4, <3>1, ListLeads
    <3> QED
      BY <3>2 DEF z, t
  <2> DEFINE f == Filled("tuple", l.args, FALSE, comma)
             c1 == Reading(x, fs)
             c2 == Reading(y, Append(fs, Frame("tuple")))
             c3 == Reading(z, Append(fs, f))
             c5 == Reading(x \o s.text, WithType(fs, s.type))
  <2>7. "tuple" \in Generic \cup {"tuple"} /\ Matches(")", "tuple") /\ ")" \in {">", ")"}
    BY DEF Matches
  <2>8. CASE g # "tuple1" /\ behind = <<")">>
    <3>1. Begins(z \o <<")">>, w)
      BY <2>2, <2>8
    <3>2. /\ FALSE \in BOOLEAN /\ ~(g = "tuple1" /\ "tuple" = "tuple")
          /\ \/ "tuple" = g
             \/ "tuple" = "tuple" /\ g \in {"tuple1", "tuple2", "tuple3"}
      BY <2>8
    <3>3. Leads(w, k, Reading(z, Append(fs, Filled("tuple", l.args, FALSE, comma))),
                Reading(z \o <<")">>, WithType(fs, Type(g, l.args))))
      BY <1>3, <1>6, <2>2, <2>4, <2>7, <3>1, <3>2, ClosedLeads
    <3>4. Leads(w, k, c3, c5)
      BY <1>5, <2>3, <2>8, <3>3
    <3> HIDE DEF c1, c2, c3, c5
    <3>5. Leads(w, k, c1, c2) /\ Leads(w, k, c2, c3)
      BY <2>5, <2>6 DEF c1, c2, c3
    <3>6. Leads(w, k, c1, c3)
      BY <3>5, LeadsOn
    <3>7. Leads(w, k, c1, c5)
      BY <3>4, <3>6, LeadsOn
    <3> QED
      BY <3>7 DEF c1, c5
  <2>9. CASE behind = <<Separator>> \o <<")">>
    <3> DEFINE v == z \o c
               gs == Append(fs, f)
               c4 == Reading(v, Append(fs, Filled("tuple", l.args, TRUE, TRUE)))
    <3>1. v \in Seq(Token) /\ v \o b = z \o behind
      <4>1. v \in Seq(Token)
        BY <1>2, <2>2, ConcatProperties
      <4>2. v \o b = z \o (c \o b)
        <5>1. z \in Seq(Token) /\ c \in Seq(Token) /\ b \in Seq(Token)
          BY <1>2, <2>2
        <5> QED
          BY ZenonT(30), <5>1, ThreeTexts
      <4> QED
        BY <2>9, <4>1, <4>2 DEF c, b
    <3> HIDE DEF v
    <3>2. Begins(v \o b, w) /\ Begins(v, w)
      <4>1. Begins(v \o b, w)
        BY <2>2, <3>1
      <4> QED
        BY <1>2, <1>6, <3>1, <4>1, BeginsShorter
    <3>3. Leads(w, k, c3, c4)
      <4>1. Last(gs) = f
        BY <2>4, OnTop
      <4>2. f.kind # "root" /\ ~f.expecting
        BY DEF Filled
      <4>3. WithComma(gs) = Append(fs, Filled("tuple", l.args, TRUE, TRUE))
        <5>1. "tuple" \in Generic \cup {"root", "tuple"} /\ FALSE \in BOOLEAN
          OBVIOUS
        <5> QED
          BY <2>4, <2>6, <5>1, CommaOnTop, Zenon
      <4>4. Begins(z \o <<Separator>>, w)
        BY <3>2 DEF v, c
      <4> HIDE DEF f, gs
      <4>5. Leads(w, k, Reading(z, gs), Reading(z \o <<Separator>>, WithComma(gs)))
        BY <1>6, <2>2, <4>1, <4>2, <4>4, CommaLeads
      <4> QED
        BY <4>3, <4>5 DEF gs, v, c
    <3>4. Leads(w, k, c4, c5)
      <4>1. Begins(v \o <<")">>, w)
        BY <3>2 DEF b
      <4>2. /\ TRUE \in BOOLEAN
            /\ \/ "tuple" = g
               \/ "tuple" = "tuple" /\ g \in {"tuple1", "tuple2", "tuple3"}
        OBVIOUS
      <4>3. Leads(w, k, Reading(v, Append(fs, Filled("tuple", l.args, TRUE, TRUE))),
                  Reading(v \o <<")">>, WithType(fs, Type(g, l.args))))
        BY <1>3, <1>6, <2>4, <2>7, <3>1, <4>1, <4>2, ClosedLeads
      <4> QED
        BY <1>5, <2>3, <3>1, <4>3 DEF b
    <3> HIDE DEF c1, c2, c3, c4, c5
    <3>5. Leads(w, k, c1, c2) /\ Leads(w, k, c2, c3)
      BY <2>5, <2>6 DEF c1, c2, c3
    <3>6. Leads(w, k, c1, c3) /\ Leads(w, k, c3, c5)
      BY <3>3, <3>4, <3>5, LeadsOn
    <3>7. Leads(w, k, c1, c5)
      BY <3>6, LeadsOn
    <3> QED
      BY <3>7 DEF c1, c5
  <2> QED
    BY <2>8, <2>9
<1> QED
  BY <1>5, <1>6 DEF Understood

\* A byte array.
LEMMA ByteArrayUnderstood ==
  ASSUME NEW k, NEW b \in {"<", "["}, NEW n \in DOMAIN Number
  PROVE  Understood(Phrase(<<"bytearray", b, n, Closing[b]>>, ByteArray(Number[n]), 0), k)
<1> DEFINE y == <<"bytearray", b, n, Closing[b]>>
           a == <<"bytearray">>
           z == <<b, n, Closing[b]>>
           s == Phrase(y, ByteArray(Number[n]), 0)
<1>1. /\ "bytearray" \in Token /\ b \in Token /\ n \in Token /\ Closing[b] \in Token
      /\ "bytearray" # ")"
  BY DEF Token, Punctuation, Name, Closing
<1>2. /\ y \in Seq(Token) /\ a \in Seq(Token) /\ z \in Seq(Token) /\ y = a \o z
      /\ y # <<>> /\ y[1] # ")"
  BY <1>1
<1>3. s.text = y /\ s.type = ByteArray(Number[n]) /\ s.nesting = 0
  BY DEF Phrase
<1> HIDE DEF s
<1>4. Proper(s)
  <2> HIDE DEF y
  <2> QED
    BY <1>2, <1>3 DEF Proper
<1>5. ASSUME NEW w \in Seq(Token), NEW x \in Seq(Token), NEW fs,
             Awaited(fs, s.nesting), Begins(x \o s.text, w)
      PROVE  Leads(w, k, Reading(x, fs), Reading(x \o s.text, WithType(fs, s.type)))
  <2> DEFINE v == x \o a
  <2> HIDE DEF y, a, z, v
  <2>1. Begins(x \o (a \o z), w) /\ Last(fs).expecting
    BY <1>2, <1>3, <1>5 DEF Awaited
  <2>2. v \in Seq(Token) /\ Begins(v \o z, w) /\ Begins(v, w)
    BY <1>2, <1>5, <2>1, BeginsWith DEF v
  <2>3. v \o z = x \o s.text
    <3>1. x \in Seq(Token) /\ a \in Seq(Token) /\ z \in Seq(Token)
      BY <1>2, <1>5
    <3>2. (x \o a) \o z = x \o (a \o z)
      BY <3>1, ThreeTexts
    <3> QED
      BY <1>2, <1>3, <3>2 DEF v
  <2>4. Leads(w, k, Reading(x, fs), At(v, fs, "bytearray", "reading"))
    <3>1. Begins(x \o <<"bytearray">>, w) /\ "bytearray" \in Generic \cup {"bytearray"}
      BY <2>2 DEF v, a
    <3>2. Leads(w, k, Reading(x, fs), At(x \o <<"bytearray">>, fs, "bytearray", "reading"))
      BY <1>5, <2>1, <3>1, PendingLeads
    <3> QED
      BY <3>2 DEF v, a
  <2>5. Leads(w, k, At(v, fs, "bytearray", "reading"),
              Reading(v \o z, WithType(fs, ByteArray(Number[n]))))
    <3>1. Begins(v \o <<b, n, Closing[b]>>, w)
      BY <2>2 DEF z
    <3>2. Leads(w, k, At(v, fs, "bytearray", "reading"),
                Reading(v \o <<b, n, Closing[b]>>, WithType(fs, ByteArray(Number[n]))))
      BY <1>5, <2>1, <2>2, <3>1, LengthLeads
    <3> QED
      BY <3>2 DEF z
  <2> DEFINE c1 == Reading(x, fs)
             c2 == At(v, fs, "bytearray", "reading")
             c3 == Reading(v \o z, WithType(fs, ByteArray(Number[n])))
  <2> HIDE DEF c1, c2, c3
  <2>6. Leads(w, k, c1, c2) /\ Leads(w, k, c2, c3)
    BY <2>4, <2>5 DEF c1, c2, c3
  <2>7. Leads(w, k, c1, c3)
    BY <2>6, LeadsOn
  <2> QED
    BY <1>3, <2>3, <2>7 DEF c1, c3
<1>6. Understood(s, k)
  BY <1>4, <1>5 DEF Understood
<1> QED
  BY <1>6 DEF s

-----------------------------------------------------------------------------
(***************************************************************************)
(* Every phrase is understood.                                             *)
(***************************************************************************)

LEMMA AppliedFields ==
  ASSUME NEW name, NEW before, NEW lists, NEW behind, NEW s \in Applied(name, before, lists, behind)
  PROVE  \E l \in lists : s = InBrackets(before, l, behind, name) /\ l.nesting < MaxNesting
BY Zenon DEF Applied, InBrackets

CommaAndClose == <<",", ")">>

LEMMA CommaBeforeClose ==
  /\ CommaAndClose = <<Separator>> \o <<")">>
  /\ \A F, n : PrintedOneTuples(F, n) = Applied("tuple1", <<"(">>, Separated(F, 1, n - 3), CommaAndClose)
  /\ \A F, n : TuplesWithComma(F, n) =
       UNION {Applied(g, <<"(">>, Separated(F, Arity(g), n - 3), CommaAndClose) :
                g \in {"tuple1", "tuple2", "tuple3"}}
<1>1. CommaAndClose = <<Separator, ")">>
  BY Zenon DEF CommaAndClose, Separator
<1>2. <<Separator>> \o <<")">> = <<Separator, ")">>
  <2>1. Separator \in Token /\ ")" \in Token
    BY SeparatorIsToken DEF Token, Punctuation
  <2> QED
    BY <2>1, TwoTokens
<1>3. \A F, n : PrintedOneTuples(F, n) = Applied("tuple1", <<"(">>, Separated(F, 1, n - 3), CommaAndClose)
  BY Zenon DEF PrintedOneTuples, CommaAndClose
<1>4. \A F, n : TuplesWithComma(F, n) =
        UNION {Applied(g, <<"(">>, Separated(F, Arity(g), n - 3), CommaAndClose) :
                 g \in {"tuple1", "tuple2", "tuple3"}}
  BY Zenon DEF TuplesWithComma, CommaAndClose
<1> QED
  BY <1>1, <1>2, <1>3, <1>4

Shallow(s) == s.nesting \in 0..MaxNesting

LEMMA AppliedUnderstood ==
  ASSUME NEW k, NEW g \in Generic, NEW before, NEW lists, NEW behind,
         \A l \in lists : Understands(l, k, Arity(g)),
         \/ before = <<g, "<">> /\ behind = <<">">>
         \/ /\ before = <<"(">> /\ g \in {"tuple1", "tuple2", "tuple3"}
            /\ \/ g # "tuple1" /\ behind = <<")">>
               \/ behind = CommaAndClose,
         NEW s \in Applied(g, before, lists, behind)
  PROVE  Understood(s, k) /\ Shallow(s)
<1>1. PICK l \in lists : s = InBrackets(before, l, behind, g) /\ l.nesting < MaxNesting
  BY AppliedFields
<1>2. Understands(l, k, Arity(g))
  OBVIOUS
<1>3. Understood(s, k)
  <2>1. CASE before = <<g, "<">> /\ behind = <<">">>
    BY <1>1, <1>2, <2>1, GenericUnderstood
  <2>2. CASE /\ before = <<"(">> /\ g \in {"tuple1", "tuple2", "tuple3"}
             /\ \/ g # "tuple1" /\ behind = <<")">>
                \/ behind = CommaAndClose
    <3>1. s = InBrackets(<<"(">>, l, behind, g)
      BY <1>1, <2>2
    <3>2. \/ g # "tuple1" /\ behind = <<")">>
          \/ behind = <<Separator>> \o <<")">>
      BY <2>2, CommaBeforeClose
    <3> QED
      BY <1>2, <2>2, <3>1, <3>2, TupleUnderstood
  <2> QED
    BY <2>1, <2>2
<1>4. s.nesting = l.nesting + 1 /\ l.nesting \in Nat
  <2>1. l.nesting \in Nat
    BY <1>2 DEF Understands, ListUnderstood, Proper
  <2> QED
    BY <1>1, <2>1 DEF InBrackets, Phrase
<1> QED
  BY <1>1, <1>3, <1>4, TypeAssumption DEF Shallow

LEMMA SimpleUnderstood ==
  ASSUME NEW k, NEW s,
         \/ \E name \in Basic \cup {"accounthash"} : s = Phrase(<<name>>, Named(name), 0)
         \/ k = TRUE /\ s = Phrase(<<"(", ")">>, Named("unit"), 0)
         \/ \E b \in {"<", "["}, n \in DOMAIN Number :
              s = Phrase(<<"bytearray", b, n, Closing[b]>>, ByteArray(Number[n]), 0)
  PROVE  Understood(s, k) /\ Shallow(s)
<1>1. CASE \E name \in Basic \cup {"accounthash"} : s = Phrase(<<name>>, Named(name), 0)
  <2>1. PICK name \in Basic \cup {"accounthash"} : s = Phrase(<<name>>, Named(name), 0)
    BY <1>1
  <2>2. Understood(s, k)
    BY <2>1, NamesUnderstood
  <2>3. s.nesting = 0
    BY <2>1 DEF Phrase
  <2> QED
    BY <2>2, <2>3, TypeAssumption DEF Shallow
<1>2. CASE k = TRUE /\ s = Phrase(<<"(", ")">>, Named("unit"), 0)
  <2>1. Understood(s, k)
    BY <1>2, UnitUnderstood
  <2>2. s.nesting = 0
    BY <1>2 DEF Phrase
  <2> QED
    BY <2>1, <2>2, TypeAssumption DEF Shallow
<1>3. CASE \E b \in {"<", "["}, n \in DOMAIN Number :
             s = Phrase(<<"bytearray", b, n, Closing[b]>>, ByteArray(Number[n]), 0)
  <2>1. PICK b \in {"<", "["}, n \in DOMAIN Number :
               s = Phrase(<<"bytearray", b, n, Closing[b]>>, ByteArray(Number[n]), 0)
    BY <1>3
  <2>2. Understood(s, k)
    BY <2>1, ByteArrayUnderstood
  <2>3. s.nesting = 0
    BY <2>1 DEF Phrase
  <2> QED
    BY <2>2, <2>3, TypeAssumption DEF Shallow
<1> QED
  BY <1>1, <1>2, <1>3

LEMMA PhrasesFromUnderstood ==
  ASSUME NEW k, NEW F, NEW n \in Nat, \A i \in 0..(n - 1) : AllUnderstood(F[i], k),
         n = 2 => k = TRUE, NEW s \in PhrasesFrom(F, n)
  PROVE  Understood(s, k) /\ Shallow(s)
<1>1. ASSUME NEW g \in Generic, NEW j \in {n - 3, n - 2}, NEW l \in Separated(F, Arity(g), j)
      PROVE  Understands(l, k, Arity(g))
  <2>1. Arity(g) \in 1..3 /\ j \in Int /\ j < n
    BY DEF Arity
  <2> QED
    BY <1>1, <2>1, ListsUnderstood
<1>2. CASE n \in 0..2
  <2>1. \/ \E name \in Basic \cup {"accounthash"} : s = Phrase(<<name>>, Named(name), 0)
        \/ k = TRUE /\ s = Phrase(<<"(", ")">>, Named("unit"), 0)
    BY <1>2 DEF PhrasesFrom
  <2> QED
    BY <2>1, SimpleUnderstood
<1>3. CASE n \notin 0..2
  <2>1. \/ s \in ByteArrays(n) \/ s \in Generics(F, n)
        \/ s \in Tuples(F, n) \/ s \in TuplesWithComma(F, n)
    BY <1>3 DEF PhrasesFrom
  <2>2. CASE s \in ByteArrays(n)
    <3>1. \E b \in {"<", "["}, m \in DOMAIN Number :
             s = Phrase(<<"bytearray", b, m, Closing[b]>>, ByteArray(Number[m]), 0)
      BY <2>2 DEF ByteArrays
    <3> QED
      BY <3>1, SimpleUnderstood
  <2>3. CASE s \in Generics(F, n)
    <3>1. PICK g \in Generic : s \in Applied(g, <<g, "<">>, Separated(F, Arity(g), n - 3), <<">">>)
      BY <2>3 DEF Generics
    <3> QED
      BY <1>1, <3>1, AppliedUnderstood
  <2>4. CASE s \in Tuples(F, n)
    <3>1. PICK g \in {"tuple2", "tuple3"} :
            s \in Applied(g, <<"(">>, Separated(F, Arity(g), n - 2), <<")">>)
      BY <2>4 DEF Tuples
    <3>2. g \in Generic /\ g \in {"tuple1", "tuple2", "tuple3"} /\ g # "tuple1"
      BY DEF Generic
    <3> QED
      BY <1>1, <3>1, <3>2, AppliedUnderstood
  <2>5. CASE s \in TuplesWithComma(F, n)
    <3>1. PICK g \in {"tuple1", "tuple2", "tuple3"} :
            s \in Applied(g, <<"(">>, Separated(F, Arity(g), n - 3), CommaAndClose)
      BY <2>5, CommaBeforeClose
    <3>2. g \in Generic
      BY DEF Generic
    <3> QED
      BY <1>1, <3>1, <3>2, AppliedUnderstood
  <2> QED
    BY <2>1, <2>2, <2>3, <2>4, <2>5
<1> QED
  BY <1>2, <1>3

LEMMA AllPhrasesUnderstood ==
  ASSUME NEW k, NEW F, \A n \in 0..MaxTokens : F[n] \subseteq PhrasesFrom(F, n),
         k = TRUE \/ (2 <= MaxTokens => F[2] = {})
  PROVE  \A n \in 0..MaxTokens : \A s \in F[n] : Understood(s, k) /\ Shallow(s)
<1> DEFINE S == {m \in Nat : \A i \in 0..m : i <= MaxTokens => AllUnderstood(F[i], k)}
<1>1. ASSUME NEW n \in 0..MaxTokens, \A i \in 0..(n - 1) : AllUnderstood(F[i], k)
      PROVE  \A s \in F[n] : Understood(s, k) /\ Shallow(s)
  <2> SUFFICES ASSUME NEW s \in F[n]
               PROVE  Understood(s, k) /\ Shallow(s)
    OBVIOUS
  <2>1. n \in Nat /\ s \in PhrasesFrom(F, n) /\ (n = 2 => k = TRUE)
    OBVIOUS
  <2> QED
    BY <1>1, <2>1, PhrasesFromUnderstood
<1>2. 0 \in S
  <2>1. 0 \in 0..MaxTokens /\ \A i \in 0..(0 - 1) : AllUnderstood(F[i], k)
    BY TypeAssumption
  <2>2. AllUnderstood(F[0], k)
    BY <1>1, <2>1 DEF AllUnderstood
  <2>3. \A i \in 0..0 : i = 0
    OBVIOUS
  <2> QED
    BY <2>2, <2>3
<1>3. ASSUME NEW m \in Nat, m \in S
      PROVE  m + 1 \in S
  <2>1. ASSUME m + 1 <= MaxTokens
        PROVE  AllUnderstood(F[m + 1], k)
    <3>1. m + 1 \in 0..MaxTokens /\ \A i \in 0..((m + 1) - 1) : AllUnderstood(F[i], k)
      BY <1>3, <2>1, TypeAssumption
    <3> QED
      BY <1>1, <3>1 DEF AllUnderstood
  <2>2. \A i \in 0..(m + 1) : i \in 0..m \/ i = m + 1
    OBVIOUS
  <2> QED
    BY <1>3, <2>1, <2>2
<1> HIDE DEF S
<1>4. \A m \in Nat : m \in S
  BY <1>2, <1>3, AllNumbers
<1>5. ASSUME NEW n \in 0..MaxTokens
      PROVE  \A s \in F[n] : Understood(s, k) /\ Shallow(s)
  <2>1. n \in S
    BY <1>4
  <2>2. \A i \in 0..(n - 1) : AllUnderstood(F[i], k)
    BY <2>1, TypeAssumption DEF S
  <2> QED
    BY <1>1, <2>2
<1> QED
  BY <1>5

-----------------------------------------------------------------------------
(***************************************************************************)
(* The parser reads each phrase as the type that it stands for.            *)
(***************************************************************************)

Start == Reading(<<>>, <<Frame("root")>>)

Finish(s) == Reading(s.text, WithType(<<Frame("root")>>, s.type))

Accepted(s) == At(s.text, WithType(<<Frame("root")>>, s.type), "none", "accepted")

Way(P, s, k) == s.text \in Seq(Token) /\ Start \in P /\ OnWay(P, s.text, k, Finish(s))

\* While the text begins like a phrase, the parser is on the way to its type.
WayInv ==
  /\ text \in Seq(Token)
  /\ \A s, k, P : Way(P, s, k) /\ Begins(text, s.text) => Now \in P \cup {Accepted(s)}

LEMMA RootFrames ==
  ASSUME NEW t
  PROVE  /\ WithType(<<Frame("root")>>, t) = <<Filled("root", <<t>>, FALSE, FALSE)>>
         /\ Row(<<Frame("root")>>) /\ Len(<<Frame("root")>>) = 1
         /\ Last(<<Frame("root")>>).expecting
<1> DEFINE f == Filled("root", <<>>, TRUE, FALSE)
           g == Filled("root", <<t>>, FALSE, FALSE)
<1>1. Frame("root") = f /\ f.expecting
  BY NewFrame DEF Filled
<1>2. Row(<<>>)
  <2>1. <<>> \in Seq({})
    OBVIOUS
  <2> QED
    BY <2>1 DEF Row
<1>3. TypeReadOnTop(<<>>, "root", <<>>, TRUE, FALSE, t)
  BY <1>2, TypeOnTop
<1>4. Append(<<>>, t) = <<t>>
  OBVIOUS
<1>5. WithType(Append(<<>>, f), t) = Append(<<>>, g)
  BY <1>3, <1>4, Zenon DEF TypeReadOnTop
<1> HIDE DEF f, g
<1>6. Append(<<>>, f) = <<f>> /\ Append(<<>>, g) = <<g>>
  OBVIOUS
<1>7. Row(<<f>>) /\ Last(<<f>>) = f
  <2>1. <<f>> \in Seq({f})
    OBVIOUS
  <2> QED
    BY <2>1 DEF Row, Last
<1>8. Len(<<f>>) = 1
  OBVIOUS
<1> QED
  BY <1>1, <1>5, <1>6, <1>7, <1>8 DEF g

LEMMA UnderstoodWay ==
  ASSUME NEW k, NEW s, Understood(s, k), Shallow(s)
  PROVE  \E P : Way(P, s, k)
<1> DEFINE w  == s.text
           fs == <<Frame("root")>>
<1>1. w \in Seq(Token)
  BY DEF Understood, Proper
<1>2. Row(fs) /\ Len(fs) = 1 /\ Last(fs).expecting
  BY RootFrames
<1> HIDE DEF w, fs
<1>3. Awaited(fs, s.nesting)
  <2>1. Len(fs) + s.nesting <= MaxNesting + 1
    BY <1>2, TypeAssumption DEF Shallow
  <2> QED
    BY <1>2, <2>1 DEF Awaited
<1>4. <<>> \o w = w /\ Begins(w, w) /\ <<>> \in Seq(Token)
  BY <1>1 DEF Begins
<1>5. Leads(w, k, Reading(<<>>, fs), Reading(<<>> \o s.text, WithType(fs, s.type)))
  <2>1. Begins(<<>> \o s.text, w)
    BY <1>4 DEF w
  <2> QED
    BY <1>1, <1>3, <1>4, <2>1 DEF Understood
<1>6. Leads(w, k, Start, Finish(s))
  BY <1>4, <1>5 DEF Start, Finish, w, fs
<1> QED
  BY <1>1, <1>6 DEF Leads, Way, w

LEMMA WayStep ==
  ASSUME WayInv, TypeNext
  PROVE  WayInv'
<1>1. Moves(Now, Now')
  BY NextMoves
<1>2. Now.text = text /\ Now'.text = text' /\ Now.status = status /\ status = "reading"
  <2>1. Now.text = text /\ Now'.text = text' /\ Now.status = status
    BY DEF Now, At
  <2> QED
    BY <1>1, <2>1 DEF Moves
<1>3. \/ EndTurn(Now, Now')
      \/ \E tokens \in Seq(Token) \ {<<>>} : text' = text \o tokens
  BY <1>1, <1>2 DEF Moves
<1>4. /\ text' \in Seq(Token)
      /\ \/ EndTurn(Now, Now') /\ text' = text
         \/ Len(text) < Len(text')
      /\ \A w \in Seq(Token) : Begins(text', w) => Begins(text, w)
  <2>1. CASE EndTurn(Now, Now')
    <3>1. text' = text
      BY <1>2, <2>1, Fields DEF EndTurn
    <3> QED
      BY <2>1, <3>1 DEF WayInv
  <2>2. CASE \E tokens \in Seq(Token) \ {<<>>} : text' = text \o tokens
    <3>1. PICK tokens \in Seq(Token) \ {<<>>} : text' = text \o tokens
      BY <2>2
    <3>2. text \in Seq(Token)
      BY DEF WayInv
    <3>3. text' \in Seq(Token) /\ Len(text') = Len(text) + Len(tokens)
      BY <3>1, <3>2, ConcatProperties
    <3>4. Len(tokens) \in Nat /\ Len(tokens) # 0 /\ Len(text) \in Nat
      BY <3>2
    <3>5. Len(text) < Len(text')
      BY <3>3, <3>4
    <3>6. ASSUME NEW w \in Seq(Token), Begins(text', w)
          PROVE  Begins(text, w)
      BY <3>1, <3>2, <3>6, BeginsShorter
    <3> QED
      BY <3>3, <3>5, <3>6
  <2> QED
    BY <1>3, <2>1, <2>2
<1>5. ASSUME NEW s, NEW k, NEW P, Way(P, s, k), Begins(text', s.text)
      PROVE  Now' \in P \cup {Accepted(s)}
  <2>1. s.text \in Seq(Token) /\ Begins(text, s.text)
    BY <1>4, <1>5 DEF Way
  <2>2. Now \in P \cup {Accepted(s)}
    BY <1>5, <2>1 DEF WayInv
  <2>3. Now \in P
    <3>1. Accepted(s).status = "accepted"
      BY Fields DEF Accepted
    <3> QED
      BY <1>2, <2>2, <3>1
  <2>4. Now = Finish(s) \/ Behind(Now, Finish(s), s.text, P)
    BY <1>5, <2>3 DEF Way, OnWay
  <2>5. CASE Behind(Now, Finish(s), s.text, P)
    <3>1. Begins(Now'.text, s.text)
      BY <1>2, <1>5
    <3> QED
      BY <1>1, <2>5, <3>1 DEF Behind
  <2>6. CASE Now = Finish(s)
    <3> DEFINE fs == WithType(<<Frame("root")>>, s.type)
               f  == Filled("root", <<s.type>>, FALSE, FALSE)
    <3>1. /\ Finish(s).text = s.text /\ Finish(s).frames = fs /\ Finish(s).pending = "none"
      BY Fields DEF Finish, Reading
    <3>2. fs = <<f>> /\ ~f.expecting
      BY RootFrames DEF Filled
    <3> HIDE DEF fs, f
    <3>3. Len(fs) = 1 /\ Last(fs) = f
      BY <3>2 DEF Last
    <3>4. ~(Len(text) < Len(text'))
      <4>1. text = s.text
        BY <1>2, <2>6, <3>1
      <4> QED
        BY <1>4, <1>5, <2>1, <4>1 DEF Begins
    <3>5. EndTurn(Now, Now')
      BY <1>4, <3>4
    <3>6. Now' = At(s.text, fs, "none", "accepted")
      BY <2>6, <3>1, <3>2, <3>3, <3>5 DEF EndTurn
    <3> QED
      BY <3>6 DEF Accepted, fs
  <2> QED
    BY <2>4, <2>5, <2>6
<1> QED
  BY <1>4, <1>5 DEF WayInv

LEMMA WayInvariant == TypeSpec => []WayInv
<1>1. TypeInit => WayInv
  <2> SUFFICES ASSUME TypeInit
               PROVE  WayInv
    OBVIOUS
  <2>1. text = <<>> /\ Now = Start
    BY DEF TypeInit, Now, Start, Reading
  <2> QED
    BY <2>1 DEF WayInv, Way
<1>2. WayInv /\ [TypeNext]_typeVars => WayInv'
  <2> SUFFICES ASSUME WayInv, [TypeNext]_typeVars
               PROVE  WayInv'
    OBVIOUS
  <2>1. CASE TypeNext
    BY <2>1, WayStep
  <2>2. CASE UNCHANGED typeVars
    <3>1. text' = text /\ Now' = Now
      BY <2>2 DEF typeVars, Now
    <3> QED
      BY <3>1 DEF WayInv
  <2> QED
    BY <2>1, <2>2
<1> QED
  BY <1>1, <1>2, PTL DEF TypeSpec

\* What is so on the way to the type of a phrase.
LEMMA WayOutcome ==
  ASSUME WayInv, NEW s, NEW k, Understood(s, k), Shallow(s)
  PROVE  /\ Begins(text, s.text) /\ status = "rejected" => k
         /\ text = s.text => /\ status \notin {"rejected", "incomplete"}
                             /\ status = "accepted" => Parsed = s.type
<1>1. PICK P : Way(P, s, k)
  BY UnderstoodWay
<1> DEFINE fs == WithType(<<Frame("root")>>, s.type)
<1>2. /\ Finish(s).text = s.text /\ Finish(s).status = "reading"
      /\ Accepted(s).text = s.text /\ Accepted(s).status = "accepted" /\ Accepted(s).frames = fs
      /\ Now.text = text /\ Now.status = status /\ Now.frames = frames
  BY Fields DEF Finish, Reading, Accepted, Now
<1>3. ASSUME Begins(text, s.text)
      PROVE  Now \in P \/ Now = Accepted(s)
  BY <1>1, <1>3 DEF WayInv
<1>4. ASSUME Begins(text, s.text), status = "rejected"
      PROVE  k
  <2>1. Now \in P
    BY <1>2, <1>3, <1>4
  <2> QED
    BY <1>1, <1>2, <1>4, <2>1 DEF Way, OnWay
<1>5. ASSUME text = s.text
      PROVE  /\ status \notin {"rejected", "incomplete"}
             /\ status = "accepted" => Parsed = s.type
  <2>1. text \in Seq(Token) /\ Begins(text, s.text)
    BY <1>5 DEF WayInv, Begins
  <2>2. CASE Now \in P
    <3>1. Now = Finish(s) \/ Behind(Now, Finish(s), s.text, P)
      BY <1>1, <2>2 DEF Way, OnWay
    <3>2. ~Behind(Now, Finish(s), s.text, P)
      BY <1>2, <1>5, <2>1 DEF Behind
    <3> QED
      BY <1>2, <3>1, <3>2
  <2>3. CASE Now = Accepted(s)
    <3>1. status = "accepted" /\ frames = fs
      BY <1>2, <2>3
    <3>2. fs = <<Filled("root", <<s.type>>, FALSE, FALSE)>>
      BY RootFrames
    <3>3. Parsed = s.type
      <4> DEFINE f == Filled("root", <<s.type>>, FALSE, FALSE)
      <4>1. f.args = <<s.type>>
        BY DEF Filled
      <4> HIDE DEF f, fs
      <4>2. frames = <<f>>
        BY <3>1, <3>2 DEF f
      <4> QED
        BY <4>1, <4>2 DEF Parsed
    <3> QED
      BY <3>1, <3>3
  <2> QED
    BY <1>3, <2>1, <2>2, <2>3
<1> QED
  BY <1>4, <1>5

\* cl_type.rs: the accepted syntax.  A text of it that has been read to its end
\* is neither rejected nor found to be incomplete, and what it is read as is the
\* type that the syntax says; no text of it can be read in two ways.
PhrasesRead ==
  \A n \in 0..MaxTokens : \A s \in Phrases[n] :
    text = s.text => /\ status \notin {"rejected", "incomplete"}
                     /\ status = "accepted" => Parsed = s.type

\* Together with AcceptedIsPhrase: the parser accepts the syntax and nothing else.
THEOREM PhraseIsAccepted == TypeSpec => []PhrasesRead
<1>1. \A n \in 0..MaxTokens : \A s \in Phrases[n] : Understood(s, TRUE) /\ Shallow(s)
  <2>1. \A n \in 0..MaxTokens : Phrases[n] \subseteq PhrasesFrom(Phrases, n)
    BY PhrasesDefined, Zenon
  <2> QED
    BY <2>1, AllPhrasesUnderstood
<1>2. WayInv => PhrasesRead
  <2> SUFFICES ASSUME WayInv, NEW n \in 0..MaxTokens, NEW s \in Phrases[n], text = s.text
               PROVE  /\ status \notin {"rejected", "incomplete"}
                      /\ status = "accepted" => Parsed = s.type
    BY DEF PhrasesRead
  <2>1. Understood(s, TRUE) /\ Shallow(s)
    BY <1>1
  <2> QED
    BY <2>1, WayOutcome
<1> QED
  BY <1>2, WayInvariant, PTL

-----------------------------------------------------------------------------
(***************************************************************************)
(* What cl_type_to_string prints is a phrase without a unit type in        *)
(* brackets.                                                               *)
(***************************************************************************)

LEMMA ShorterCanonical ==
  ASSUME NEW n \in Nat, NEW f, NEW g, \A i \in Nat : i < n => f[i] = g[i]
  PROVE  CanonicalFrom(f, n) = CanonicalFrom(g, n)
<1>1. ASSUME n \notin 0..2, NEW k
      PROVE  /\ Separated(f, k, n - 3) = Separated(g, k, n - 3)
             /\ Separated(f, k, n - 2) = Separated(g, k, n - 2)
  BY <1>1, ShorterLists
<1>2. CASE n \in 0..2
  BY <1>2 DEF CanonicalFrom
<1>3. CASE n \notin 0..2
  <2>1. PrintedOneTuples(f, n) = PrintedOneTuples(g, n)
    BY <1>1, <1>3, Zenon DEF PrintedOneTuples
  <2>2. Tuples(f, n) = Tuples(g, n)
    BY <1>1, <1>3, Zenon DEF Tuples
  <2>3. PrintedGenerics(f, n) = PrintedGenerics(g, n)
    BY <1>1, <1>3, Zenon DEF PrintedGenerics
  <2> QED
    BY <1>3, <2>1, <2>2, <2>3 DEF CanonicalFrom
<1> QED
  BY <1>2, <1>3

LEMMA CanonicalExist ==
  \A m \in Nat : \E f : f = [n \in 0..m |-> CanonicalFrom(f, n)]
<1> DEFINE S == {m \in Nat : \E f : f = [n \in 0..m |-> CanonicalFrom(f, n)]}
<1>1. 0 \in S
  <2> DEFINE f == [n \in 0..0 |-> {}]
  <2>1. \A n \in 0..0 : f[n] = CanonicalFrom(f, n)
    BY DEF CanonicalFrom
  <2>2. f = [n \in 0..0 |-> CanonicalFrom(f, n)]
    BY <2>1
  <2> QED
    BY <2>2
<1>2. ASSUME NEW m \in Nat, m \in S
      PROVE  m + 1 \in S
  <2>1. PICK f : f = [n \in 0..m |-> CanonicalFrom(f, n)]
    BY <1>2
  <2> DEFINE g == [n \in 0..(m + 1) |-> CanonicalFrom(f, n)]
  <2>2. \A i \in Nat : i < m + 1 => f[i] = g[i]
    BY <2>1
  <2> HIDE DEF g
  <2>3. ASSUME NEW n \in 0..(m + 1)
        PROVE  CanonicalFrom(f, n) = CanonicalFrom(g, n)
    <3>1. n \in Nat /\ \A i \in Nat : i < n => f[i] = g[i]
      BY <2>2
    <3> QED
      BY <3>1, ShorterCanonical
  <2>4. g = [n \in 0..(m + 1) |-> CanonicalFrom(g, n)]
    BY <2>3, Zenon DEF g
  <2> QED
    BY <2>4
<1> HIDE DEF S
<1>3. \A m \in Nat : m \in S
  BY <1>1, <1>2, AllNumbers
<1> QED
  BY <1>3 DEF S

LEMMA CanonicalDefined ==
  \A n \in 0..MaxTokens : Canonical[n] = CanonicalFrom(Canonical, n)
<1>1. \E f : f = [n \in 0..MaxTokens |-> CanonicalFrom(f, n)]
  BY CanonicalExist, TypeAssumption
<1>2. Canonical = [n \in 0..MaxTokens |-> CanonicalFrom(Canonical, n)]
  BY <1>1, Zenon DEF Canonical
<1> QED
  BY <1>2

LEMMA CanonicalPhrases ==
  ASSUME NEW F, NEW n \in Nat
  PROVE  /\ CanonicalFrom(F, n) \subseteq PhrasesFrom(F, n)
         /\ n = 2 => CanonicalFrom(F, n) = {}
<1>1. CASE n \in 0..2
  <2>1. CASE n = 1
    <3>1. /\ CanonicalFrom(F, n) = {Phrase(<<name>>, Named(name), 0) : name \in Basic}
          /\ PhrasesFrom(F, n) =
               {Phrase(<<name>>, Named(name), 0) : name \in Basic \cup {"accounthash"}}
      BY <2>1 DEF CanonicalFrom, PhrasesFrom
    <3>2. ASSUME NEW s \in CanonicalFrom(F, n)
          PROVE  s \in PhrasesFrom(F, n)
      <4>1. PICK name \in Basic : s = Phrase(<<name>>, Named(name), 0)
        BY <3>1
      <4>2. name \in Basic \cup {"accounthash"}
        OBVIOUS
      <4> QED
        BY <3>1, <4>1, <4>2, Zenon
    <3> QED
      BY <2>1, <3>2
  <2>2. CASE n \in {0, 2}
    <3>1. CanonicalFrom(F, n) = {}
      BY <2>2 DEF CanonicalFrom
    <3> QED
      BY <3>1
  <2> QED
    BY <1>1, <2>1, <2>2
<1>2. CASE n \notin 0..2
  <2>1. /\ PhrasesFrom(F, n) = ByteArrays(n) \cup Generics(F, n) \cup Tuples(F, n)
                                  \cup TuplesWithComma(F, n)
        /\ CanonicalFrom(F, n) = PrintedByteArrays(n) \cup PrintedGenerics(F, n)
                                    \cup PrintedOneTuples(F, n) \cup Tuples(F, n)
    BY <1>2 DEF PhrasesFrom, CanonicalFrom
  <2>2. PrintedByteArrays(n) \subseteq ByteArrays(n)
    <3> SUFFICES ASSUME NEW length \in Range(Number), n = 4
                 PROVE  Phrase(<<"bytearray", "[", Decimal(length), "]">>, ByteArray(length), 0)
                          \in ByteArrays(n)
      BY DEF PrintedByteArrays
    <3>1. \E m \in DOMAIN Number : Number[m] = length
      BY DEF Range
    <3> DEFINE m == Decimal(length)
    <3>2. m \in DOMAIN Number /\ Number[m] = length
      BY <3>1, Zenon DEF Decimal
    <3> HIDE DEF m
    <3>3. "]" = Closing["["] /\ "[" \in {"<", "["}
      BY DEF Closing
    <3>4. Phrase(<<"bytearray", "[", m, "]">>, ByteArray(length), 0) \in ByteArrays(n)
      BY <3>2, <3>3 DEF ByteArrays
    <3> QED
      BY <3>4 DEF m
  <2>3. PrintedGenerics(F, n) \subseteq Generics(F, n)
    BY DEF Generics, Generic, PrintedGenerics
  <2>4. PrintedOneTuples(F, n) \subseteq TuplesWithComma(F, n)
    <3>1. Arity("tuple1") = 1
      BY DEF Arity
    <3> QED
      BY <3>1, CommaBeforeClose
  <2> QED
    BY <1>2, <2>1, <2>2, <2>3, <2>4
<1> QED
  BY <1>1, <1>2

THEOREM TypesReadBack == TypeSpec => []RoundTrip
<1>1. \A n \in 0..MaxTokens : \A s \in Canonical[n] : Understood(s, FALSE) /\ Shallow(s)
  <2>1. \A n \in 0..MaxTokens : Canonical[n] \subseteq PhrasesFrom(Canonical, n)
    BY CanonicalDefined, CanonicalPhrases
  <2>2. 2 <= MaxTokens => Canonical[2] = {}
    BY CanonicalDefined, CanonicalPhrases
  <2> QED
    BY <2>1, <2>2, AllPhrasesUnderstood
<1>2. WayInv => RoundTrip
  <2> SUFFICES ASSUME WayInv
               PROVE  RoundTrip
    OBVIOUS
  <2>1. ASSUME NEW w \in CanonicalTexts
        PROVE  \E n \in 0..MaxTokens : \E s \in Canonical[n] :
                 w = s.text /\ <<s.text, s.type>> \in CanonicalTypes
    BY <2>1 DEF CanonicalTexts, CanonicalTypes
  <2>2. ASSUME status = "rejected", text \in CanonicalBeginnings
        PROVE  FALSE
    <3>1. PICK w \in CanonicalTexts : \E n \in 0..Len(w) : text = SubSeq(w, 1, n)
      BY <2>2 DEF CanonicalBeginnings
    <3>2. PICK i \in 0..MaxTokens : \E s \in Canonical[i] : w = s.text
      BY <2>1, <3>1
    <3>3. PICK s \in Canonical[i] : w = s.text
      BY <3>2
    <3>7. Understood(s, FALSE) /\ Shallow(s)
      BY <1>1
    <3>4. w \in Seq(Token)
      BY <3>3, <3>7 DEF Understood, Proper
    <3>5. PICK n \in 0..Len(w) : text = SubSeq(w, 1, n)
      BY <3>1
    <3>6. Begins(text, w)
      BY <3>4, <3>5 DEF Begins
    <3> QED
      BY <2>2, <3>3, <3>6, <3>7, WayOutcome
  <2>3. ASSUME text \in CanonicalTexts
        PROVE  /\ status # "incomplete"
               /\ status = "accepted" => <<text, Parsed>> \in CanonicalTypes
    <3>4. PICK i \in 0..MaxTokens : \E s \in Canonical[i] :
            text = s.text /\ <<s.text, s.type>> \in CanonicalTypes
      BY <2>1, <2>3
    <3>1. PICK s \in Canonical[i] : text = s.text /\ <<s.text, s.type>> \in CanonicalTypes
      BY <3>4
    <3>2. Understood(s, FALSE) /\ Shallow(s)
      BY <1>1
    <3>3. /\ status \notin {"rejected", "incomplete"}
          /\ status = "accepted" => Parsed = s.type
      BY <3>1, <3>2, WayOutcome
    <3> QED
      BY <3>1, <3>3
  <2> QED
    BY <2>2, <2>3 DEF RoundTrip
<1> QED
  BY <1>2, WayInvariant, PTL
=============================================================================

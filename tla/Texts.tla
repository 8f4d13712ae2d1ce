--------------------------------- MODULE Texts ---------------------------------
(***************************************************************************)
(* What the commands do with the texts they are given, before anything     *)
(* else: trim them, and split them once.  A text is a sequence of tokens.  *)
(***************************************************************************)
EXTENDS Naturals, Sequences, SequencesExt

\* The first place of a token, 0 if there is none.
Position(word, token) == SelectInSeq(word, LAMBDA t : t = token)

\* The halves that str::split_once makes.
Before(word, i) == SubSeq(word, 1, i - 1)
After(word, i)  == SubSeq(word, i + 1, Len(word))

\* str::trim.
Trimmed(word) ==
  LET first == SelectInSeq(word, LAMBDA t : t # " ")
      last  == SelectLastInSeq(word, LAMBDA t : t # " ")
  IN IF first = 0 THEN <<>> ELSE SubSeq(word, first, last)
===============================================================================

------------------------------- MODULE Argument -------------------------------
(***************************************************************************)
(* An argument of a contract call, name:type=value: the parser of the type *)
(* and then that of the value.  A type that is not given is Any.           *)
(***************************************************************************)
EXTENDS ClValue

vars == <<typeVars, valueVars>>

Init == TypeInit /\ ValueInit

ParseType == TypeNext /\ UNCHANGED valueVars

ParseValue ==
  /\ status = "accepted"
  /\ \/ verdict = "none" /\ (GiveText(Parsed) \/ GiveHex(Parsed))
     \/ CheckNext \/ CheckEnd
  /\ UNCHANGED typeVars

Next == ParseType \/ ParseValue

\* Whoever gives the argument may stop; the program goes on with what it has.
Spec == Init /\ [][Next]_vars /\ WF_vars((CheckNext \/ CheckEnd) /\ UNCHANGED typeVars)

-----------------------------------------------------------------------------
(***************************************************************************)
(* Properties.                                                             *)
(***************************************************************************)

\* The two walks over the bytes of a value agree: what the parser takes, with its
\* stack, the printer can print, by recursion, to the last byte; what it
\* refuses the printer cannot print.
CheckersAgree ==
  /\ verdict = "valid" => Printable(type)
  /\ verdict = "invalid" => ~Printable(type)

\* The validator comes to an end on every input.
CheckEnds == verdict = "checking" ~> verdict # "checking"
===============================================================================

------------------------------ MODULE ArgumentMC ------------------------------
(***************************************************************************)
(* An instance of Argument for TLC.                                        *)
(***************************************************************************)
EXTENDS Argument, TLC

MCBasic == {"bool", "unit", "string", "any"}

MCNumber == ("0" :> 0) @@ ("2" :> 2)

\* true and false, nothing, the strings of up to two bytes, of which one is no
\* text, and anything.
MCEncoding ==
  [b \in MCBasic |->
     CASE b = "bool" -> {<<0>>, <<1>>}
       [] b = "unit" -> {<<>>}
       [] b = "string" -> {<<0>>, <<1, 0>>, <<1, 1>>, <<2, 0, 0>>, <<2, 0, 1>>}
       [] OTHER -> {}]
===============================================================================

------------------------------ MODULE CommandLine ------------------------------
(***************************************************************************)
(* The texts that commands take from the command line: the type and the    *)
(* value of an argument, the line it is a part of, a number, and a         *)
(* reference to an account, in whatever directory of wallets.  One of them *)
(* is given; the others stay as they are.                                  *)
(***************************************************************************)
EXTENDS Argument, ArgumentText, Numbers, References

VARIABLE given \* which of them

cliVars == <<given, vars, line, typed, refVars>>

CliInit ==
  /\ given \in {"argument", "line", "number", "reference"}
  /\ Init /\ LineInit /\ NumberInit /\ RefInit

CliNext ==
  \/ given = "argument"  /\ Next       /\ UNCHANGED <<given, line, typed, refVars>>
  \/ given = "line"      /\ LineNext   /\ UNCHANGED <<given, vars, typed, refVars>>
  \/ given = "number"    /\ NumberNext /\ UNCHANGED <<given, vars, line, refVars>>
  \/ given = "reference" /\ RefNext    /\ UNCHANGED <<given, vars, line, typed>>

\* As in Argument, the validator goes on by itself.
CliSpec ==
  /\ CliInit /\ [][CliNext]_cliVars
  /\ WF_cliVars((CheckNext \/ CheckEnd) /\ UNCHANGED <<given, typeVars, line, typed, refVars>>)
===============================================================================

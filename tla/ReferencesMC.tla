----------------------------- MODULE ReferencesMC -----------------------------
(***************************************************************************)
(* Instances of References for TLC: a wallet with a plain name, one named  *)
(* like a key in hexadecimal and one with a colon in its name.             *)
(***************************************************************************)
EXTENDS References

CONSTANTS r1, r2, l1

MCLetter == {"w", "a"}

MCHexKey    == "x" :> <<r1, 1>>
MCHexHash   == "h" :> <<r2, 1>>
MCFormatted == "f" :> <<l1, 0>>

MCWalletName == {<<"w">>, <<"x">>, <<"w", ":", "a">>}

\* The second makes w:a:w a reference both to account a:w of w and to account w
\* of w:a, were the colon not the first one.
MCAccountName == {<<"a">>, <<"a", ":", "w">>}
===============================================================================

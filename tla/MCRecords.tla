----------------------------- MODULE MCRecords -----------------------------
(* Model-checking instance of Records: lists of up to three records, tables  *)
(* of two slots, and arrays of one character.                                *)
EXTENDS Records, TLC

CONSTANTS t1, t2, t3, d1, d2, c1, x

MCTxn == {t1, t2, t3}
MCDlg == {d1, d2}
MCCall == {c1}
\* One branch that fits, and two that are cut to the same text
MCNames == MCTxn :> {<<"a">>, <<"a", "b">>, <<"a", "c">>} @@ MCDlg :> {<<"a">>} @@ MCCall :> {<<"a">>}
MCToTags == {x}

Symmetry == Permutations(MCTxn) \cup Permutations(MCDlg)
=============================================================================

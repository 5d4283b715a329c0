----------------------------- MODULE MCIngestTxn ------------------------------
(* Small instances of IngestTxn for TLC. *)
EXTENDS IngestTxn, TLC

CONSTANTS put1, put2, file1, file2, delete1, purge1, patch1, A, B, Empty

None == {}
OnePut == {put1}
TwoPuts == {put1, put2}
OneFile == {file1}
TwoFiles == {file1, file2}
OneDelete == {delete1}
OnePurge == {purge1}
OnePatch == {patch1}
MCTexts == {A, B, Empty}
MCBlanks == {Empty}

AllTexts == put1 :> A @@ put2 :> B @@ file1 :> B @@ file2 :> Empty
MCTextOf == [p \in Ingests |-> AllTexts[p]]
\* The same text again and again, but for a blank one.
OneBlankTextOf == [p \in Ingests |-> IF p = file1 THEN Empty ELSE A]
===============================================================================

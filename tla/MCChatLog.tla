------------------------------- MODULE MCChatLog -------------------------------
(* A small instance of ChatLog for TLC: one session, one turn after the other. *)
EXTENDS ChatLog

CONSTANTS t1, t2, t3, s1

ThreeTurns == {t1, t2, t3}
NoTurns == {}
MCLimit == <<3>>
MCSessions == {s1}
OneSession == [t \in ThreeTurns |-> s1]
===============================================================================

------------------------------- MODULE MCChatTurn -------------------------------
(* ChatTurn for TLC: a turn that streams and one that does not. Languages are  *)
(* alike.                                                                      *)
EXTENDS ChatTurn, TLC

CONSTANTS t1, t2, q1, bn, ar

Pair == {t1, t2}
OneStream == {t1}
OneQuery == {q1}
TwoLanguages == {bn, ar}
LanguagesAlike == Permutations(TwoLanguages)
=============================================================================

------------------------------ MODULE EngineMC ------------------------------
(***************************************************************************)
(* Small instances of Engine for TLC.                                      *)
(***************************************************************************)
EXTENDS Engine, TLC

CONSTANTS a, b, t1, t2, r1, r2, r3, p1, p2, p3, p4

MCTokens   == {a, b}
MCThreads  == {t1, t2}
MCRequests == {r1, r2, r3}
MCTwoRequests == {r1, r2}
MCPages    == {p1, p2, p3, p4}
MCTwoPages == {p1, p2}
MCPrompts  == {<<a>>, <<a, b>>}
MCHash     == [p \in MCPrompts |-> p]

\* Two prompts that share no prefix.
MCTwoPrompts == {<<a>>, <<b>>}
MCTwoHash    == [p \in MCTwoPrompts |-> p]
=============================================================================

--------------------------- MODULE PromptCacheMC ---------------------------
(***************************************************************************)
(* Small instances of PromptCache for TLC.                                 *)
(***************************************************************************)
EXTENDS PromptCache, TLC

CONSTANTS a, b, r1, r2, r3, p1, p2, p3, p4, p5

MCTokens   == {a, b}
MCRequests == {r1, r2, r3}
MCPages    == {p1, p2, p3, p4, p5}

\* Two chains of prefixes, so that a request can borrow, borrow the longer of
\* two, or find nothing; nothing is a prefix of <<a>> or <<b, a>>.
MCPrompts == {<<a>>, <<a, a>>, <<a, a, b>>, <<a, a, b, b>>, <<b, a>>}

\* Every prompt hashes to itself.
MCInjectiveHash == [p \in MCPrompts |-> p]

MCSymmetry == Permutations(MCRequests) \cup Permutations(MCPages)
=============================================================================

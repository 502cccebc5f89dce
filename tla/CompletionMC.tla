---------------------------- MODULE CompletionMC ----------------------------
(***************************************************************************)
(* Small instances of Completion for TLC.                                  *)
(***************************************************************************)
EXTENDS Completion

CONSTANTS a, b, open, close, space

MCChars == {a, b, open, close, space}

\* A token is its raw text: of one character and of several, with every way two stop
\* sequences can begin in one token and end in, or before the end of, another.  Of the
\* two tokens that end the sequence one is special and has no text.
MCTokenIds == {<<a>>, <<b>>, <<a, b>>, <<b, a, a>>, <<open>>, <<close>>, <<space, a, space>>,
               << >>, <<space, space>>}
MCEosTokenIds == {<< >>, <<space, space>>}

\* As the decoders of the SentencePiece family: a space at the beginning is stripped.
MCDecode(ids) ==
    LET raw == FlattenSeq(ids)
    IN  IF raw # << >> /\ Head(raw) = space THEN Tail(raw) ELSE raw

\* No stop sequences, the empty one, a tag, one alone, and three that overlap, of
\* which one is the end of another.
MCStopChoices == {{}, {<< >>}, {<<close>>}, {<<a, b>>}, {<<b, a, b>>, <<a, b>>, <<a, a>>}}

\* What parses as a call.
MCCalls == {<<a>>, <<b, a, a>>}
=============================================================================

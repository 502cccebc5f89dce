----------------------------- MODULE StopWindow -----------------------------
(***************************************************************************)
(* The text of a generation and where it stops: check_termination, the     *)
(* stop-sequence helpers and the fragments of a stream                     *)
(* (crates/mlx-engine/src/simple.rs).                                      *)
(*                                                                         *)
(* A string is a sequence of characters.  The code counts bytes, but every *)
(* length it cuts at is the length of a prefix or a suffix of the text it  *)
(* cuts, so that no cut falls inside a character and characters can be     *)
(* counted instead.  What the tokenizer makes of a sequence of token ids   *)
(* is open: a sequence need not decode to what its tokens decode to one by *)
(* one (leading spaces are stripped, characters are split over tokens),    *)
(* and an end-of-sequence token may decode to text or, if it is a special  *)
(* token, to nothing.                                                      *)
(***************************************************************************)
EXTENDS Integers, Sequences, SequencesExt, FiniteSetsExt

CONSTANTS
    Chars,
    TokenIds,       \* tokens the model may sample
    EosTokenIds,      \* eos_token_ids
    Decode(_),      \* decode_tokens: the text of a sequence of ids
    StopChoices,    \* sets of stop sequences a request may come with
    MaxTokens       \* max_tokens

ASSUME StopAssumption ==
    /\ MaxTokens \in Nat \ {0}
    /\ EosTokenIds \subseteq TokenIds
    /\ \A n \in 1..MaxTokens : \A ids \in [1..n -> TokenIds] : Decode(ids) \in Seq(Chars)
    /\ \A stops \in StopChoices :
          /\ stops \subseteq Seq(Chars)
          /\ stops # {} => \E longest \in stops : \A seq \in stops : Len(seq) <= Len(longest)

VARIABLES
    stop_sequences,
    generated_text,
    stop_window,
    tokens,             \* ids generated
    condition,          \* FinishCondition: "None", "Eos", "StopSequence", "MaxTokens"
    text,               \* what generate_with_sampling returns if it ends here
    sent                \* the fragments a stream has sent, in one string

stopVars == <<stop_sequences, generated_text, stop_window, tokens, condition, text, sent>>

StopInit ==
    /\ stop_sequences \in StopChoices
    /\ generated_text = << >>
    /\ stop_window = << >>
    /\ tokens = << >>
    /\ condition = "None"
    /\ text = << >>
    /\ sent = << >>

\* Where seq begins in s.
Occurrences(seq, s) ==
    {pos \in 0..(Len(s) - Len(seq)) : SubSeq(s, pos + 1, pos + Len(seq)) = seq}
Matches(s, stops) == UNION {Occurrences(seq, s) : seq \in stops}

\* Mutant: the first sequence of the list that occurs decides, wherever it is.
CutAtLast(s, stops) == Max(Matches(s, stops))

\* check_stop_sequences, given that some sequence occurs: the earliest wins.
CutAt(s, stops) == Min(Matches(s, stops))

max_stop_sequence_chars(stops) == IF stops = {} THEN 0 ELSE Max({Len(seq) : seq \in stops})

\* Mutant: keeps one character too few.
ShortWindow(window, token_text, max_chars) ==
    IF max_chars = 0 THEN window
    ELSE LET all == window \o token_text
         IN  SubSeq(all, Len(all) - max_chars + 2, Len(all))

\* The last max_chars characters of what was there and what came.
append_stop_window(window, token_text, max_chars) ==
    IF max_chars = 0 \/ token_text = << >> THEN window
    ELSE LET all == window \o token_text
             trim == IF Len(all) > max_chars THEN Len(all) - max_chars ELSE 0
         IN  SubSeq(all, trim + 1, Len(all))

\* truncate_text_for_stop_window: cut as much off the text as off the window.
Truncated(whole, window, stops) ==
    SubSeq(whole, 1, Len(whole) - (Len(window) - CutAt(window, stops)))

\* Mutant: the token limit is looked at before the stop sequences.
LimitFirst(eos, len, window, stops) ==
    IF eos THEN "Eos"
    ELSE IF len >= MaxTokens THEN "MaxTokens"
    ELSE IF Matches(window, stops) # {} THEN "StopSequence"
    ELSE "None"

check_termination(eos, len, window, stops) ==
    IF eos THEN "Eos"
    ELSE IF Matches(window, stops) # {} THEN "StopSequence"
    ELSE IF len >= MaxTokens THEN "MaxTokens"
    ELSE "None"

\* Mutant: sends the whole text again.
ResendAll(whole, emitted) == whole

\* get(emitted_len..) or nothing.
NewText(whole, emitted) == SubSeq(whole, Len(emitted) + 1, Len(whole))

\* One token of the generation: decoded, appended, checked, and for a stream sent.
\* With stop sequences a complete answer is the text put together token by token;
\* without, that text is not kept and all tokens are decoded at once.
Generate(token_id) ==
    LET token_text == Decode(<<token_id>>)
        all    == Append(tokens, token_id)
        whole  == generated_text \o token_text
        window == append_stop_window(stop_window, token_text,
                                     max_stop_sequence_chars(stop_sequences))
        cond   == check_termination(token_id \in EosTokenIds, Len(all), window, stop_sequences)
        final  == IF cond = "StopSequence" THEN Truncated(whole, window, stop_sequences)
                                           ELSE whole
    IN  /\ condition = "None"
        /\ generated_text' = whole
        /\ stop_window' = window
        /\ tokens' = all
        /\ condition' = cond
        /\ text' = IF stop_sequences = {} THEN Decode(all) ELSE final
        /\ sent' = sent \o NewText(final, sent)
        /\ UNCHANGED stop_sequences

GenerateAny == \E token_id \in TokenIds : Generate(token_id)
-----------------------------------------------------------------------------
Stops == {seq \in stop_sequences : seq # << >>}

\* The window is the end of the text, as long as the longest stop sequence.
WindowIsEndOfText ==
    LET max == max_stop_sequence_chars(stop_sequences)
        len == IF Len(generated_text) < max THEN Len(generated_text) ELSE max
    IN  stop_window = SubSeq(generated_text, Len(generated_text) - len + 1, Len(generated_text))

\* However the text is cut into tokens, a generation does not go on, nor end for
\* another reason, with a stop sequence at the end of its text.
StopAtTheEndIsFound ==
    condition \in {"None", "MaxTokens"} =>
        \A seq \in Stops : ~IsSuffix(seq, generated_text)

\* A generation that stops at a sequence returns the text up to one that occurs
\* there, and none that ends later begins earlier.
CutsBeforeAStop ==
    condition = "StopSequence" =>
        /\ IsPrefix(text, generated_text)
        /\ Len(text) \in Matches(generated_text, stop_sequences)
        /\ \A seq \in Stops : \A pos \in Occurrences(seq, generated_text) :
              pos + Len(seq) = Len(generated_text) => Len(text) <= pos

\* A stream sends all of its text once: never anything again, and it leaves out
\* nothing but a stop sequence.  What it sends is what a complete answer to the same
\* tokens has, and ahead of it only by what it had sent of a stop sequence when that
\* sequence was not yet complete: always if there are stop sequences, and without
\* them as far as decoding tokens at once and one by one is the same.
StreamMatchesText ==
    /\ IsPrefix(sent, generated_text)
    /\ condition # "StopSequence" => sent = generated_text
    /\ stop_sequences # {} \/ Decode(tokens) = generated_text =>
          /\ IsPrefix(text, sent)
          /\ condition # "StopSequence" => sent = text

\* The text that is returned contains no stop sequence.
NoStopSequenceInText ==
    condition # "None" => \A seq \in Stops : Occurrences(seq, text) = {}
=============================================================================

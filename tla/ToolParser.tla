----------------------------- MODULE ToolParser -----------------------------
(***************************************************************************)
(* parse_tool_calls (crates/mlx-engine/src/tool_parser.rs): the loop that  *)
(* takes tool calls out of a generated text, one action per branch.        *)
(*                                                                         *)
(* A string is a sequence of characters, a tag is one character, and which *)
(* strings are the JSON of a call is a parameter.                          *)
(***************************************************************************)
EXTENDS Integers, Sequences, SequencesExt, FiniteSetsExt

CONSTANTS
    TOOL_CALL_OPEN,
    TOOL_CALL_CLOSE,
    Space,              \* white space
    Calls               \* strings that try_parse_tool_call accepts

ASSUME TagsAssumption == TOOL_CALL_OPEN # TOOL_CALL_CLOSE

VARIABLES
    remaining,
    result_text,
    tool_calls,
    scan                \* "idle", in the "loop", or "over"

parserVars == <<remaining, result_text, tool_calls, scan>>

ParserInit ==
    /\ remaining = << >>
    /\ result_text = << >>
    /\ tool_calls = << >>
    /\ scan = "idle"

StartParsing(whole) ==
    /\ scan = "idle"
    /\ remaining' = whole
    /\ result_text' = << >>
    /\ tool_calls' = << >>
    /\ scan' = "loop"

\* find: the first place of c in s.
Has(s, c) == \E i \in DOMAIN s : s[i] = c
Find(s, c) == Min({i \in DOMAIN s : s[i] = c})
Before(s, i) == SubSeq(s, 1, i - 1)
After(s, i) == SubSeq(s, i + 1, Len(s))

trim(s) ==
    LET kept == {i \in DOMAIN s : s[i] # Space}
    IN  IF kept = {} THEN << >> ELSE SubSeq(s, Min(kept), Max(kept))

\* Mutant: a block that is no call is dropped with its text.
DropBadBlock(raw_block) ==
    IF trim(raw_block) \in Calls
    THEN /\ tool_calls' = Append(tool_calls, trim(raw_block))
         /\ result_text' = result_text \o Before(remaining, Find(remaining, TOOL_CALL_OPEN))
    ELSE /\ result_text' = result_text \o Before(remaining, Find(remaining, TOOL_CALL_OPEN))
         /\ UNCHANGED tool_calls

\* A closed block: a call, or text like any other.
TakeBlock(raw_block) ==
    LET before == result_text \o Before(remaining, Find(remaining, TOOL_CALL_OPEN))
    IN  IF trim(raw_block) \in Calls
        THEN /\ tool_calls' = Append(tool_calls, trim(raw_block))
             /\ result_text' = before
        ELSE /\ result_text' = before \o <<TOOL_CALL_OPEN>> \o raw_block \o <<TOOL_CALL_CLOSE>>
             /\ UNCHANGED tool_calls

ClosedTag ==
    LET after_open == After(remaining, Find(remaining, TOOL_CALL_OPEN))
    IN  /\ scan = "loop"
        /\ Has(remaining, TOOL_CALL_OPEN)
        /\ Has(after_open, TOOL_CALL_CLOSE)
        /\ TakeBlock(Before(after_open, Find(after_open, TOOL_CALL_CLOSE)))
        /\ remaining' = After(after_open, Find(after_open, TOOL_CALL_CLOSE))
        /\ UNCHANGED scan

\* An open tag without a close tag, or no tag at all: the rest is text.
Rest ==
    /\ scan = "loop"
    /\ Has(remaining, TOOL_CALL_OPEN) =>
            ~Has(After(remaining, Find(remaining, TOOL_CALL_OPEN)), TOOL_CALL_CLOSE)
    /\ result_text' = trim(result_text \o remaining)
    /\ scan' = "over"
    /\ UNCHANGED <<remaining, tool_calls>>

Parse == ClosedTag \/ Rest
=============================================================================

----------------------------- MODULE Completion -----------------------------
(***************************************************************************)
(* A complete answer of chat_completions                                   *)
(* (crates/mlx-server/src/routes/chat.rs): the text that StopWindow        *)
(* generates, the tool calls that ToolParser takes out of it when the      *)
(* request has tools, and the message made of them.                        *)
(***************************************************************************)
EXTENDS StopWindow, ToolParser

VARIABLES
    has_tools,
    response        \* the message and its finish_reason, << >> until it is built

completionVars == <<stopVars, parserVars, has_tools, response>>

CompletionInit ==
    /\ StopInit
    /\ ParserInit
    /\ has_tools \in BOOLEAN
    /\ response = << >>

reason_str(cond) == IF cond = "MaxTokens" THEN "length" ELSE "stop"

Message(content, calls, finish_reason) ==
    << [content |-> content, tool_calls |-> calls, finish_reason |-> finish_reason] >>

GenerateToken ==
    /\ GenerateAny
    /\ UNCHANGED <<parserVars, has_tools, response>>

ParseToolCalls ==
    /\ condition # "None" /\ has_tools
    /\ StartParsing(text) \/ Parse
    /\ UNCHANGED <<stopVars, has_tools, response>>

\* Without tools, or without a call in it, the text is answered as it is.
Respond ==
    /\ condition # "None"
    /\ response = << >>
    /\ has_tools => scan = "over"
    /\ response' = IF tool_calls = << >>
                   THEN Message(text, << >>, reason_str(condition))
                   ELSE Message(result_text, tool_calls, "tool_calls")
    /\ UNCHANGED <<stopVars, parserVars, has_tools>>

Answered ==
    /\ response # << >>
    /\ UNCHANGED completionVars

CompletionNext == GenerateToken \/ ParseToolCalls \/ Respond \/ Answered

CompletionSpec == CompletionInit /\ [][CompletionNext]_completionVars
-----------------------------------------------------------------------------
\* What a reader of the tool-call format does with a text, character by
\* character: `block' is what has been read since an open tag, `out' the text.
Read(state, c) ==
    IF ~state.inside
    THEN IF c = TOOL_CALL_OPEN THEN [state EXCEPT !.inside = TRUE, !.block = << >>]
                               ELSE [state EXCEPT !.out = Append(@, c)]
    ELSE IF c # TOOL_CALL_CLOSE THEN [state EXCEPT !.block = Append(@, c)]
    ELSE IF trim(state.block) \in Calls
         THEN [state EXCEPT !.inside = FALSE, !.calls = Append(@, trim(state.block))]
         ELSE [state EXCEPT !.inside = FALSE,
                            !.out = (Append(@, TOOL_CALL_OPEN) \o state.block) \o <<TOOL_CALL_CLOSE>>]

ReadAll(s) ==
    LET end == FoldLeft(Read, [inside |-> FALSE, block |-> << >>, out |-> << >>, calls |-> << >>], s)
    IN  [calls |-> end.calls,
         out   |-> trim(IF end.inside THEN Append(end.out, TOOL_CALL_OPEN) \o end.block ELSE end.out)]

\* The calls of an answer are those of the text in their order, and its content
\* is the rest of the text, of which nothing is lost: neither what stands after
\* the last call nor a block that is no call nor one that a stop sequence or the
\* token limit has cut off.  Without calls the content is the text unchanged.
ResponseIsFaithful ==
    \A i \in DOMAIN response :
        LET read == ReadAll(text)
        IN  IF has_tools /\ read.calls # << >>
            THEN response[i] = [content |-> read.out, tool_calls |-> read.calls,
                                finish_reason |-> "tool_calls"]
            ELSE response[i] = [content |-> text, tool_calls |-> << >>,
                                finish_reason |-> reason_str(condition)]
=============================================================================

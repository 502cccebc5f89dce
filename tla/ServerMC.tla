------------------------------ MODULE ServerMC ------------------------------
(***************************************************************************)
(* Small instances of Server for TLC.                                      *)
(***************************************************************************)
EXTENDS Server

CONSTANTS c1, c2, c3

MCThree == {c1, c2, c3}

Good          == [stream |-> FALSE, tools |-> TRUE, model_known |-> TRUE, prompt |-> "good",
                  max_tokens |-> 1]
Stream        == [Good EXCEPT !.stream = TRUE, !.tools = FALSE]
StreamTools   == [Good EXCEPT !.stream = TRUE]
Unknown       == [Good EXCEPT !.model_known = FALSE]
Empty         == [Good EXCEPT !.prompt = "empty"]
Untokenizable == [Good EXCEPT !.prompt = "untokenizable"]
Unrenderable  == [Good EXCEPT !.prompt = "unrenderable"]
Nothing       == [Good EXCEPT !.max_tokens = 0]
StreamNothing == [Stream EXCEPT !.max_tokens = 0]

MCRequests == {Good, Stream, StreamTools, Unknown, Empty, Untokenizable, Unrenderable,
               Nothing, StreamNothing}

\* One of each kind that goes different ways.
MCFewRequests == {Good, Stream, Unrenderable}

\* Starts with mixes of three, in which every kind occurs.
MCInit ==
    /\ ServerInit
    /\ \/ request[c1] = Stream /\ request[c2] \in {Good, Stream} /\ request[c3] = Empty
       \/ request[c1] \in {Good, Stream} /\ request[c2] = Unknown /\ request[c3] = Unrenderable
       \/ request[c1] = Nothing /\ request[c2] = StreamNothing
            /\ request[c3] \in {StreamTools, Untokenizable}

MCSpec == MCInit /\ [][ServerNext]_serverVars /\ ServerFairness

MCSymmetry == Permutations(MCThree)
=============================================================================

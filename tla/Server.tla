------------------------------- MODULE Server -------------------------------
(***************************************************************************)
(* The life of the generation requests of mlx-server: the handlers of      *)
(* routes/chat.rs and routes/completions.rs, the admission controller of   *)
(* module Backpressure, the timeout layer of lib.rs, clients that hang up, *)
(* and the generations the handlers start in the blocking pool, of which   *)
(* the engine promises what module DecodeLock says.                        *)
(*                                                                         *)
(* A handler is a future.  It can be dropped wherever it awaits, which     *)
(* drops its ticket, its permit or its receiver; a generation that has     *)
(* been spawned is not dropped with it.  Abstractions: every client sends  *)
(* one request, of which the model has what a handler branches on; the     *)
(* text of an output is left out, and of what a generation leaves in the   *)
(* engine's caches (module Engine) only that it does.                      *)
(***************************************************************************)
EXTENDS Backpressure

CONSTANTS
    Requests,           \* what clients send
    ClearAfterRequest,  \* --clear-runtime-cache-after-request
    ChannelCapacity,    \* slots of the channel of a stream (32 in the code)
    MaxOutputs          \* bound: outputs of one generation

Prompts == {"good", "empty", "untokenizable", "unrenderable"}

\* max_tokens is 0, or 1 for any number above.
ChatCompletionRequest == [stream : BOOLEAN, tools : BOOLEAN, model_known : BOOLEAN,
                          prompt : Prompts, max_tokens : 0..1]

ASSUME ServerAssumption ==
    /\ Requests \subseteq ChatCompletionRequest
    /\ Requests # {} /\ ClearAfterRequest \in BOOLEAN
    /\ ChannelCapacity \in Nat \ {0}
    /\ MaxOutputs \in Nat \ {0}

VARIABLES
    handler,        \* where the handler (or the body stream) of a request is: "new",
                    \* "received", "queued", "waiting" for its turn, "awaiting" its
                    \* generation, "streaming", "closing", "done"
    request,
    status,         \* HTTP status sent to the client, "none" before
    phase,          \* the request's generation: "idle", "waiting", "decoding"
    result,         \* how its generation returned
    channel,        \* outputs offered, sent, buffered, written to the client
    done,           \* [DONE] has been sent
    uncleared       \* generations not followed by a clear of the runtime caches

serverVars == <<bpVars, handler, request, status, phase, result, channel, done, uncleared>>
taskVars == <<phase, result, channel, uncleared>>

Lock == INSTANCE DecodeLock WITH Tasks <- Clients

Results  == {"none", "ok", "refused", "failed", "panicked"}

ServerInit ==
    /\ BPInit
    /\ handler = [c \in Clients |-> "new"]
    /\ request \in [Clients -> Requests]
    /\ status = [c \in Clients |-> "none"]
    /\ Lock!Init
    /\ result = [c \in Clients |-> "none"]
    /\ channel = [c \in Clients |-> [offered |-> FALSE, sent |-> 0, buffered |-> 0, written |-> 0]]
    /\ done = {} /\ uncleared = {}

Become(c, h) == handler' = [handler EXCEPT ![c] = h]
Answer(c, s) == status' = [status EXCEPT ![c] = s]

-----------------------------------------------------------------------------
(***************************************************************************)
(* chat_completions and completions                                        *)
(***************************************************************************)

\* Past the layers around the routes and the parsing of the body.
Arrive(c) ==
    /\ handler[c] = "new"
    /\ Become(c, "received")
    /\ UNCHANGED <<bpVars, request, status, taskVars, done>>

\* No key, too many in a minute, a body that is no request.
TurnAway(c) ==
    /\ handler[c] = "new"
    /\ \E s \in {"401", "429", "422"} : Answer(c, s)
    /\ Become(c, "done")
    /\ UNCHANGED <<bpVars, request, taskVars, done>>

\* Empty messages or an empty prompt, or no slot left: nothing is held yet.
Reject(c) ==
    /\ handler[c] = "received"
    /\ IF request[c].prompt = "empty" THEN Answer(c, "400") /\ UNCHANGED bpVars
                                      ELSE Overloaded(c) /\ Answer(c, "503")
    /\ Become(c, "done")
    /\ UNCHANGED <<request, taskVars, done>>

Queue(c) ==
    /\ handler[c] = "received" /\ request[c].prompt # "empty"
    /\ TryQueue(c)
    /\ Become(c, "queued")
    /\ UNCHANGED <<request, status, taskVars, done>>

WaitForRun(c) ==
    /\ handler[c] = "queued"
    /\ EnterRunQueue(c)
    /\ Become(c, "waiting")
    /\ UNCHANGED <<request, status, taskVars, done>>

\* What is found wrong with the permit in hand, in this order.
Defect(r) ==
    CASE r.stream /\ r.tools           -> "400"
      [] ~r.model_known                -> "404"
      [] r.prompt = "untokenizable"    -> "400"
      [] r.prompt = "unrenderable"     -> "500"
      [] OTHER                         -> "none"

\* The permit is dropped with the handler.
FailToStart(c) ==
    /\ handler[c] = "waiting" /\ Defect(request[c]) # "none"
    /\ BeginRun(c)
    /\ Answer(c, Defect(request[c]))
    /\ Become(c, "closing")
    /\ UNCHANGED <<request, taskVars, done>>

\* spawn_blocking; a stream is answered at once, the permit moves into its body.
Spawn(c) ==
    /\ handler[c] = "waiting" /\ Defect(request[c]) = "none"
    /\ BeginRun(c)
    /\ Lock!Start(c)
    /\ IF request[c].stream THEN Become(c, "streaming") /\ Answer(c, "200")
                    ELSE Become(c, "awaiting") /\ UNCHANGED status
    /\ UNCHANGED <<request, result, channel, done, uncleared>>

\* Mutant: answers without waiting for the generation.
CompleteEarly(c) ==
    /\ handler[c] = "awaiting"
    /\ Answer(c, "200")
    /\ Become(c, "closing")
    /\ UNCHANGED <<bpVars, request, taskVars, done>>

\* The join handle is ready.  The caches are cleared, if so configured, only after a
\* generation that succeeded, and the clear can fail.
Complete(c) ==
    /\ handler[c] = "awaiting"
    /\ phase[c] = "idle"
    /\ CASE result[c] = "ok" /\ ClearAfterRequest ->
              \/ Answer(c, "200") /\ uncleared' = {}
              \/ Answer(c, "500") /\ uncleared' \in {uncleared, {}}
         [] result[c] = "ok" /\ ~ClearAfterRequest -> Answer(c, "200") /\ UNCHANGED uncleared
         [] result[c] = "refused" -> Answer(c, "503") /\ UNCHANGED uncleared
         [] OTHER -> Answer(c, "500") /\ UNCHANGED uncleared
    /\ Become(c, "closing")
    /\ UNCHANGED <<bpVars, request, phase, result, channel, done>>

-----------------------------------------------------------------------------
(***************************************************************************)
(* The body of a stream                                                    *)
(***************************************************************************)

\* rx.recv() yields an output, which becomes an event.
WriteEvent(c) ==
    /\ handler[c] = "streaming"
    /\ channel[c].buffered > 0
    /\ channel' = [channel EXCEPT ![c].buffered = @ - 1, ![c].written = @ + 1]
    /\ UNCHANGED <<bpVars, handler, request, status, phase, result, done, uncleared>>

\* Mutant: stops as soon as the sender is gone, whatever is still buffered.
WriteDoneEarly(c) ==
    /\ handler[c] = "streaming"
    /\ phase[c] = "idle"
    /\ done' = done \cup {c}
    /\ Become(c, "closing")
    /\ UNCHANGED <<bpVars, request, status, taskVars>>

\* rx.recv() yields None: the sender is gone and nothing is buffered.
WriteDone(c) ==
    /\ handler[c] = "streaming"
    /\ phase[c] = "idle"
    /\ channel[c].buffered = 0
    /\ done' = done \cup {c}
    /\ Become(c, "closing")
    /\ UNCHANGED <<bpVars, request, status, taskVars>>

-----------------------------------------------------------------------------
(***************************************************************************)
(* Dropped futures                                                         *)
(***************************************************************************)

\* Whatever the handler owned is dropped: its place in line or its receiver.
DropHandler(c) ==
    /\ IF handler[c] = "waiting" THEN AbandonWait(c) ELSE UNCHANGED bpVars
    /\ channel' = [channel EXCEPT ![c].buffered = IF handler[c] = "streaming" THEN 0 ELSE @]
    /\ Become(c, "closing")
    /\ UNCHANGED <<request, phase, result, done, uncleared>>

\* The timeout layer: until the response head is out, not while a body streams.
Timeout(c) ==
    /\ handler[c] \in {"waiting", "awaiting"}
    /\ Answer(c, "504")
    /\ DropHandler(c)

HangUp(c) ==
    /\ handler[c] \in {"waiting", "awaiting", "streaming"}
    /\ UNCHANGED status
    /\ DropHandler(c)

\* Mutant: forgets the run permit.
ReleaseQueueSlotOnly(c) ==
    /\ handler[c] = "closing"
    /\ DropQueuePermit(c)
    /\ Become(c, "done")
    /\ UNCHANGED <<request, status, taskVars, done>>

\* The ticket or the permit goes, semaphore by semaphore.
Release(c) ==
    /\ handler[c] = "closing"
    /\ DropQueuePermit(c) \/ DropRunPermit(c)
    /\ Become(c, IF place'[c] = "outside" THEN "done" ELSE "closing")
    /\ UNCHANGED <<request, status, taskVars, done>>

-----------------------------------------------------------------------------
(***************************************************************************)
(* Generations in the blocking pool                                        *)
(***************************************************************************)

\* The generation gets the model lock, unless it has nothing to generate.
Decode(c) ==
    /\ request[c].max_tokens > 0
    /\ Lock!Decode(c)
    /\ UNCHANGED <<bpVars, handler, request, status, result, channel, done, uncleared>>

\* The next output is ready and is offered to the channel; with nothing to generate
\* it is an empty one, without the model lock.
Offer(c) ==
    /\ request[c].stream
    /\ ~channel[c].offered
    /\ IF request[c].max_tokens > 0
       THEN phase[c] = "decoding" /\ channel[c].sent < MaxOutputs
       ELSE phase[c] = "waiting" /\ channel[c].sent = 0
    /\ channel' = [channel EXCEPT ![c].offered = TRUE]
    /\ UNCHANGED <<bpVars, handler, request, status, phase, result, done, uncleared>>

\* blocking_send waits for a slot.
Send(c) ==
    /\ channel[c].offered
    /\ handler[c] = "streaming"
    /\ channel[c].buffered < ChannelCapacity
    /\ channel' = [channel EXCEPT ![c].offered = FALSE, ![c].sent = @ + 1, ![c].buffered = @ + 1]
    /\ UNCHANGED <<bpVars, handler, request, status, phase, result, done, uncleared>>

\* How a generation can return between two outputs: refused before it decodes; done,
\* for a stream after its last output; with an error or a panic at any time, unless it
\* had nothing to generate.
Returns(c, r) ==
    /\ request[c].max_tokens = 0 => r = "ok"
    /\ r = "refused" => phase[c] = "waiting"
    /\ r = "ok" => /\ phase[c] = "decoding" \/ request[c].max_tokens = 0
                   /\ request[c].stream => channel[c].sent > 0

\* Mutant: does not notice that the receiver is gone.
ReturnWithReceiver(c) ==
    /\ Lock!End(c)
    /\ ~channel[c].offered
    /\ \E r \in Results \ {"none"} : Returns(c, r) /\ result' = [result EXCEPT ![c] = r]
    /\ uncleared' = IF phase[c] = "decoding" THEN uncleared \cup {c} ELSE uncleared
    /\ UNCHANGED <<bpVars, handler, request, status, channel, done>>

\* A generation ends, also in the middle of a send, because the receiver is gone; it
\* leaves its prompt in the engine's caches if it got to decode.
Return(c) ==
    /\ Lock!End(c)
    /\ IF channel[c].offered
       THEN handler[c] # "streaming" /\ result' = [result EXCEPT ![c] = "ok"]
       ELSE \E r \in Results \ {"none"} : Returns(c, r) /\ result' = [result EXCEPT ![c] = r]
    /\ uncleared' = IF phase[c] = "decoding" THEN uncleared \cup {c} ELSE uncleared
    /\ UNCHANGED <<bpVars, handler, request, status, channel, done>>

\* POST /debug/cache/clear, by anybody and past the queue.
ClearCache ==
    /\ uncleared' = {}
    /\ UNCHANGED <<bpVars, handler, request, status, phase, result, channel, done>>

\* All requests are over; the server waits for more.
Idle ==
    /\ \A c \in Clients : handler[c] = "done" /\ phase[c] = "idle"
    /\ UNCHANGED serverVars

BodyStep(c) == WriteEvent(c) \/ WriteDone(c)
HandlerStep(c) ==
    \/ Reject(c) \/ Queue(c) \/ WaitForRun(c) \/ FailToStart(c) \/ Spawn(c)
    \/ Complete(c) \/ Release(c)
TaskStep(c) == Decode(c) \/ Offer(c) \/ Send(c) \/ Return(c)

ServerNext ==
    \/ \E c \in Clients :
        \/ Arrive(c) \/ TurnAway(c) \/ HandlerStep(c) \/ BodyStep(c) \/ TaskStep(c)
        \/ Timeout(c) \/ HangUp(c)
    \/ ClearCache \/ Idle

ServerSpec == ServerInit /\ [][ServerNext]_serverVars

\* Futures that can go on are polled, threads run; no timeout or hang-up is
\* forced, except that a client that stops reading a stream hangs up.
ServerFairness ==
    \A c \in Clients :
        /\ WF_serverVars(HandlerStep(c))
        /\ WF_serverVars(BodyStep(c) \/ (handler[c] = "streaming" /\ HangUp(c)))
        /\ WF_serverVars(TaskStep(c))

FairServerSpec == ServerSpec /\ ServerFairness
-----------------------------------------------------------------------------
\* Wherever a future is dropped, its slots come back: a request that is over
\* holds nothing, and with no request inside all slots are free.
SlotsComeBack ==
    /\ \A c \in Clients : handler[c] \in {"new", "received", "done"} => place[c] = "outside"
    /\ (\A c \in Clients : handler[c] \in {"new", "received", "done"}) =>
            queue_slots = TotalSlots /\ run_slots = Running

\* A client that saw [DONE] has been written everything its generation sent, and
\* the generation is over.
DoneIsComplete ==
    \A c \in done : /\ channel[c].written = channel[c].sent
                    /\ phase[c] = "idle"

\* A 200 without a stream comes from a generation that succeeded, and, if so
\* configured, that the runtime caches were cleared after; a 503 comes from one that
\* was refused or from a full queue; none comes while its generation still runs.
AnswersAreFinal ==
    \A c \in Clients :
        ~request[c].stream /\ status[c] \in {"200", "500", "503"} =>
            /\ phase[c] = "idle"
            /\ status[c] = "200" => result[c] = "ok" /\ (ClearAfterRequest => c \notin uncleared)
            /\ status[c] = "503" => result[c] \in {"none", "refused"}

\* Whatever times out, hangs up, fails or panics, every request that arrived is
\* over in the end, all generations have returned and all slots are back.
ServerDrains ==
    <>[](/\ \A c \in Clients : handler[c] \in {"new", "done"} /\ phase[c] = "idle"
         /\ queue_slots = TotalSlots
         /\ run_slots = Running)

\* The controller bounds the generations in flight: it is there because parallel
\* generations are not safe, and its run slot stands for one of them.
GenerationsBounded ==
    Cardinality({c \in Clients : phase[c] # "idle"}) <= MAX_PARALLEL_GENERATIONS
=============================================================================

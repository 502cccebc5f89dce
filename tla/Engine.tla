------------------------------- MODULE Engine -------------------------------
(***************************************************************************)
(* SimpleEngine of mlx-engine (crates/mlx-engine/src/simple.rs): threads   *)
(* that run generate and generate_streaming on one shared engine.  The     *)
(* engine has two mutexes, one around the model and one around the prompt  *)
(* cache manager of module PromptCache.  No code takes another lock while  *)
(* it holds the manager, so a manager call is one atomic step here; the    *)
(* model is held from prefill to the end of the generation.                *)
(*                                                                         *)
(* Abstractions.  A KV cache is the sequence of prompt tokens whose keys   *)
(* and values it holds, followed by a number of generated tokens.  When a  *)
(* token ends the generation (end-of-sequence token, stop sequence) is     *)
(* left open; max_tokens is not.  Errors and panics of the MLX runtime may *)
(* happen in any forward pass.  The manager itself does not panic, so its  *)
(* mutex is never poisoned.                                                *)
(***************************************************************************)
EXTENDS PromptCache

CONSTANTS
    Threads,            \* blocking-pool threads, each runs one generation
    ChannelCapacity     \* slots of the streaming channel (32 in the routes)

ASSUME EngineAssumption ==
    /\ IsFiniteSet(Threads)
    /\ ChannelCapacity \in Nat \ {0}
    /\ 0 \notin MaxTokens  \* with none to generate both functions return at once

VARIABLES
    stage,              \* where each thread is in its generation
    gen,                \* the generation's local variables
    snapshot,           \* the AnyCache of each prefix entry
    model_holder,       \* the thread inside the model mutex, if any
    model_poisoned,     \* a thread panicked inside the model mutex
    channel             \* per thread: outputs buffered, receiver alive

managerVars == <<entries, older, active_requests, free_pages>>
engineVars == <<managerVars, stage, gen, snapshot, model_holder, model_poisoned, channel>>

Stages == {"idle", "admission", "make_cache", "lock_model", "prefill", "store",
           "decode", "emit", "return", "finish"}
HoldsModel == {"prefill", "store", "decode", "emit", "return"}

\* `request' is the RequestId once begin_request has returned one.
Generation == [prompt : Prompts, max_tokens : MaxTokens, streaming : BOOLEAN,
               observed : Nat, request : SUBSET Requests, prefix_len : Nat,
               kv : Seq(Tokens), generated : Nat, finished : BOOLEAN]

EngineInit ==
    /\ Init
    /\ stage = [t \in Threads |-> "idle"]
    /\ gen = << >>
    /\ snapshot = << >>
    /\ model_holder = {}
    /\ model_poisoned = FALSE
    /\ channel = [t \in Threads |-> [buffered |-> 0, receiver |-> FALSE]]

GoTo(t, s) == stage' = [stage EXCEPT ![t] = s]

-----------------------------------------------------------------------------
(***************************************************************************)
(* Admission: prepare_generation                                           *)
(***************************************************************************)

\* The tokens whose keys and values a generation's arrays hold.  The last generated
\* token is only written by the forward pass that it is the input of.
HeldTokens(g) == Len(g.kv) + (IF g.generated > 0 THEN g.generated - 1 ELSE 0)

\* MLX active memory above the baseline: the arrays of the prefix snapshots
\* and of the running generations.
ActiveMemoryBytes ==
    BytesPerToken *
        ( MapThenSumSet(LAMBDA k : Len(snapshot[k]), DOMAIN snapshot)
        + MapThenSumSet(LAMBDA t : HeldTokens(gen[t]), DOMAIN gen) )

\* Bounds: an id and a pin are left for every thread about to be admitted.
WithinBounds ==
    LET entering == Cardinality({t \in Threads : stage[t] = "admission"})
    IN  /\ Cardinality(Requests \ DOMAIN active_requests) > entering
        /\ \A k \in DOMAIN entries : entries[k].pin_count + entering < MaxPins

\* The caller's thread reads the active memory before it locks the manager.
Call(t, prompt, max_tokens, streaming) ==
    /\ stage[t] = "idle"
    /\ WithinBounds
    /\ gen' = [u \in DOMAIN gen \cup {t} |->
                IF u # t THEN gen[u] ELSE
                [prompt |-> prompt, max_tokens |-> max_tokens, streaming |-> streaming,
                 observed |-> ActiveMemoryBytes, request |-> {}, prefix_len |-> 0,
                 kv |-> << >>, generated |-> 0, finished |-> FALSE]]
    /\ channel' = [channel EXCEPT ![t] = [buffered |-> 0, receiver |-> streaming]]
    /\ GoTo(t, "admission")
    /\ UNCHANGED <<managerVars, snapshot, model_holder, model_poisoned>>

\* The thread's closure ends: its locals and its sender are gone.
Leave(t) ==
    /\ GoTo(t, "idle")
    /\ gen' = Restrict(gen, DOMAIN gen \ {t})
    /\ UNCHANGED channel

\* begin_request refuses: prepare_generation returns the error.
AdmissionRefused(t) ==
    /\ stage[t] = "admission"
    /\ \/ BeginOverBudget(gen[t].prompt, gen[t].max_tokens)
       \/ BeginOverRuntimeBudget(gen[t].prompt, gen[t].max_tokens, gen[t].observed)
       \/ BeginNoPages(gen[t].prompt, gen[t].max_tokens, gen[t].observed)
    /\ Leave(t)
    /\ snapshot' = Restrict(snapshot, DOMAIN entries')
    /\ UNCHANGED <<model_holder, model_poisoned>>

\* begin_request reserves; a borrowed snapshot becomes the generation's cache.
\* The memory reading is not used again: it is forgotten to save states.
AdmissionGranted(t) ==
    /\ stage[t] = "admission"
    /\ \E r \in Requests :
        /\ BeginAdmitted(r, gen[t].prompt, gen[t].max_tokens, gen[t].observed)
        /\ LET borrowed == active_requests'[r].borrowed_prefix
           IN  /\ gen' = [gen EXCEPT
                    ![t].observed = 0,
                    ![t].request = {r},
                    ![t].prefix_len = active_requests'[r].prefix_len,
                    ![t].kv = IF borrowed = {} THEN << >>
                              ELSE snapshot[CHOOSE k \in borrowed : TRUE]]
               /\ GoTo(t, IF borrowed = {} THEN "make_cache" ELSE "lock_model")
    /\ snapshot' = Restrict(snapshot, DOMAIN entries')
    /\ UNCHANGED <<model_holder, model_poisoned, channel>>

\* Mutant: the temporary guard lives on while the caller locks again.
MakeCacheKeepsGuard(t) ==
    /\ stage[t] = "make_cache"
    /\ model_holder = {}
    /\ ~model_poisoned
    /\ model_holder' = {t}
    /\ GoTo(t, "lock_model")
    /\ UNCHANGED <<managerVars, gen, snapshot, model_poisoned, channel>>

\* Without a prefix the model lock is taken, and released, to make a new cache.
MakeCache(t) ==
    /\ stage[t] = "make_cache"
    /\ model_holder = {}
    /\ ~model_poisoned
    /\ GoTo(t, "lock_model")
    /\ UNCHANGED <<managerVars, gen, snapshot, model_holder, model_poisoned, channel>>

\* A poisoned model lock: the error leaves prepare_generation before the caller
\* has made the lease, so nothing finishes the request.
MakeCacheFails(t) ==
    /\ stage[t] = "make_cache"
    /\ model_holder = {}
    /\ model_poisoned
    /\ Leave(t)
    /\ UNCHANGED <<managerVars, snapshot, model_holder, model_poisoned>>

-----------------------------------------------------------------------------
(***************************************************************************)
(* Generation: generate_with_sampling and generate_streaming_with_sampling *)
(***************************************************************************)

\* Mutant: the lock is shared.
LockModelShared(t) ==
    /\ stage[t] = "lock_model"
    /\ IF model_poisoned
       THEN GoTo(t, "finish") /\ UNCHANGED model_holder
       ELSE GoTo(t, "prefill") /\ model_holder' = model_holder \cup {t}
    /\ UNCHANGED <<managerVars, gen, snapshot, model_poisoned, channel>>

\* Mutant: the lease is not bound to a name and is dropped at once.
LockModelDropsLease(t) ==
    /\ stage[t] = "lock_model"
    /\ model_holder = {}
    /\ ~model_poisoned
    /\ GoTo(t, "prefill")
    /\ model_holder' = {t}
    /\ \E r \in gen[t].request : FinishRequest(r)
    /\ UNCHANGED <<gen, snapshot, model_poisoned, channel>>

LockModel(t) ==
    /\ stage[t] = "lock_model"
    /\ model_holder = {}
    /\ IF model_poisoned
       THEN GoTo(t, "finish") /\ UNCHANGED model_holder
       ELSE GoTo(t, "prefill") /\ model_holder' = {t}
    /\ UNCHANGED <<managerVars, gen, snapshot, model_poisoned, channel>>

\* Mutant: prefills the whole prompt on top of the borrowed snapshot.
PrefillWholePrompt(t) ==
    /\ stage[t] = "prefill"
    /\ gen' = [gen EXCEPT ![t].kv = @ \o gen[t].prompt]
    /\ GoTo(t, "store")
    /\ UNCHANGED <<managerVars, snapshot, model_holder, model_poisoned, channel>>

\* Mutant: skips one token too many after a borrowed prefix.
PrefillOffByOne(t) ==
    /\ stage[t] = "prefill"
    /\ gen' = [gen EXCEPT ![t].kv =
                @ \o SubSeq(gen[t].prompt, gen[t].prefix_len + 2, Len(gen[t].prompt))]
    /\ GoTo(t, "store")
    /\ UNCHANGED <<managerVars, snapshot, model_holder, model_poisoned, channel>>

\* The forward pass over the tokens that the reservation said to prefill.
Prefill(t) ==
    /\ stage[t] = "prefill"
    /\ gen' = [gen EXCEPT ![t].kv =
                @ \o SubSeq(gen[t].prompt, gen[t].prefix_len + 1, Len(gen[t].prompt))]
    /\ GoTo(t, "store")
    /\ UNCHANGED <<managerVars, snapshot, model_holder, model_poisoned, channel>>

\* Mutant: one token more than allowed.
NewTokenOffByOne(t) ==
    \E ends, decoded \in BOOLEAN :
        LET n        == gen[t].generated + 1
            finished == ends \/ n > gen[t].max_tokens
        IN  /\ gen' = [gen EXCEPT ![t].generated = n, ![t].finished = finished]
            /\ GoTo(t, CASE ~decoded                          -> "return"
                         [] decoded /\ gen[t].streaming         -> "emit"
                         [] decoded /\ ~gen[t].streaming        ->
                                IF finished THEN "return" ELSE "decode")

\* A new token: the generation ends with it if it is the last one allowed, if it
\* completes a stop condition or if the tokenizer cannot decode it.  Streaming emits
\* it, finished or not, once it is decoded.
NewToken(t) ==
    \E ends, decoded \in BOOLEAN :
        LET n        == gen[t].generated + 1
            finished == ends \/ n >= gen[t].max_tokens
        IN  /\ gen' = [gen EXCEPT ![t].generated = n, ![t].finished = finished]
            /\ GoTo(t, CASE ~decoded                          -> "return"
                         [] decoded /\ gen[t].streaming         -> "emit"
                         [] decoded /\ ~gen[t].streaming        ->
                                IF finished THEN "return" ELSE "decode")

\* run_prefill stores the prefix under the manager lock, model lock held; a
\* failed insert is only logged.
Store(t) ==
    /\ stage[t] = "store"
    /\ LET prompt == gen[t].prompt
       IN  \/ /\ StoreReplaced(prompt) \/ StoreInserted(prompt)
              /\ snapshot' = [k \in DOMAIN entries' |->
                                IF k = Hash[prompt] THEN gen[t].kv ELSE snapshot[k]]
           \/ /\ StoreSkipped(prompt) \/ StoreGivesUp(prompt)
              /\ snapshot' = Restrict(snapshot, DOMAIN entries')
    /\ NewToken(t)
    /\ UNCHANGED <<model_holder, model_poisoned, channel>>

DecodeStep(t) ==
    /\ stage[t] = "decode"
    /\ NewToken(t)
    /\ UNCHANGED <<managerVars, snapshot, model_holder, model_poisoned, channel>>

\* blocking_send waits for a slot, model lock held; it fails once the receiver
\* is gone, and the generation stops early.
Emit(t) ==
    /\ stage[t] = "emit"
    /\ \/ /\ channel[t].receiver
          /\ channel[t].buffered < ChannelCapacity
          /\ channel' = [channel EXCEPT ![t].buffered = @ + 1]
          /\ GoTo(t, IF gen[t].finished THEN "return" ELSE "decode")
       \/ /\ ~channel[t].receiver
          /\ UNCHANGED channel
          /\ GoTo(t, "return")
    /\ UNCHANGED <<managerVars, gen, snapshot, model_holder, model_poisoned>>

\* Mutant: the error path returns without finishing the request.
RuntimeErrorSkipsLease(t) ==
    /\ stage[t] \in {"prefill", "decode"}
    /\ Leave(t)
    /\ model_holder' = {}
    /\ UNCHANGED <<managerVars, snapshot, model_poisoned>>

\* forward or sampling returns an error.
RuntimeError(t) ==
    /\ stage[t] \in {"prefill", "decode"}
    /\ GoTo(t, "return")
    /\ UNCHANGED <<managerVars, gen, snapshot, model_holder, model_poisoned, channel>>

\* ... or panics: unwinding drops the guard, which poisons the mutex, then the
\* lease.
RuntimePanic(t) ==
    /\ stage[t] \in {"prefill", "decode"}
    /\ GoTo(t, "finish")
    /\ model_holder' = {}
    /\ model_poisoned' = TRUE
    /\ UNCHANGED <<managerVars, gen, snapshot, channel>>

\* Locals drop in reverse order: the model guard first ...
DropModelGuard(t) ==
    /\ stage[t] = "return"
    /\ model_holder' = {}
    /\ GoTo(t, "finish")
    /\ UNCHANGED <<managerVars, gen, snapshot, model_poisoned, channel>>

\* ... then the lease, which finishes the request.
DropLease(t) ==
    /\ stage[t] = "finish"
    /\ \E r \in gen[t].request : FinishRequest(r)
    /\ Leave(t)
    /\ UNCHANGED <<snapshot, model_holder, model_poisoned>>

-----------------------------------------------------------------------------
(***************************************************************************)
(* The rest of the process                                                 *)
(***************************************************************************)

\* clear_runtime_cache, from the debug route or after a request.
ClearRuntimeCache ==
    /\ ClearPrefixes
    /\ snapshot' = Restrict(snapshot, DOMAIN entries')
    /\ UNCHANGED <<stage, gen, model_holder, model_poisoned, channel>>

\* The SSE stream takes an output, or the client disconnects and drops it.
Receive(t) ==
    /\ channel[t].receiver
    /\ channel[t].buffered > 0
    /\ channel' = [channel EXCEPT ![t].buffered = @ - 1]
    /\ UNCHANGED <<managerVars, stage, gen, snapshot, model_holder, model_poisoned>>

HangUp(t) ==
    /\ channel[t].receiver
    /\ channel' = [channel EXCEPT ![t] = [buffered |-> 0, receiver |-> FALSE]]
    /\ UNCHANGED <<managerVars, stage, gen, snapshot, model_holder, model_poisoned>>

Advance(t) ==
    \/ AdmissionRefused(t) \/ AdmissionGranted(t)
    \/ MakeCache(t) \/ MakeCacheFails(t)
    \/ LockModel(t) \/ Prefill(t) \/ Store(t) \/ DecodeStep(t) \/ Emit(t)
    \/ RuntimeError(t) \/ RuntimePanic(t)
    \/ DropModelGuard(t) \/ DropLease(t)

Calls == \E t \in Threads, prompt \in Prompts, max_tokens \in MaxTokens, streaming \in BOOLEAN :
            Call(t, prompt, max_tokens, streaming)

EngineNext ==
    \/ Calls
    \/ \E t \in Threads : Advance(t)
    \/ ClearRuntimeCache
    \/ \E t \in Threads : Receive(t) \/ HangUp(t)

EngineSpec == EngineInit /\ [][EngineNext]_engineVars

\* A thread that can go on does; a client reads what is sent to it or hangs up.
EngineFairness ==
    \A t \in Threads : WF_engineVars(Advance(t)) /\ WF_engineVars(Receive(t) \/ HangUp(t))

FairEngineSpec == EngineSpec /\ EngineFairness

-----------------------------------------------------------------------------
(***************************************************************************)
(* Properties                                                              *)
(***************************************************************************)

\* Whatever was borrowed, replaced, evicted or cleared meanwhile, after prefill
\* a generation's KV cache covers exactly its own prompt.
PrefilledWithOwnPrompt ==
    \A t \in DOMAIN gen :
        stage[t] \in {"store", "decode", "emit"} => gen[t].kv = gen[t].prompt

\* A stored snapshot covers exactly the tokens of its entry: no generated token
\* and no other request's tokens leak into the prefix cache.
SnapshotsMatchTokens ==
    \A k \in DOMAIN entries : snapshot[k] = entries[k].tokens

\* From admission to the lease's drop, every generation has a reservation of its
\* own, made for its own prompt.
RunningIsReserved ==
    \A t \in DOMAIN gen :
        stage[t] # "admission" =>
            \E r \in DOMAIN active_requests :
                /\ gen[t].request = {r}
                /\ active_requests[r].prompt = gen[t].prompt
                /\ \A u \in DOMAIN gen : u # t => gen[u].request # {r}

\* A reservation has a thread that will finish it, on every path out of a generation.
\* The one exception is a request that finds the model's mutex poisoned when it makes
\* its cache (simple.rs:373): its reservation stays, but only one without a borrowed
\* prefix can, so that no entry stays pinned for it.
ReservationHasOwner ==
    \A r \in DOMAIN active_requests :
        \/ \E t \in DOMAIN gen : gen[t].request = {r}
        \/ model_poisoned /\ active_requests[r].borrowed_prefix = {}

\* What the server sees of a stage.
PhaseOf(s) == IF s \in {"idle", "finish"} THEN "idle"
              ELSE IF s \in HoldsModel THEN "decoding" ELSE "waiting"

Lock == INSTANCE DecodeLock WITH
    Tasks <- Threads,
    phase <- [t \in Threads |-> PhaseOf(stage[t])]

\* Whatever the caches do, generations decode one at a time: the engine
\* implements the abstract lock the server is built on.
ImplementsDecodeLock == Lock!Spec

\* A generation grows within what it was admitted for: its prompt, prefilled on whatever
\* it borrowed, and the tokens it has generated never exceed the estimate that its
\* pages were reserved by.
GenerationFitsEstimate ==
    \A t \in DOMAIN gen : \A r \in gen[t].request \cap DOMAIN active_requests :
        BytesPerToken * (Len(gen[t].kv) + gen[t].generated) <= active_requests[r].estimated_bytes

\* If callers stop calling, every generation returns, and if none panicked, all
\* reservations are gone: nothing waits for anything in a circle.
Quiesces ==
    <>[][~Calls]_engineVars =>
        <>[](/\ \A t \in Threads : stage[t] = "idle"
             /\ model_poisoned \/ active_requests = << >>)

\* A refused request is told to retry later.  A caller that does, with a request
\* that fits the budget, while nobody else generates and no reservation is held,
\* is not refused for ever.
RetryIsAdmitted ==
    \A t \in Threads :
        /\ []<><<AdmissionRefused(t)>>_engineVars
        /\ <>[](active_requests = << >> /\ \A u \in Threads \ {t} : stage[u] = "idle")
        => []<>(stage[t] \in HoldsModel)
=============================================================================

----------------------------- MODULE ModelCache -----------------------------
(***************************************************************************)
(* The caches of a model and the forward passes over them: the KV cache    *)
(* that grows in steps (crates/mlx-models/src/cache.rs), the causal mask   *)
(* (utils.rs), and what the layers of a transformer (transformer.rs) and   *)
(* of Qwen3-Next (qwen3_next.rs) read of the cache and leave in it.        *)
(*                                                                         *)
(* Of the arithmetic, only which positions flow into which is kept.  The   *)
(* hidden vector of a position is the token there, a key or value is a     *)
(* token with the position its rotary embedding was made for, and what a   *)
(* layer makes of a position is what it has looked at: for attention, the  *)
(* keys by column, for a linear layer, the convolution's window and all    *)
(* that the state has absorbed.  Keys and values take the same steps and   *)
(* are one buffer.                                                         *)
(***************************************************************************)
EXTENDS Integers, Sequences, SequencesExt

CONSTANTS
    Tokens,
    Layers,                 \* bound: numbers of layers of the models
    Intervals,              \* full_attention_interval of the models of this kind
    KV_CACHE_GROWTH_STEP,
    ConvKernelSize,         \* linear_conv_kernel_dim
    MaxLength,              \* bound: length of a context
    MaxInput                \* bound: tokens of one forward pass

ASSUME ModelCacheAssumption ==
    /\ Layers \subseteq Nat \ {0}
    /\ Intervals \subseteq Nat \ {0}
    /\ KV_CACHE_GROWTH_STEP \in Nat \ {0}
    /\ ConvKernelSize \in Nat \ {0}
    /\ MaxLength \in Nat /\ MaxInput \in Nat

Zero == "zero"      \* what a fresh buffer is filled with
NoMask == << >>

VARIABLES
    num_layers,
    architecture,       \* "transformer" or "qwen3_next"
    full_attention_interval,
    history,            \* the tokens of this context so far
    cache,              \* one cache per layer; empty until a transformer fills it
    prefix,             \* the snapshot in the prefix cache: its tokens and caches
    stage,              \* of the generation: "new", "prefilled", "decoding"
    seen                \* what each layer made of each position of the last pass

model == <<num_layers, architecture, full_attention_interval>>
modelCacheVars == <<model, history, cache, prefix, stage, seen>>

\* DecoderLayer::new; a transformer has attention layers only.
IsLinear(l) == architecture = "qwen3_next" /\ l % full_attention_interval # 0

-----------------------------------------------------------------------------
(***************************************************************************)
(* ConcatKeyValueCache                                                     *)
(***************************************************************************)

EmptyKV == [kind |-> "KV", keys |-> << >>, offset |-> 0]

Zeros(n) == [i \in 1..n |-> Zero]

GrowTokens(append_len) ==
    ((KV_CACHE_GROWTH_STEP + append_len - 1) \div KV_CACHE_GROWTH_STEP) * KV_CACHE_GROWTH_STEP

Capacity(kv) == Len(kv.keys)

\* Mutant: grows by the whole length instead of by what is appended.
GrownByRequired(kv, append_len) ==
    IF kv.offset + append_len > Capacity(kv)
    THEN SubSeq(kv.keys, 1, kv.offset) \o Zeros(GrowTokens(kv.offset + append_len))
    ELSE kv.keys

\* The buffer with room for append_len more: trimmed to what is used unless that
\* is a whole number of steps, and lengthened.
Grown(kv, append_len) ==
    IF kv.offset + append_len > Capacity(kv)
    THEN (IF kv.offset % KV_CACHE_GROWTH_STEP # 0 THEN SubSeq(kv.keys, 1, kv.offset) ELSE kv.keys)
            \o Zeros(GrowTokens(append_len))
    ELSE kv.keys

\* Slice assignment at prev..offset.
Write(keys, offset, new) ==
    [i \in DOMAIN keys |-> IF offset < i /\ i <= offset + Len(new) THEN new[i - offset] ELSE keys[i]]

\* update_and_fetch.  A slice beyond the buffer is an error.
Update(kv, new) ==
    [kv EXCEPT !.keys = Write(Grown(kv, Len(new)), kv.offset, new), !.offset = @ + Len(new)]
Fetched(kv) == SubSeq(kv.keys, 1, kv.offset)

-----------------------------------------------------------------------------
(***************************************************************************)
(* Layers                                                                  *)
(***************************************************************************)

\* create_causal_mask: row i is the query at offset + i - 1.
CausalMask(n, offset) ==
    [i \in 1..n |-> [j \in 1..(offset + n) |-> offset + i - 1 >= j - 1]]

\* What query i attends to, by column; with a mask of another width than the keys
\* the shapes do not match and there is no result.
Attended(keys, mask, i) ==
    IF mask = NoMask THEN keys
    ELSE IF Len(mask[i]) # Len(keys) THEN << >>
    ELSE [j \in {k \in DOMAIN keys : mask[i][k]} |-> keys[j]]

\* The rotary embedding at the offset of the layer's own cache.
Rope(kv, x) == [i \in DOMAIN x |-> [token |-> x[i], position |-> kv.offset + i - 1]]

Attention(kv, x, mask) ==
    LET new == Update(kv, Rope(kv, x))
    IN  [cache |-> new,
         seen  |-> [i \in DOMAIN x |-> Attended(Fetched(new), mask, i)]]

EmptyArrays == [kind |-> "Arrays", conv_state |-> Zeros(ConvKernelSize - 1),
                ssm_state |-> << >>, offset |-> 0]

Ending(s, n) == SubSeq(s, Len(s) - n + 1, Len(s))

\* The last kernel - 1 inputs, for the next pass.
Keep(conv_input) == Ending(conv_input, ConvKernelSize - 1)

\* Mutant: does not advance the offset.
DeltaNetForgetsOffset(arrays, x) ==
    LET conv_input == arrays.conv_state \o x
    IN  [cache |-> [arrays EXCEPT !.conv_state = Keep(conv_input), !.ssm_state = @ \o x],
         seen  |-> [i \in DOMAIN x |->
                        [window |-> SubSeq(conv_input, i, i + ConvKernelSize - 1),
                         state  |-> arrays.ssm_state \o SubSeq(x, 1, i)]]]

\* GatedDeltaNet: the convolution slides over the kept inputs and the new ones,
\* the state absorbs the new ones one after the other.
DeltaNet(arrays, x) ==
    LET conv_input == arrays.conv_state \o x
    IN  [cache |-> [arrays EXCEPT !.conv_state = Keep(conv_input),
                                  !.ssm_state = @ \o x,
                                  !.offset = @ + Len(x)],
         seen  |-> [i \in DOMAIN x |->
                        [window |-> SubSeq(conv_input, i, i + ConvKernelSize - 1),
                         state  |-> arrays.ssm_state \o SubSeq(x, 1, i)]]]

make_cache ==
    IF architecture = "transformer" THEN << >>
    ELSE [l \in 1..num_layers |-> IF IsLinear(l) THEN EmptyArrays ELSE EmptyKV]

\* A transformer's caches are made by its first pass.
Filled == IF cache = << >> THEN [l \in 1..num_layers |-> EmptyKV] ELSE cache

\* Mutant: the mask of a first pass, whatever the caches hold.
MaskOffsetZero == 0

\* The offset the mask is made for: of the first cache, or of the cache of the
\* first layer with full attention if the model is that deep.
MaskOffset ==
    LET first == IF architecture = "transformer" THEN 1 ELSE full_attention_interval
    IN  IF first \in DOMAIN cache THEN cache[first].offset ELSE 0

MaskFor(n) == IF n > 1 THEN CausalMask(n, MaskOffset) ELSE NoMask

\* A layer takes the path of its kind, and its cache is of the same kind.
DecoderLayer(l, x) ==
    IF IsLinear(l) THEN DeltaNet(Filled[l], x) ELSE Attention(Filled[l], x, MaskFor(Len(x)))

\* One pass of the model over x.
Forward(x) ==
    LET layer == [l \in 1..num_layers |-> DecoderLayer(l, x)]
    IN  /\ Len(history) + Len(x) <= MaxLength
        /\ cache' = [l \in 1..num_layers |-> layer[l].cache]
        /\ seen' = [l \in 1..num_layers |-> layer[l].seen]
        /\ history' = history \o x

-----------------------------------------------------------------------------
(***************************************************************************)
(* Generations, one after the other on one model                           *)
(***************************************************************************)

ModelCacheInit ==
    /\ num_layers \in Layers
    /\ \/ architecture = "transformer" /\ full_attention_interval = 1
       \/ architecture = "qwen3_next" /\ full_attention_interval \in Intervals
    /\ history = << >>
    /\ cache = make_cache
    /\ prefix = [tokens |-> << >>, cache |-> << >>]
    /\ stage = "new"
    /\ seen = << >>

\* A generation without a cached prefix.
NewGeneration ==
    /\ history' = << >>
    /\ cache' = make_cache
    /\ stage' = "new"
    /\ seen' = << >>
    /\ UNCHANGED <<model, prefix>>

\* A generation whose prompt begins with the cached prefix.
BorrowPrefix ==
    /\ prefix.tokens # << >>
    /\ history' = prefix.tokens
    /\ cache' = prefix.cache
    /\ stage' = "new"
    /\ seen' = << >>
    /\ UNCHANGED <<model, prefix>>

\* Prefill, of the prompt or of what the cached prefix leaves of it.
Prefill ==
    /\ stage = "new"
    /\ \E n \in 1..MaxInput : \E x \in [1..n -> Tokens] : Forward(x)
    /\ stage' = "prefilled"
    /\ UNCHANGED <<model, prefix>>

\* The snapshot of the prompt is stored before anything is decoded.
StorePrefix ==
    /\ stage = "prefilled"
    /\ prefix' = [tokens |-> history, cache |-> cache]
    /\ UNCHANGED <<model, history, cache, stage, seen>>

DecodeStep ==
    /\ stage \in {"prefilled", "decoding"}
    /\ \E t \in Tokens : Forward(<<t>>)
    /\ stage' = "decoding"
    /\ UNCHANGED <<model, prefix>>

ModelCacheNext == NewGeneration \/ BorrowPrefix \/ Prefill \/ StorePrefix \/ DecodeStep

ModelCacheSpec == ModelCacheInit /\ [][ModelCacheNext]_modelCacheVars
-----------------------------------------------------------------------------
\* What a layer makes of the position p (from 1) of a context in one pass over
\* the whole of it, without caches: attention sees every position up to p where
\* it stands, a linear layer the last inputs, padded, and absorbs all up to p.
WholeContext(l, p) ==
    IF IsLinear(l)
    THEN [window |-> SubSeq(Zeros(ConvKernelSize - 1) \o history, p, p + ConvKernelSize - 1),
          state  |-> SubSeq(history, 1, p)]
    ELSE [j \in 1..p |-> [token |-> history[j], position |-> j - 1]]

\* However a context is cut into borrowed prefix, prefill and decode steps, and
\* whenever the buffers grow, every layer makes of every new position what one
\* pass over the whole context would.
CachedPassIsWholePass ==
    \A l \in DOMAIN seen : \A i \in DOMAIN seen[l] :
        seen[l][i] = WholeContext(l, Len(history) - Len(seen[l]) + i)

\* All caches of a context, and of a stored prefix, are equally far: the offset
\* of the one that the mask is made for is that of all.
LayersInStep ==
    /\ \A l \in DOMAIN cache : cache[l].offset = Len(history)
    /\ \A l \in DOMAIN prefix.cache : prefix.cache[l].offset = Len(prefix.tokens)

\* Growth does not run away, although it trims only at some lengths: however
\* contexts are extended from snapshots, a buffer has less than the longest input
\* and a step more than its context needs.
BuffersBounded ==
    \A l \in DOMAIN cache :
        ~IsLinear(l) => Capacity(cache[l]) < cache[l].offset + MaxInput + KV_CACHE_GROWTH_STEP
=============================================================================

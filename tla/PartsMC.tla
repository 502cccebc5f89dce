-------------------------------- MODULE PartsMC -----------------------------
(***************************************************************************)
(* Small instances for TLC of the parts that work alone: the start of the  *)
(* program and, inside one generation, the text, the caches of the model,  *)
(* the choice of a token and the inside of a layer.  They share no         *)
(* variable; a behaviour is one of one of them, and the others rest.       *)
(***************************************************************************)
EXTENDS StartupMC, CompletionMC, ModelCache, SamplerMC, HybridLayer

VARIABLE part

partsVars == <<part, startupVars, completionVars, modelCacheVars, samplerVars, hybridVars>>

MCTokens == {a, b}

RestingStartup ==
    /\ repo = GoodRepository(Llama, FALSE)
    /\ launch = [command |-> "info", source |-> "disk", sizes_fit |-> TRUE, timeout_holds |-> TRUE]

RestingText == stop_sequences = {} /\ has_tools = FALSE
RestingCaches == num_layers = 1 /\ architecture = "transformer"
RestingSampler ==
    sampling = [temperature |-> 0, top_k |-> 0, top_p |-> 4, repetition_penalty |-> 1, by |-> "engine"]
        /\ history_tokens = << >>
RestingLayer ==
    args = [num_k_heads |-> 1, num_v_heads |-> 1, head_k_dim |-> 1, head_v_dim |-> 1,
            num_experts |-> 0, top_k |-> 0, norm_topk_prob |-> FALSE]

PartsInit ==
    /\ part \in {"startup", "text", "caches", "sampler", "layer"}
    /\ StartupInit /\ (part # "startup" => RestingStartup)
    /\ CompletionInit /\ (part # "text" => RestingText)
    /\ ModelCacheInit /\ (part # "caches" => RestingCaches)
    /\ HybridInit /\ (part # "layer" => RestingLayer)
    /\ SamplerInit /\ (part # "sampler" => RestingSampler)

Over ==
    /\ \/ part = "sampler" /\ Len(history_tokens) = MaxHistory
       \/ part = "layer" /\ at \in {"rejected", "failed", "mixed"}
    /\ UNCHANGED partsVars

PartsNext ==
    \/ part = "startup" /\ StartupNext
        /\ UNCHANGED <<part, completionVars, modelCacheVars, samplerVars, hybridVars>>
    \/ part = "text" /\ CompletionNext
        /\ UNCHANGED <<part, startupVars, modelCacheVars, samplerVars, hybridVars>>
    \/ part = "caches" /\ ModelCacheNext
        /\ UNCHANGED <<part, startupVars, completionVars, samplerVars, hybridVars>>
    \/ part = "sampler" /\ SamplerNext
        /\ UNCHANGED <<part, startupVars, completionVars, modelCacheVars, hybridVars>>
    \/ part = "layer" /\ HybridNext
        /\ UNCHANGED <<part, startupVars, completionVars, modelCacheVars, samplerVars>>
    \/ Over

PartsSpec == PartsInit /\ [][PartsNext]_partsVars
=============================================================================

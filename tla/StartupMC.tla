------------------------------ MODULE StartupMC ------------------------------
(* A good repository of each kind, and every one that differs from it in at *)
(* most two files or fields.                                                *)
EXTENDS Startup

Llama == [model_type |-> "llama", complete |-> TRUE, hidden_size |-> 4, num_attention_heads |-> 2,
          num_key_value_heads |-> 1, num_hidden_layers |-> 2, vocab_size |-> 3, head_dim |-> Absent,
          full_attention_interval |-> 1, hybrid |-> TRUE, tie_word_embeddings |-> TRUE,
          group_size |-> Absent, eos_token_id |-> {2}]

Qwen3Next == [Llama EXCEPT !.model_type = "qwen3_next", !.head_dim = 4, !.tie_word_embeddings = FALSE]

ConfigsNear(c) ==
    {c, [c EXCEPT !.model_type = "gpt5"], [c EXCEPT !.model_type = Absent], [c EXCEPT !.complete = FALSE],
     [c EXCEPT !.num_attention_heads = 0], [c EXCEPT !.num_attention_heads = 3],
     [c EXCEPT !.num_key_value_heads = 0], [c EXCEPT !.num_hidden_layers = 0], [c EXCEPT !.vocab_size = 0],
     [c EXCEPT !.full_attention_interval = 0], [c EXCEPT !.hybrid = FALSE],
     [c EXCEPT !.head_dim = 3], [c EXCEPT !.eos_token_id = Absent]}

Configs == {Absent, Broken, [Llama EXCEPT !.model_type = "qwen3"],
            [Llama EXCEPT !.group_size = 2], [Llama EXCEPT !.model_type = "qwen3", !.group_size = 2],
            [Llama EXCEPT !.group_size = 3]} \cup ConfigsNear(Llama) \cup ConfigsNear(Qwen3Next)

Embed == {<<"embed", "weight">>, <<"embed", "scales">>, <<"embed", "biases">>}
OtherTensors == {<<"proj", "weight">>, <<"proj", "scales">>, <<"proj", "biases">>, <<"proj", "bias">>,
          <<"norm", "weight">>, <<"lm_head", "weight">>}

SomeTokens == [bos_token |-> "bos", eos_token |-> Absent]
OtherTokens == [bos_token |-> "start", eos_token |-> "end"]

\* What may be under each name; the first is that of a good repository.
Contents ==
    [f \in FileNames |->
        CASE f = "config.json" -> Configs
          [] f = "model.safetensors.index.json" ->
                {Absent, Broken, {}, {"part-1.safetensors", "part-2.safetensors"}}
          [] f = "model.safetensors" -> {Absent, Broken, Embed \cup OtherTensors, OtherTensors}
          [] f = "part-1.safetensors" -> {Absent, Broken, {<<"embed", "weight">>} \cup OtherTensors, OtherTensors}
          [] f = "part-2.safetensors" -> {Absent, Embed \ {<<"embed", "weight">>}}
          [] f = "tokenizer.json" -> {Absent, Broken, "tokenizer"}
          [] f = "tokenizer_config.json" ->
                {Absent, Broken} \cup
                {[tokens |-> SomeTokens, chat_template |-> t] : t \in {Absent, Broken, "template"}}
          [] f = "special_tokens_map.json" -> {Absent, Broken, [tokens |-> OtherTokens]}
          [] f = "chat_template.jinja" -> {Absent, Broken, "jinja"}
          [] f = "README.md" -> {"readme"}]

GoodRepository(config, sharded) ==
    [f \in FileNames |->
        CASE f = "config.json" -> config
          [] f = "model.safetensors.index.json" ->
                IF sharded THEN {"part-1.safetensors", "part-2.safetensors"} ELSE Absent
          [] f = "model.safetensors" -> IF sharded THEN Absent ELSE Embed \cup OtherTensors
          [] f = "part-1.safetensors" -> IF sharded THEN {<<"embed", "weight">>} \cup OtherTensors ELSE Absent
          [] f = "part-2.safetensors" -> IF sharded THEN Embed \ {<<"embed", "weight">>} ELSE Absent
          [] f = "tokenizer.json" -> "tokenizer"
          [] f = "tokenizer_config.json" -> [tokens |-> SomeTokens, chat_template |-> "template"]
          [] f = "special_tokens_map.json" -> [tokens |-> OtherTokens]
          [] f = "chat_template.jinja" -> Absent
          [] f = "README.md" -> "readme"]

\* Names that can be changed two at a time without repeating the same repository.
Near(r) ==
    UNION {{[r EXCEPT ![f] = x, ![g] = y] : x \in Contents[f], y \in Contents[g]} :
        <<f, g>> \in {<<a, b>> \in FileNames \X FileNames : a # b /\ "config.json" \notin {a, b}}}

MCRepositories ==
    {GoodRepository(c, s) : c \in Configs, s \in BOOLEAN}
        \cup UNION {Near(GoodRepository(c, s)) :
                c \in {[Llama EXCEPT !.model_type = "qwen3", !.group_size = 2]}, s \in BOOLEAN}

MCLaunches ==
    {l \in [command : {"serve", "generate", "info"}, source : {"disk", "hub"},
            sizes_fit : BOOLEAN, timeout_holds : BOOLEAN] :
        /\ l.command = "info" => l.sizes_fit
        /\ l.command # "serve" => l.timeout_holds}

MCSiblings == <<"README.md", "chat_template.jinja", "config.json", "model.safetensors",
    "model.safetensors.index.json", "part-1.safetensors", "part-2.safetensors",
    "special_tokens_map.json", "tokenizer.json", "tokenizer_config.json">>
=============================================================================

------------------------------- MODULE Startup -------------------------------
(***************************************************************************)
(* From a model's name to an engine that serves: the three commands of     *)
(* mlx-serve/src/main.rs, model_loader, the registry, the weight loaders,  *)
(* the chat template's files and SimpleEngine::load_with_options.          *)
(*                                                                         *)
(* A repository is what a directory, or a Hugging Face repository, holds   *)
(* under each name.  A tensor is named by its module and its leaf; shapes  *)
(* and values are left out, the loaders do not look at them.  The network  *)
(* may fail at any call and the process may be killed at any point; what   *)
(* was fetched stays in the Hugging Face cache.                            *)
(***************************************************************************)
EXTENDS Naturals, Sequences, FiniteSets, Functions, SequencesExt

CONSTANTS
    Repositories,       \* functions from FileNames to what is there
    Launches,           \* the command lines
    Siblings,           \* the order in which the hub lists the files
    Absent, Broken,     \* no such file or field; a file that cannot be parsed
    NoTensor            \* a parameter as the constructor left it

WeightFiles == {"model.safetensors", "part-1.safetensors", "part-2.safetensors"}

FileNames ==
    WeightFiles \cup {"config.json", "model.safetensors.index.json", "tokenizer.json",
        "tokenizer_config.json", "special_tokens_map.json", "chat_template.jinja", "README.md"}

SpecialNames == {"bos_token", "eos_token"}

ASSUME StartupAssumption ==
    /\ \A r \in Repositories :
        /\ r = [f \in FileNames |-> r[f]]
        /\ LET index == r["model.safetensors.index.json"]
           IN  index \in {Absent, Broken} \/ index \subseteq WeightFiles
        /\ \A f \in WeightFiles :
            r[f] \in {Absent, Broken} \/ \A key \in r[f] : key = <<key[1], key[2]>>
        /\ LET c == r["config.json"]
           IN  c \in {Absent, Broken} \/ ~c.complete \/ c.model_type # "qwen3_next" \/ c.head_dim # Absent
    /\ Range(Siblings) = FileNames /\ IsInjective(Siblings)
    /\ Absent \notin {"qwen2", "qwen3", "llama", "mistral", "qwen3_next"}

VARIABLES
    repo,           \* the files, on disk or on the hub
    launch,         \* the command line of this process
    progress,       \* how far the process is
    fetched,        \* files of the repository in the Hugging Face cache
    model_dir,      \* what the process sees under the resolved path
    unread,         \* safetensors files still to load
    params,         \* for each parameter the tensor it was given
    engine,         \* what load_with_options computed beside the model
    fault           \* the environment failed this process: network, memory, port, kill

startupVars == <<repo, launch, progress, fetched, model_dir, unread, params, engine, fault>>

-----------------------------------------------------------------------------
(***************************************************************************)
(* What the files say                                                      *)
(***************************************************************************)

Readable(dir, file) == dir[file] \notin {Absent, Broken}

Config(dir) == dir["config.json"]

SupportedTypes == {"qwen2", "qwen3", "llama", "mistral", "qwen3_next"}

Index(dir) == dir["model.safetensors.index.json"]

\* The file names of the weight map if there is one, else the single file.
Shards(dir) == IF Index(dir) # Absent THEN Index(dir) ELSE {"model.safetensors"}

ListsShards(dir) ==
    IF Index(dir) # Absent THEN Index(dir) # Broken ELSE dir["model.safetensors"] # Absent

Loose(dir) == {f \in WeightFiles : dir[f] # Absent}

\* Mutant: `info' does not read the index.
InfoListsSingle(dir) == Index(dir) = Absent /\ Loose(dir) # {}

\* `info' also takes whatever safetensors files lie about.
InfoListsShards(dir) == ListsShards(dir) \/ (Index(dir) = Absent /\ Loose(dir) # {})

\* `info' parses them with another library than the loaders (safetensors, MLX); what
\* one of the two can read the other can is taken for granted (Readable).
InfoShards(dir) == IF ListsShards(dir) THEN Shards(dir) ELSE Loose(dir)

\* The constructors' own checks; `hybrid' stands for those HybridLayer has in detail.
Builds(c) ==
    IF c.model_type = "qwen3_next" THEN c.full_attention_interval > 0 /\ c.hybrid
    ELSE /\ c.vocab_size > 0 /\ c.num_hidden_layers > 0 /\ c.num_key_value_heads > 0
         /\ c.num_attention_heads # 0 /\ c.hidden_size % c.num_attention_heads = 0

Quantised(c) == c.model_type # "qwen3_next" /\ c.group_size # Absent

\* External: the modules are cut into whole groups or not at all.
Quantises(c) == Quantised(c) => c.hidden_size % c.group_size = 0

Modules(c) == {"embed", "proj"} \cup (IF c.tie_word_embeddings THEN {} ELSE {"lm_head"})

\* Parameters of the model before any tensor is loaded: quantised modules keep weight
\* and bias one level down; those of Qwen3-Next are flat, and quantised in any case.
Parameters(c) ==
    LET biased == IF c.model_type \in {"qwen2", "qwen3"} THEN {"proj"} ELSE {}
        flat == {"weight", "scales", "biases"}
    IN  {<<"norm", "weight">>} \cup
        CASE c.model_type = "qwen3_next" -> Modules(c) \X flat
          [] Quantised(c) -> Modules(c) \X {"inner.weight", "scales", "biases"} \cup biased \X {"inner.bias"}
          [] OTHER -> Modules(c) \X {"weight"} \cup biased \X {"bias"}

RemapQuantizedKey(key) ==
    CASE key[2] = "weight" -> <<key[1], "inner.weight">>
      [] key[2] = "bias" -> <<key[1], "inner.bias">>
      [] OTHER -> key

\* Mutant: the nested name first.
TargetNested(key, names, quantised) == IF quantised THEN RemapQuantizedKey(key) ELSE key

\* Where a tensor goes: the parameter of that name, else, quantised, the nested one.
Target(key, names, quantised) ==
    IF key \notin names /\ quantised THEN RemapQuantizedKey(key) ELSE key

\* config.json lists one id or several, or has no such field.
EosTokens(c) == IF c.eos_token_id = Absent THEN {} ELSE c.eos_token_id

\* Two tensors, two bytes an element.
PerToken(layers, kv_heads, head_dim) == layers * (kv_heads * head_dim * 2 * 2)

EstimateBytesPerToken(c) ==
    IF c.model_type = "qwen3_next"
    THEN PerToken(c.num_hidden_layers, c.num_key_value_heads, c.head_dim)
    ELSE PerToken(c.num_hidden_layers, c.num_key_value_heads, c.hidden_size \div c.num_attention_heads)

\* `info' works from the fields alone, and says nothing is needed where one is unusable.
EstimateKvBytesPerToken(c) ==
    IF c.head_dim # Absent THEN PerToken(c.num_hidden_layers, c.num_key_value_heads, c.head_dim)
    ELSE IF c.num_attention_heads = 0 THEN 0
    ELSE PerToken(c.num_hidden_layers, c.num_key_value_heads, c.hidden_size \div c.num_attention_heads)

\* The two files that name special tokens; the first to name one wins.
TokenFiles == <<"tokenizer_config.json", "special_tokens_map.json">>

MergeMissing(tokens, other) == [n \in SpecialNames |-> IF tokens[n] = Absent THEN other[n] ELSE tokens[n]]

SpecialTokens(dir) ==
    FoldLeft(LAMBDA tokens, f : IF Readable(dir, f) THEN MergeMissing(tokens, dir[f].tokens) ELSE tokens,
             [n \in SpecialNames |-> Absent], TokenFiles)

\* The stand-alone file if there is one, else the field of the configuration.
TemplateSource(dir) ==
    IF dir["chat_template.jinja"] # Absent THEN dir["chat_template.jinja"]
    ELSE IF Readable(dir, "tokenizer_config.json") THEN dir["tokenizer_config.json"].chat_template
    ELSE Absent

\* Mutant: the index is forgotten.
ShouldFetchNoIndex(file) ==
    file \in WeightFiles \cup {"config.json", "tokenizer.json", "tokenizer_config.json",
                               "special_tokens_map.json"}

ShouldFetchFile(file) ==
    file \in WeightFiles \cup {"config.json", "model.safetensors.index.json", "tokenizer.json",
                               "tokenizer_config.json", "special_tokens_map.json"}

-----------------------------------------------------------------------------
(***************************************************************************)
(* The process                                                             *)
(***************************************************************************)

NoEngine == [bytes_per_token |-> 0, eos |-> {}, template |-> Absent, special |-> [n \in SpecialNames |-> Absent]]

Loaded  == {"ready", "bind", "listening", "stopped", "answered"}
Ended   == {"failed", "panicked", "killed", "stopped", "answered", "described"}

Fresh ==
    /\ progress = "sizes" /\ unread = {} /\ params = <<>> /\ engine = NoEngine /\ fault = FALSE
    /\ model_dir = [f \in FileNames |-> Absent]

StartupInit ==
    /\ repo \in Repositories /\ launch \in Launches /\ fetched = {} /\ Fresh

\* A step that changes nothing but how far the process is.
Pass(from, ok, to) ==
    /\ progress = from
    /\ progress' = IF ok THEN to ELSE "failed"
    /\ UNCHANGED <<repo, launch, fetched, model_dir, unread, params, engine, fault>>

\* mib_to_bytes and kib_to_bytes, before anything is fetched.
CheckSizes == Pass("sizes", launch.command = "info" \/ launch.sizes_fit, "resolve")

AfterResolve == IF launch.command = "info" THEN "describe" ELSE "detect"

\* A path that exists is the directory itself.
ResolvePath ==
    /\ progress = "resolve" /\ launch.source = "disk"
    /\ progress' = AfterResolve /\ model_dir' = repo
    /\ UNCHANGED <<repo, launch, fetched, unread, params, engine, fault>>

EnvironmentFails ==
    /\ progress' = "failed" /\ fault' = TRUE
    /\ UNCHANGED <<repo, launch, fetched, model_dir, unread, params, engine>>

\* Api::new and repo.info, which need the network even when everything is cached.
QueryRepository ==
    /\ progress = "resolve" /\ launch.source = "hub"
    /\ \/ Pass("resolve", TRUE, "fetch")
       \/ EnvironmentFails

\* repo.get of the first sibling wanted that is not cached; when none is left, of
\* config.json, whose parent is the model directory.
Wanted == {i \in DOMAIN Siblings : LET f == Siblings[i] IN
              ShouldFetchFile(f) /\ repo[f] # Absent /\ f \notin fetched}

FetchFile ==
    /\ progress = "fetch" /\ Wanted # {}
    /\ \/ \E i \in Wanted :
            /\ \A k \in Wanted : i <= k
            /\ fetched' = fetched \cup {Siblings[i]}
            /\ UNCHANGED <<repo, launch, progress, model_dir, unread, params, engine, fault>>
       \/ EnvironmentFails

EnterSnapshot ==
    /\ progress = "fetch" /\ Wanted = {}
    /\ progress' = IF "config.json" \in fetched THEN AfterResolve ELSE "failed"
    /\ model_dir' = [f \in FileNames |-> IF f \in fetched THEN repo[f] ELSE Absent]
    /\ UNCHANGED <<repo, launch, fetched, unread, params, engine, fault>>

\* detect_model_type and is_supported.
DetectModelType ==
    Pass("detect", Readable(model_dir, "config.json") /\ Config(model_dir).model_type \in SupportedTypes, "args")

\* load_model_args, the constructor, the quantised structure, and the list of files.
BuildModel ==
    LET c == Config(model_dir)
        ok == c.complete /\ Builds(c) /\ Quantises(c) /\ ListsShards(model_dir)
    IN  /\ progress = "args"
        /\ progress' = IF ok THEN "weights" ELSE "failed"
        /\ unread' = IF ok THEN Shards(model_dir) ELSE {}
        /\ params' = IF ok THEN [p \in Parameters(c) |-> NoTensor] ELSE <<>>
        /\ UNCHANGED <<repo, launch, fetched, model_dir, engine, fault>>

\* One file of the set, in any order.  A tensor no parameter has the name of is
\* ignored, and so is a parameter no tensor has the name of.  No file holds both the
\* flat and the nested name of a tensor.
LoadShard ==
    /\ progress = "weights" /\ unread # {}
    /\ \E file \in unread :
        LET q == Quantised(Config(model_dir))
            given(p) == {key \in model_dir[file] : Target(key, DOMAIN params, q) = p}
        IN  IF ~Readable(model_dir, file)
            THEN progress' = "failed" /\ UNCHANGED <<unread, params>>
            ELSE /\ unread' = unread \ {file} /\ UNCHANGED progress
                 /\ params' = [p \in DOMAIN params |->
                                IF given(p) = {} THEN params[p] ELSE CHOOSE key \in given(p) : TRUE]
    /\ UNCHANGED <<repo, launch, fetched, model_dir, engine, fault>>

EvalModel == unread = {} /\ Pass("weights", TRUE, "embed")

\* load_quantized_embed_tokens reads the files once more for the three flat names.
LoadQuantizedEmbedTokens ==
    LET flat == {"weight", "scales", "biases"}
        found == \A l \in flat : \E f \in Shards(model_dir) : <<"embed", l>> \in model_dir[f]
        set == [p \in {RemapQuantizedKey(<<"embed", l>>) : l \in flat} |->
                    IF p[2] = "inner.weight" THEN <<"embed", "weight">> ELSE p]
    IN  /\ progress = "embed"
        /\ IF ~Quantised(Config(model_dir)) THEN progress' = "tokenizer" /\ UNCHANGED params
           ELSE IF ~found THEN progress' = "failed" /\ UNCHANGED params
           ELSE /\ progress' = "tokenizer"
                /\ params' = [p \in DOMAIN params |-> IF p \in DOMAIN set THEN set[p] ELSE params[p]]
        /\ UNCHANGED <<repo, launch, fetched, model_dir, unread, engine, fault>>

LoadTokenizer == Pass("tokenizer", Readable(model_dir, "tokenizer.json"), "template")

\* load_special_tokens first: a file it cannot parse fails the load, template or not.
LoadTemplate ==
    LET ok == /\ \A i \in DOMAIN TokenFiles : model_dir[TokenFiles[i]] # Broken
              /\ TemplateSource(model_dir) \notin {Absent, Broken}
    IN  /\ progress = "template"
        /\ progress' = IF ok THEN "measure" ELSE "failed"
        /\ engine' = IF ok THEN [engine EXCEPT !.template = TemplateSource(model_dir),
                                               !.special = SpecialTokens(model_dir)] ELSE engine
        /\ UNCHANGED <<repo, launch, fetched, model_dir, unread, params, fault>>

\* estimate_bytes_per_token, MLX's memory baseline and extract_eos_tokens.
MeasureModel ==
    /\ progress = "measure"
    /\ \/ /\ progress' = "ready"
          /\ engine' = [engine EXCEPT !.bytes_per_token = EstimateBytesPerToken(Config(model_dir)),
                                      !.eos = EosTokens(Config(model_dir))]
          /\ UNCHANGED <<repo, launch, fetched, model_dir, unread, params, fault>>
       \/ EnvironmentFails

\* build_router, where a timeout no Duration can hold panics.
BuildRouter ==
    /\ progress = "ready" /\ launch.command = "serve"
    /\ progress' = IF launch.timeout_holds THEN "bind" ELSE "panicked"
    /\ UNCHANGED <<repo, launch, fetched, model_dir, unread, params, engine, fault>>

Bind == progress = "bind" /\ (Pass("bind", TRUE, "listening") \/ EnvironmentFails)

\* A signal, after which the requests under way are let finish.
ShutDown == Pass("listening", TRUE, "stopped")

\* One prompt, one completion; either may fail.
GenerateOnce ==
    /\ progress = "ready" /\ launch.command = "generate"
    /\ Pass("ready", TRUE, "answered") \/ EnvironmentFails

\* detect_model_type (any type will do), read_config_json, scan_safetensors.
Describe ==
    /\ progress = "describe"
    /\ progress' = IF /\ Readable(model_dir, "config.json") /\ Config(model_dir).model_type # Absent
                   /\ InfoListsShards(model_dir)
                   /\ \A f \in InfoShards(model_dir) : Readable(model_dir, f)
                THEN "described" ELSE "failed"
    /\ UNCHANGED <<repo, launch, fetched, model_dir, unread, params, engine, fault>>

\* The process dies; a user starts another on the same model.
Kill ==
    /\ progress \notin Ended
    /\ progress' = "killed" /\ fault' = TRUE
    /\ UNCHANGED <<repo, launch, fetched, model_dir, unread, params, engine>>

Relaunch ==
    /\ progress \in Ended
    /\ launch' \in {l \in Launches : l.source = launch.source}
    /\ progress' = "sizes" /\ unread' = {} /\ params' = <<>> /\ engine' = NoEngine /\ fault' = FALSE
    /\ model_dir' = [f \in FileNames |-> Absent]
    /\ UNCHANGED <<repo, fetched>>

StartupNext ==
    \/ CheckSizes \/ ResolvePath \/ QueryRepository \/ FetchFile \/ EnterSnapshot
    \/ DetectModelType \/ BuildModel \/ LoadShard \/ EvalModel \/ LoadQuantizedEmbedTokens
    \/ LoadTokenizer \/ LoadTemplate \/ MeasureModel
    \/ BuildRouter \/ Bind \/ ShutDown \/ GenerateOnce \/ Describe
    \/ Kill \/ Relaunch

StartupSpec == StartupInit /\ [][StartupNext]_startupVars

-----------------------------------------------------------------------------
(***************************************************************************)
(* Properties                                                              *)
(***************************************************************************)

\* What the whole repository looks like from a model directory: the hub gives every
\* file that loading reads but the stand-alone template.
View ==
    [f \in FileNames |->
        IF launch.source = "hub" /\ f \in {"chat_template.jinja", "README.md"} THEN Absent ELSE repo[f]]

\* Says without any order which files load.
Loadable(dir) ==
    /\ Readable(dir, "config.json") /\ Readable(dir, "tokenizer.json") /\ ListsShards(dir)
    /\ \A f \in Shards(dir) : Readable(dir, f)
    /\ \A f \in {"tokenizer_config.json", "special_tokens_map.json"} : dir[f] # Broken
    /\ TemplateSource(dir) \notin {Absent, Broken}
    /\ LET c == Config(dir)
       IN  /\ c.model_type \in SupportedTypes /\ c.complete /\ Builds(c) /\ Quantises(c)
           /\ Quantised(c) =>
                {<<"embed", l>> : l \in {"weight", "scales", "biases"}}
                    \subseteq UNION {dir[f] : f \in Shards(dir)}

GaveUp == progress = "failed" /\ ~fault

\* Whether a model loads depends on what the repository holds and on nothing else: not
\* on earlier attempts, cut short at whatever file, that left a part of it in the
\* Hugging Face cache, nor on the order in which files come and are loaded.
LoadsByItsFiles ==
    launch.command # "info" =>
        /\ progress \in Loaded => Loadable(View)
        /\ GaveUp /\ launch.sizes_fit => ~Loadable(View)

\* `info', which finds the weights by code of its own (collect_safetensor_paths), can
\* describe everything the loaders can load.
InfoCoversServe == launch.command = "info" /\ GaveUp => ~Loadable(View)

\* A loaded model has a parameter left as the constructor made it only if no file of the
\* checkpoint has a tensor for it, under its own name or, quantised, its flat one
\* (remap_quantized_key), whatever shard it is in and whichever is loaded last.
TensorsReachTheirParameters ==
    progress \in Loaded =>
        LET names(p) == {p} \cup
                (IF ~Quantised(Config(View)) THEN {}
                 ELSE CASE p[2] = "inner.weight" -> {<<p[1], "weight">>}
                        [] p[2] = "inner.bias" -> {<<p[1], "bias">>}
                        [] OTHER -> {})
            stored == UNION {View[f] : f \in Shards(View)}
        IN  /\ DOMAIN params = Parameters(Config(View))
            /\ \A p \in DOMAIN params :
                IF names(p) \cap stored = {} THEN params[p] = NoTensor
                ELSE params[p] \in names(p) \cap stored

\* Doc (main.rs:44, main.rs:337): `info' estimates the memory that the model takes at
\* run time, its KV cache included.  Per token that is what the engine reserves for it
\* (two computations in two crates).
InfoEstimatesTheReservation ==
    progress \in Loaded => engine.bytes_per_token = EstimateKvBytesPerToken(Config(View))

\* Doc (model_loader.rs:103, main.rs:53): a local path or a Hugging Face repository id
\* will do; and (chat_template.rs:57) the template is taken from chat_template.jinja or
\* tokenizer_config.json.  So what loads from a directory loads from the hub.
HubLoadsLikeDisk ==
    launch.command # "info" /\ launch.sizes_fit /\ GaveUp => ~Loadable(repo)
=============================================================================

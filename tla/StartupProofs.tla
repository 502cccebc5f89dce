--------------------------- MODULE StartupProofs ---------------------------
(***************************************************************************)
(* Theorems about Startup, for any repositories, command lines and order   *)
(* of the files, whatever the network does and wherever the process is     *)
(* killed: whether a model loads depends on its files alone, every tensor  *)
(* reaches its parameter, and `info' can describe what can be loaded.      *)
(***************************************************************************)
EXTENDS Startup, TLAPS

\* What each stage of the loading finds out about a model directory.
HasType(v)    == Readable(v, "config.json") /\ Config(v).model_type \in SupportedTypes
Constructs(v) ==
    Config(v).complete /\ Builds(Config(v)) /\ Quantises(Config(v)) /\ ListsShards(v)
Reads(v)      == \A f \in Shards(v) : Readable(v, f)
Embeds(v)     ==
    Quantised(Config(v)) =>
        \A l \in {"weight", "scales", "biases"} : \E f \in Shards(v) : <<"embed", l>> \in v[f]
Tokenizes(v)  == Readable(v, "tokenizer.json")
Templates(v)  ==
    /\ \A i \in DOMAIN TokenFiles : v[TokenFiles[i]] # Broken
    /\ TemplateSource(v) \notin {Absent, Broken}

\* Together that is all it takes.
LEMMA LoadableIs ==
    ASSUME NEW v
    PROVE  Loadable(v) <=> HasType(v) /\ Constructs(v) /\ Reads(v) /\ Embeds(v) /\ Tokenizes(v)
                              /\ Templates(v)
<1>1. Templates(v) <=> /\ \A f \in {"tokenizer_config.json", "special_tokens_map.json"} : v[f] # Broken
                       /\ TemplateSource(v) \notin {Absent, Broken}
  <2>1. /\ DOMAIN TokenFiles = 1..2
        /\ TokenFiles[1] = "tokenizer_config.json" /\ TokenFiles[2] = "special_tokens_map.json"
    BY DEF TokenFiles
  <2>2. \A i : i \in 1..2 <=> i = 1 \/ i = 2
    OBVIOUS
  <2> HIDE DEF TokenFiles
  <2> QED BY <2>1, <2>2 DEF Templates
<1>2. Embeds(v) <=>
        (Quantised(Config(v)) =>
            {<<"embed", l>> : l \in {"weight", "scales", "biases"}}
                \subseteq UNION {v[f] : f \in Shards(v)})
  <2> DEFINE flat == {"weight", "scales", "biases"}
             stored == UNION {v[f] : f \in Shards(v)}
  <2>1. {<<"embed", l>> : l \in flat} \subseteq stored <=> \A l \in flat : <<"embed", l>> \in stored
    <3> HIDE DEF flat, stored
    <3> QED OBVIOUS
  <2>2. \A t : t \in stored <=> \E f \in Shards(v) : t \in v[f]
    OBVIOUS
  <2> HIDE DEF stored, flat
  <2>3. (\A l \in flat : <<"embed", l>> \in stored)
            <=> \A l \in flat : \E f \in Shards(v) : <<"embed", l>> \in v[f]
    BY <2>2
  <2> QED BY <2>1, <2>3 DEF Embeds, flat, stored
<1> QED BY <1>1, <1>2 DEF Loadable, HasType, Constructs, Reads, Tokenizes

-----------------------------------------------------------------------------
(***************************************************************************)
(* The inductive invariant                                                 *)
(***************************************************************************)

\* Stages of the loading, from each to the end.
FromMeasure   == {"measure"} \cup Loaded
FromTemplate  == {"template"} \cup FromMeasure
FromTokenizer == {"tokenizer"} \cup FromTemplate
FromEmbed     == {"embed"} \cup FromTokenizer
FromWeights   == {"weights"} \cup FromEmbed
FromArgs      == {"args"} \cup FromWeights
FromDetect    == {"detect"} \cup FromArgs

Loads == launch.command # "info"

\* The files that came are files that are there and wanted.
Fetches ==
    /\ repo \in Repositories
    /\ \A f \in fetched : f \in FileNames /\ ShouldFetchFile(f) /\ repo[f] # Absent
    /\ progress = "fetch" => launch.source = "hub"

\* The resolved path shows what the whole repository looks like.
Sees(v) ==
    /\ progress \in FromDetect => Loads /\ model_dir = v
    /\ progress = "describe" => ~Loads /\ model_dir = v

\* What has been found out by now.
Learned(v) ==
    /\ progress \in FromArgs => HasType(v)
    /\ progress \in FromWeights => Constructs(v)
    /\ progress = "weights" => unread \subseteq Shards(v)
                               /\ \A f \in Shards(v) \ unread : Readable(v, f)
    /\ progress \in FromEmbed => Reads(v)
    /\ progress \in FromTokenizer => Embeds(v)
    /\ progress \in FromTemplate => Tokenizes(v)
    /\ progress \in FromMeasure => Templates(v)

\* Nothing else makes a process give up.
GivesUp(v) == GaveUp => (Loads /\ ~launch.sizes_fit) \/ ~Loadable(v)

StartupInv == Fetches /\ Sees(View) /\ Learned(View) /\ GivesUp(View)

\* A step of a process leaves what is to be seen as it is.
LEMMA SameView == ASSUME UNCHANGED <<repo, launch>> PROVE View' = View
BY DEF View

\* Initially.
LEMMA StartupInvInit == StartupInit => StartupInv
BY DEF StartupInit, Fresh, StartupInv, Fetches, Sees, Learned, GivesUp, GaveUp, FromDetect,
       FromArgs, FromWeights, FromEmbed, FromTokenizer, FromTemplate, FromMeasure, Loaded

\* A step under which the process does not load.
LEMMA StepsAside ==
    ASSUME StartupInv, UNCHANGED repo, fetched' = fetched,
           progress' \in {"sizes", "resolve", "fetch", "failed", "panicked", "killed", "described"},
           progress' = "fetch" => launch'.source = "hub",
           (progress' = "failed" /\ ~fault') =>
               (Loads' /\ ~launch'.sizes_fit) \/ ~Loadable(View')
    PROVE  StartupInv'
<1>1. Fetches'
  BY DEF StartupInv, Fetches
<1>2. Sees(View)' /\ Learned(View)'
  BY DEF Sees, Learned, FromDetect, FromArgs, FromWeights, FromEmbed, FromTokenizer, FromTemplate,
         FromMeasure, Loaded
<1>3. GivesUp(View)'
  BY DEF GivesUp, GaveUp
<1> QED BY <1>1, <1>2, <1>3 DEF StartupInv

\* A step from one stage of the loading to another.
LEMMA StepsOn ==
    ASSUME StartupInv, UNCHANGED <<repo, launch, fetched, model_dir>>, progress \in FromDetect,
           progress' \in FromDetect, Learned(View)'
    PROVE  StartupInv'
<1>1. View' = View
  BY SameView
<1>2. Fetches' /\ Sees(View)'
  BY <1>1 DEF StartupInv, Fetches, Sees, Loads, FromDetect, FromArgs, FromWeights, FromEmbed,
              FromTokenizer, FromTemplate, FromMeasure, Loaded
<1>3. GivesUp(View)'
  BY DEF GivesUp, GaveUp, FromDetect, FromArgs, FromWeights, FromEmbed, FromTokenizer, FromTemplate,
         FromMeasure, Loaded
<1> QED BY <1>2, <1>3 DEF StartupInv

-----------------------------------------------------------------------------
(***************************************************************************)
(* One lemma for each action                                               *)
(***************************************************************************)

\* The sizes are checked.
LEMMA CheckSizesKeepsInv == ASSUME StartupInv, CheckSizes PROVE StartupInv'
BY StepsAside DEF CheckSizes, Pass, Loads

\* A directory is all there is.
LEMMA ResolvePathKeepsInv == ASSUME StartupInv, ResolvePath PROVE StartupInv'
<1>1. /\ UNCHANGED <<repo, launch, fetched>> /\ launch.source = "disk" /\ model_dir' = repo
      /\ progress' = IF Loads THEN "detect" ELSE "describe"
  BY DEF ResolvePath, AfterResolve, Loads
<1>2. repo = [f \in FileNames |-> repo[f]]
  BY StartupAssumption DEF StartupInv, Fetches
<1>3. View' = repo
  BY <1>1, <1>2 DEF View
<1>4. Fetches' /\ Sees(View)' /\ Learned(View)' /\ GivesUp(View)'
  BY <1>1, <1>3 DEF StartupInv, Fetches, Sees, Learned, GivesUp, GaveUp, Loads, FromDetect,
       FromArgs, FromWeights, FromEmbed, FromTokenizer, FromTemplate, FromMeasure, Loaded
<1> QED BY <1>4 DEF StartupInv

\* The network fails.
LEMMA EnvironmentKeepsInv == ASSUME StartupInv, EnvironmentFails PROVE StartupInv'
BY StepsAside DEF EnvironmentFails

\* The hub tells what there is.
LEMMA QueryRepositoryKeepsInv == ASSUME StartupInv, QueryRepository PROVE StartupInv'
<1>1. CASE EnvironmentFails
  BY <1>1, EnvironmentKeepsInv
<1>2. CASE launch.source = "hub" /\ Pass("resolve", TRUE, "fetch")
  BY <1>2, StepsAside DEF Pass
<1> QED BY <1>1, <1>2 DEF QueryRepository

\* A file comes.
LEMMA FetchFileKeepsInv == ASSUME StartupInv, FetchFile PROVE StartupInv'
<1>1. CASE EnvironmentFails
  BY <1>1, EnvironmentKeepsInv
<1>2. ASSUME NEW i \in Wanted, progress = "fetch", fetched' = fetched \cup {Siblings[i]},
             UNCHANGED <<repo, launch, progress, model_dir, unread, params, engine, fault>>
      PROVE  StartupInv'
  <2>1. Siblings[i] \in Range(Siblings)
    BY DEF Wanted, Range
  <2>2. Siblings[i] \in FileNames /\ ShouldFetchFile(Siblings[i]) /\ repo[Siblings[i]] # Absent
    BY <2>1, StartupAssumption DEF Wanted
  <2>3. Fetches'
    BY <1>2, <2>2 DEF StartupInv, Fetches
  <2>4. Sees(View)' /\ Learned(View)' /\ GivesUp(View)'
    BY <1>2 DEF Sees, Learned, GivesUp, GaveUp, FromDetect, FromArgs, FromWeights, FromEmbed,
                FromTokenizer, FromTemplate, FromMeasure, Loaded
  <2> QED BY <2>3, <2>4 DEF StartupInv
<1> QED BY <1>1, <1>2 DEF FetchFile

\* Everything wanted has come.
LEMMA EnterSnapshotKeepsInv == ASSUME StartupInv, EnterSnapshot PROVE StartupInv'
<1>1. /\ progress = "fetch" /\ Wanted = {} /\ launch.source = "hub"
      /\ UNCHANGED <<repo, launch, fetched, fault>>
      /\ model_dir' = [f \in FileNames |-> IF f \in fetched THEN repo[f] ELSE Absent]
      /\ progress' = IF "config.json" \in fetched THEN (IF Loads THEN "detect" ELSE "describe")
                                                 ELSE "failed"
  BY DEF EnterSnapshot, AfterResolve, StartupInv, Fetches, Loads
<1>2. View' = View
  BY <1>1, SameView
<1>3. View = [f \in FileNames |->
                  IF f \in {"chat_template.jinja", "README.md"} THEN Absent ELSE repo[f]]
  BY <1>1 DEF View
<1>4. ASSUME NEW f \in FileNames
      PROVE  (IF f \in fetched THEN repo[f] ELSE Absent) =
                (IF f \in {"chat_template.jinja", "README.md"} THEN Absent ELSE repo[f])
  <2>1. ShouldFetchFile(f) <=> f \notin {"chat_template.jinja", "README.md"}
    BY DEF ShouldFetchFile, FileNames, WeightFiles
  <2>2. PICK i \in DOMAIN Siblings : Siblings[i] = f
    BY StartupAssumption DEF Range
  <2>3. ShouldFetchFile(f) /\ repo[f] # Absent => f \in fetched
    BY <1>1, <2>2 DEF Wanted
  <2>4. f \in fetched => ShouldFetchFile(f)
    BY DEF StartupInv, Fetches
  <2> QED BY <2>1, <2>3, <2>4
<1>5. model_dir' = View
  BY <1>1, <1>3, <1>4
<1>6. "config.json" \notin fetched => ~Loadable(View)
  <2>1. "config.json" \in FileNames
    BY DEF FileNames
  <2>2. "config.json" \notin fetched => View["config.json"] = Absent
    BY <1>3, <1>4, <2>1
  <2> QED BY <2>2, LoadableIs DEF HasType, Readable
<1>7. CASE progress' = "failed"
  BY <1>1, <1>2, <1>6, <1>7, StepsAside
<1>8. CASE progress' \in {"detect", "describe"}
  <2>1. Fetches'
    BY <1>1, <1>8 DEF StartupInv, Fetches
  <2>2. Sees(View)' /\ Learned(View)' /\ GivesUp(View)'
    BY <1>1, <1>2, <1>5, <1>8 DEF Sees, Learned, GivesUp, GaveUp, Loads, FromDetect, FromArgs,
         FromWeights, FromEmbed, FromTokenizer, FromTemplate, FromMeasure, Loaded
  <2> QED BY <2>1, <2>2 DEF StartupInv
<1> QED BY <1>1, <1>7, <1>8

\* In a stage of the loading, what is known and where.
LEMMA Stage ==
    ASSUME StartupInv, progress \in FromDetect
    PROVE  /\ model_dir = View /\ Loads
           /\ progress \in FromArgs => HasType(View)
           /\ progress \in FromWeights => Constructs(View)
           /\ progress \in FromEmbed => Reads(View)
           /\ progress \in FromTokenizer => Embeds(View)
           /\ progress \in FromTemplate => Tokenizes(View)
           /\ progress \in FromMeasure => Templates(View)
BY DEF StartupInv, Sees, Learned

\* A stage gives up because of what it found.
LEMMA Refuses ==
    ASSUME StartupInv, UNCHANGED <<repo, launch, fetched>>, progress' = "failed", ~Loadable(View)
    PROVE  StartupInv'
BY SameView, StepsAside

\* The model's type is looked up.
LEMMA DetectModelTypeKeepsInv == ASSUME StartupInv, DetectModelType PROVE StartupInv'
<1>1. /\ progress = "detect" /\ progress' = IF HasType(model_dir) THEN "args" ELSE "failed"
      /\ UNCHANGED <<repo, launch, fetched, model_dir, unread, params, engine, fault>>
  BY DEF DetectModelType, Pass, HasType
<1>2. progress \in FromDetect
  BY <1>1 DEF FromDetect
<1>3. model_dir = View /\ View' = View
  BY <1>1, <1>2, Stage, SameView
<1>4. CASE ~HasType(View)
  BY <1>1, <1>3, <1>4, LoadableIs, Refuses
<1>5. CASE HasType(View)
  <2>1. progress' = "args"
    BY <1>1, <1>3, <1>5
  <2>2. Learned(View)' /\ progress' \in FromDetect
    BY <1>3, <1>5, <2>1 DEF Learned, FromDetect, FromArgs, FromWeights, FromEmbed, FromTokenizer,
         FromTemplate, FromMeasure, Loaded
  <2> QED BY <1>1, <1>2, <2>2, StepsOn
<1> QED BY <1>4, <1>5

\* The model is constructed and its weight files are listed.
LEMMA BuildModelKeepsInv == ASSUME StartupInv, BuildModel PROVE StartupInv'
<1>1. /\ progress = "args" /\ progress' = IF Constructs(model_dir) THEN "weights" ELSE "failed"
      /\ unread' = IF Constructs(model_dir) THEN Shards(model_dir) ELSE {}
      /\ UNCHANGED <<repo, launch, fetched, model_dir, engine, fault>>
  BY DEF BuildModel, Constructs
<1>2. progress \in FromDetect /\ progress \in FromArgs
  BY <1>1 DEF FromDetect, FromArgs
<1>3. model_dir = View /\ View' = View /\ HasType(View)
  BY <1>1, <1>2, Stage, SameView
<1>4. CASE ~Constructs(View)
  BY <1>1, <1>3, <1>4, LoadableIs, Refuses
<1>5. CASE Constructs(View)
  <2>1. progress' = "weights" /\ unread' = Shards(View)
    BY <1>1, <1>3, <1>5
  <2>2. Learned(View)' /\ progress' \in FromDetect
    BY <1>3, <1>5, <2>1 DEF Learned, FromDetect, FromArgs, FromWeights, FromEmbed, FromTokenizer,
         FromTemplate, FromMeasure, Loaded
  <2> QED BY <1>1, <1>2, <2>2, StepsOn
<1> QED BY <1>4, <1>5

\* A weight file is loaded.
LEMMA LoadShardKeepsInv == ASSUME StartupInv, LoadShard PROVE StartupInv'
<1>1. /\ progress = "weights"
      /\ UNCHANGED <<repo, launch, fetched, model_dir, engine, fault>>
      /\ \E file \in unread :
            IF ~Readable(model_dir, file) THEN progress' = "failed"
            ELSE unread' = unread \ {file} /\ UNCHANGED progress
  BY DEF LoadShard
<1>2. progress \in FromDetect /\ progress \in FromArgs /\ progress \in FromWeights
  BY <1>1 DEF FromDetect, FromArgs, FromWeights
<1>3. model_dir = View /\ View' = View /\ HasType(View) /\ Constructs(View)
  BY <1>1, <1>2, Stage, SameView
<1>4. unread \subseteq Shards(View) /\ \A f \in Shards(View) \ unread : Readable(View, f)
  BY <1>1 DEF StartupInv, Learned
<1>5. PICK file \in unread : IF ~Readable(model_dir, file) THEN progress' = "failed"
                             ELSE unread' = unread \ {file} /\ UNCHANGED progress
  BY <1>1
<1>6. CASE ~Readable(View, file)
  <2>1. ~Loadable(View)
    BY <1>4, <1>6, LoadableIs DEF Reads
  <2> QED BY <1>1, <1>3, <1>5, <1>6, <2>1, Refuses
<1>7. CASE Readable(View, file)
  <2>1. progress' = "weights" /\ unread' = unread \ {file}
    BY <1>1, <1>3, <1>5, <1>7
  <2>2. unread' \subseteq Shards(View) /\ \A f \in Shards(View) \ unread' : Readable(View, f)
    BY <1>4, <1>7, <2>1
  <2>3. Learned(View)' /\ progress' \in FromDetect
    BY <1>3, <2>1, <2>2 DEF Learned, FromDetect, FromArgs, FromWeights, FromEmbed, FromTokenizer,
         FromTemplate, FromMeasure, Loaded
  <2> QED BY <1>1, <1>2, <2>3, StepsOn
<1> QED BY <1>6, <1>7

\* The weights are there.
LEMMA EvalModelKeepsInv == ASSUME StartupInv, EvalModel PROVE StartupInv'
<1>1. /\ progress = "weights" /\ progress' = "embed" /\ unread = {}
      /\ UNCHANGED <<repo, launch, fetched, model_dir, unread, params, engine, fault>>
  BY DEF EvalModel, Pass
<1>2. progress \in FromDetect /\ progress \in FromArgs /\ progress \in FromWeights
  BY <1>1 DEF FromDetect, FromArgs, FromWeights
<1>3. View' = View /\ HasType(View) /\ Constructs(View)
  BY <1>1, <1>2, Stage, SameView
<1>4. Reads(View)
  BY <1>1 DEF StartupInv, Learned, Reads
<1>5. Learned(View)' /\ progress' \in FromDetect
  BY <1>1, <1>3, <1>4 DEF Learned, FromDetect, FromArgs, FromWeights, FromEmbed, FromTokenizer,
         FromTemplate, FromMeasure, Loaded
<1> QED BY <1>1, <1>2, <1>5, StepsOn

\* The embedding is read once more.
LEMMA LoadQuantizedEmbedTokensKeepsInv ==
    ASSUME StartupInv, LoadQuantizedEmbedTokens PROVE StartupInv'
<1>1. /\ progress = "embed" /\ progress' = IF Embeds(model_dir) THEN "tokenizer" ELSE "failed"
      /\ UNCHANGED <<repo, launch, fetched, model_dir, unread, engine, fault>>
  BY DEF LoadQuantizedEmbedTokens, Embeds
<1>2. /\ progress \in FromDetect /\ progress \in FromArgs /\ progress \in FromWeights
      /\ progress \in FromEmbed
  BY <1>1 DEF FromDetect, FromArgs, FromWeights, FromEmbed
<1>3. model_dir = View /\ View' = View /\ HasType(View) /\ Constructs(View) /\ Reads(View)
  BY <1>1, <1>2, Stage, SameView
<1>4. CASE ~Embeds(View)
  BY <1>1, <1>3, <1>4, LoadableIs, Refuses
<1>5. CASE Embeds(View)
  <2>1. progress' = "tokenizer"
    BY <1>1, <1>3, <1>5
  <2>2. Learned(View)' /\ progress' \in FromDetect
    BY <1>3, <1>5, <2>1 DEF Learned, FromDetect, FromArgs, FromWeights, FromEmbed, FromTokenizer,
         FromTemplate, FromMeasure, Loaded
  <2> QED BY <1>1, <1>2, <2>2, StepsOn
<1> QED BY <1>4, <1>5

\* The tokenizer is loaded.
LEMMA LoadTokenizerKeepsInv == ASSUME StartupInv, LoadTokenizer PROVE StartupInv'
<1>1. /\ progress = "tokenizer" /\ progress' = IF Tokenizes(model_dir) THEN "template" ELSE "failed"
      /\ UNCHANGED <<repo, launch, fetched, model_dir, unread, params, engine, fault>>
  BY DEF LoadTokenizer, Pass, Tokenizes
<1>2. /\ progress \in FromDetect /\ progress \in FromArgs /\ progress \in FromWeights
      /\ progress \in FromEmbed /\ progress \in FromTokenizer
  BY <1>1 DEF FromDetect, FromArgs, FromWeights, FromEmbed, FromTokenizer
<1>3. /\ model_dir = View /\ View' = View
      /\ HasType(View) /\ Constructs(View) /\ Reads(View) /\ Embeds(View)
  BY <1>1, <1>2, Stage, SameView
<1>4. CASE ~Tokenizes(View)
  BY <1>1, <1>3, <1>4, LoadableIs, Refuses
<1>5. CASE Tokenizes(View)
  <2>1. progress' = "template"
    BY <1>1, <1>3, <1>5
  <2>2. Learned(View)' /\ progress' \in FromDetect
    BY <1>3, <1>5, <2>1 DEF Learned, FromDetect, FromArgs, FromWeights, FromEmbed, FromTokenizer,
         FromTemplate, FromMeasure, Loaded
  <2> QED BY <1>1, <1>2, <2>2, StepsOn
<1> QED BY <1>4, <1>5

\* The chat template is loaded.
LEMMA LoadTemplateKeepsInv == ASSUME StartupInv, LoadTemplate PROVE StartupInv'
<1>1. /\ progress = "template" /\ progress' = IF Templates(model_dir) THEN "measure" ELSE "failed"
      /\ UNCHANGED <<repo, launch, fetched, model_dir, unread, params, fault>>
  BY DEF LoadTemplate, Templates
<1>2. /\ progress \in FromDetect /\ progress \in FromArgs /\ progress \in FromWeights
      /\ progress \in FromEmbed /\ progress \in FromTokenizer /\ progress \in FromTemplate
  BY <1>1 DEF FromDetect, FromArgs, FromWeights, FromEmbed, FromTokenizer, FromTemplate
<1>3. /\ model_dir = View /\ View' = View
      /\ HasType(View) /\ Constructs(View) /\ Reads(View) /\ Embeds(View) /\ Tokenizes(View)
  BY <1>1, <1>2, Stage, SameView
<1>4. CASE ~Templates(View)
  BY <1>1, <1>3, <1>4, LoadableIs, Refuses
<1>5. CASE Templates(View)
  <2>1. progress' = "measure"
    BY <1>1, <1>3, <1>5
  <2>2. Learned(View)' /\ progress' \in FromDetect
    BY <1>3, <1>5, <2>1 DEF Learned, FromDetect, FromArgs, FromWeights, FromEmbed, FromTokenizer,
         FromTemplate, FromMeasure, Loaded
  <2> QED BY <1>1, <1>2, <2>2, StepsOn
<1> QED BY <1>4, <1>5

\* Once all is known, a process goes on or falls to its environment.
LEMMA LoadedKeepsInv ==
    ASSUME StartupInv, UNCHANGED <<repo, launch, fetched, model_dir, fault>>,
           progress \in FromMeasure, progress' \in Loaded
    PROVE  StartupInv'
<1>1. /\ progress \in FromDetect /\ progress \in FromArgs /\ progress \in FromWeights
      /\ progress \in FromEmbed /\ progress \in FromTokenizer /\ progress \in FromTemplate
  BY DEF FromDetect, FromArgs, FromWeights, FromEmbed, FromTokenizer, FromTemplate
<1>2. /\ View' = View /\ HasType(View) /\ Constructs(View) /\ Reads(View) /\ Embeds(View)
      /\ Tokenizes(View) /\ Templates(View)
  BY <1>1, Stage, SameView
<1>3. Learned(View)' /\ progress' \in FromDetect
  BY <1>2 DEF Learned, FromDetect, FromArgs, FromWeights, FromEmbed, FromTokenizer, FromTemplate,
       FromMeasure, Loaded
<1> QED BY <1>1, <1>3, StepsOn

\* The loaded model is put to use.
LEMMA ServingKeepsInv ==
    ASSUME StartupInv, MeasureModel \/ BuildRouter \/ Bind \/ ShutDown \/ GenerateOnce
    PROVE  StartupInv'
<1>1. CASE EnvironmentFails
  BY <1>1, EnvironmentKeepsInv
<1>2. CASE BuildRouter /\ ~launch.timeout_holds
  BY <1>2, StepsAside DEF BuildRouter
<1>3. CASE ~EnvironmentFails /\ ~(BuildRouter /\ ~launch.timeout_holds)
  <2>1. /\ progress \in FromMeasure /\ progress' \in Loaded
        /\ UNCHANGED <<repo, launch, fetched, model_dir, fault>>
    BY <1>3 DEF MeasureModel, BuildRouter, Bind, ShutDown, GenerateOnce, Pass, FromMeasure, Loaded
  <2> QED BY <2>1, LoadedKeepsInv
<1> QED BY <1>1, <1>2, <1>3

\* `info' finds all that loading needs of the configuration and the weights.
LEMMA DescribeKeepsInv == ASSUME StartupInv, Describe PROVE StartupInv'
<1>1. /\ progress = "describe" /\ progress' \in {"described", "failed"}
      /\ UNCHANGED <<repo, launch, fetched, fault>>
      /\ progress' = "failed" =>
            ~ /\ Readable(model_dir, "config.json") /\ Config(model_dir).model_type # Absent
              /\ InfoListsShards(model_dir)
              /\ \A f \in InfoShards(model_dir) : Readable(model_dir, f)
  BY DEF Describe
<1>2. model_dir = View /\ View' = View
  BY <1>1, SameView DEF StartupInv, Sees
<1>3. Loadable(View) =>
        /\ Readable(View, "config.json") /\ Config(View).model_type # Absent
        /\ InfoListsShards(View)
        /\ \A f \in InfoShards(View) : Readable(View, f)
  <2>1. SupportedTypes = {"qwen2", "qwen3", "llama", "mistral", "qwen3_next"}
    BY DEF SupportedTypes
  <2> QED BY <2>1, LoadableIs, StartupAssumption
             DEF HasType, Constructs, Reads, InfoListsShards, InfoShards
<1>4. progress' = "failed" => ~Loadable(View')
  BY <1>1, <1>2, <1>3
<1> QED BY <1>1, <1>4, StepsAside

\* The process is killed, or another is started on what was left.
LEMMA RestartKeepsInv == ASSUME StartupInv, Kill \/ Relaunch PROVE StartupInv'
<1>1. CASE Kill
  BY <1>1, StepsAside DEF Kill
<1>2. CASE Relaunch
  BY <1>2, StepsAside DEF Relaunch
<1> QED BY <1>1, <1>2

\* Nothing happens.
LEMMA StutterKeepsInv == ASSUME StartupInv, UNCHANGED startupVars PROVE StartupInv'
<1>1. View' = View
  BY SameView DEF startupVars
<1> QED BY <1>1 DEF startupVars, StartupInv, Fetches, Sees, Learned, GivesUp, GaveUp, Loads

\* Every step keeps the invariant.
LEMMA StartupInvariant == StartupSpec => []StartupInv
<1>1. StartupInv /\ [StartupNext]_startupVars => StartupInv'
  <2> SUFFICES ASSUME StartupInv, [StartupNext]_startupVars PROVE StartupInv'
    OBVIOUS
  <2>1. CASE CheckSizes \/ ResolvePath \/ QueryRepository \/ FetchFile \/ EnterSnapshot
    BY <2>1, CheckSizesKeepsInv, ResolvePathKeepsInv, QueryRepositoryKeepsInv, FetchFileKeepsInv,
       EnterSnapshotKeepsInv
  <2>2. CASE \/ DetectModelType \/ BuildModel \/ LoadShard \/ EvalModel \/ LoadQuantizedEmbedTokens
             \/ LoadTokenizer \/ LoadTemplate
    BY <2>2, DetectModelTypeKeepsInv, BuildModelKeepsInv, LoadShardKeepsInv, EvalModelKeepsInv,
       LoadQuantizedEmbedTokensKeepsInv, LoadTokenizerKeepsInv, LoadTemplateKeepsInv
  <2>3. CASE MeasureModel \/ BuildRouter \/ Bind \/ ShutDown \/ GenerateOnce
    BY <2>3, ServingKeepsInv
  <2>4. CASE Describe \/ Kill \/ Relaunch \/ UNCHANGED startupVars
    BY <2>4, DescribeKeepsInv, RestartKeepsInv, StutterKeepsInv
  <2> QED BY <2>1, <2>2, <2>3, <2>4 DEF StartupNext
<1> QED BY <1>1, StartupInvInit, PTL DEF StartupSpec

-----------------------------------------------------------------------------
(***************************************************************************)
(* Tensors                                                                 *)
(***************************************************************************)

\* The names a tensor for the parameter p can have in a checkpoint.
Names(c, p) ==
    {p} \cup (IF ~Quantised(c) THEN {}
              ELSE CASE p[2] = "inner.weight" -> {<<p[1], "weight">>}
                     [] p[2] = "inner.bias" -> {<<p[1], "bias">>}
                     [] OTHER -> {})

Tensors(v, files) == UNION {v[f] : f \in files}

\* Every parameter has a tensor out of these files, if they have one for it.
Given(v, files) ==
    LET c == Config(v) IN
    /\ DOMAIN params = Parameters(c)
    /\ \A p \in Parameters(c) :
        IF Names(c, p) \cap Tensors(v, files) = {} THEN params[p] = NoTensor
        ELSE params[p] \in Names(c, p) \cap Tensors(v, files)

TensorsInv(v) ==
    /\ progress = "weights" => Given(v, Shards(v) \ unread)
    /\ progress \in FromEmbed => Given(v, Shards(v))

\* Tensors are pairs, parameters too.
LEMMA ParametersArePairs ==
    ASSUME NEW c, NEW p \in Parameters(c)
    PROVE  /\ p = <<p[1], p[2]>>
           /\ Quantised(c) =>
                /\ p[2] # "bias"
                /\ p[2] = "weight" => p[1] = "norm"
                /\ p[2] = "inner.weight" => p[1] # "norm"
<1> DEFINE biased == IF c.model_type \in {"qwen2", "qwen3"} THEN {"proj"} ELSE {}
           flat == {"weight", "scales", "biases"}
<1>1. "norm" \notin Modules(c)
  BY DEF Modules
<1>2. CASE p = <<"norm", "weight">>
  BY <1>2
<1>3. CASE c.model_type = "qwen3_next" /\ p \in Modules(c) \X flat
  BY <1>3 DEF Quantised
<1>4. CASE p \in Modules(c) \X {"inner.weight", "scales", "biases"} \cup biased \X {"inner.bias"}
  BY <1>1, <1>4
<1>5. CASE ~Quantised(c) /\ p \in Modules(c) \X {"weight"} \cup biased \X {"bias"}
  BY <1>5
<1> QED BY <1>2, <1>3, <1>4, <1>5 DEF Parameters

\* A tensor goes to the parameter whose name it has or may have.
LEMMA TargetIsNamed ==
    ASSUME NEW c, NEW p \in Parameters(c), NEW key, key = <<key[1], key[2]>>
    PROVE  Target(key, Parameters(c), Quantised(c)) = p <=> key \in Names(c, p)
<1> DEFINE P == Parameters(c)
           q == Quantised(c)
           a == key[1]
           b == key[2]
<1>1. p = <<p[1], p[2]>>
  BY ParametersArePairs
<1>2. CASE ~q
  BY <1>2 DEF Target, Names
<1>3. CASE q /\ key \in P
  <2>1. Target(key, P, q) = key
    BY <1>3 DEF Target
  <2>2. key \in Names(c, p) => key = p
    <3>1. b # "bias" /\ (b = "weight" => a = "norm")
      BY <1>3, ParametersArePairs
    <3>2. p[2] = "inner.weight" => p[1] # "norm"
      BY <1>3, ParametersArePairs
    <3>3. CASE key = <<p[1], "weight">> /\ p[2] = "inner.weight"
      BY <3>1, <3>2, <3>3
    <3>4. CASE key = <<p[1], "bias">>
      BY <3>1, <3>4
    <3> QED BY <3>3, <3>4 DEF Names
  <2>3. p \in Names(c, p)
    BY DEF Names
  <2> QED BY <2>1, <2>2, <2>3
<1>4. CASE q /\ key \notin P
  <2>1. Target(key, P, q) = RemapQuantizedKey(key) /\ key # p
    BY <1>4 DEF Target
  <2>2. CASE b = "weight"
    <3>1. RemapQuantizedKey(key) = <<a, "inner.weight">>
      BY <2>2 DEF RemapQuantizedKey
    <3>2. key \in Names(c, p) <=> p[2] = "inner.weight" /\ p[1] = a
      BY <1>4, <2>1, <2>2 DEF Names
    <3> QED BY <1>1, <2>1, <3>1, <3>2
  <2>3. CASE b = "bias"
    <3>1. RemapQuantizedKey(key) = <<a, "inner.bias">>
      BY <2>3 DEF RemapQuantizedKey
    <3>2. key \in Names(c, p) <=> p[2] = "inner.bias" /\ p[1] = a
      BY <1>4, <2>1, <2>3 DEF Names
    <3> QED BY <1>1, <2>1, <3>1, <3>2
  <2>4. CASE b \notin {"weight", "bias"}
    <3>1. RemapQuantizedKey(key) = key
      BY <2>4 DEF RemapQuantizedKey
    <3>2. key \notin Names(c, p)
      BY <1>4, <2>1, <2>4 DEF Names
    <3> QED BY <2>1, <3>1, <3>2
  <2> QED BY <2>2, <2>3, <2>4
<1> QED BY <1>2, <1>3, <1>4

\* The shards of a model are files of tensors.
LEMMA ShardsArePairs ==
    ASSUME StartupInv, ListsShards(View), NEW f \in Shards(View), Readable(View, f)
    PROVE  \A key \in View[f] : key = <<key[1], key[2]>>
<1>1. repo \in Repositories
  BY DEF StartupInv, Fetches
<1>2. f \in WeightFiles
  <2>1. View["model.safetensors.index.json"] = repo["model.safetensors.index.json"]
    BY DEF View, FileNames
  <2> QED BY <1>1, <2>1, StartupAssumption DEF ListsShards, Shards, Index, WeightFiles
<1>3. View[f] = repo[f]
  BY <1>2 DEF View, FileNames, WeightFiles
<1> QED BY <1>1, <1>2, <1>3, StartupAssumption DEF Readable

\* A file is loaded into the parameters it has tensors for.
LEMMA ShardGives ==
    ASSUME StartupInv, TensorsInv(View), LoadShard, progress' = "weights"
    PROVE  Given(View, Shards(View) \ unread)'
<1> DEFINE c == Config(View)
           P == Parameters(c)
           q == Quantised(c)
           given(f, p) == {key \in View[f] : Target(key, P, q) = p}
<1>1. progress = "weights" /\ UNCHANGED <<repo, launch>>
  BY DEF LoadShard
<1>2. progress \in FromDetect /\ progress \in FromWeights
  BY <1>1 DEF FromDetect, FromArgs, FromWeights
<1>3. model_dir = View /\ View' = View /\ ListsShards(View)
  BY <1>1, <1>2, Stage, SameView DEF Constructs
<1>4. unread \subseteq Shards(View) /\ Given(View, Shards(View) \ unread)
  BY <1>1 DEF StartupInv, Learned, TensorsInv
<1>5. DOMAIN params = P
  BY <1>4 DEF Given
<1>6. PICK file \in unread :
        /\ Readable(View, file) /\ unread' = unread \ {file}
        /\ params' = [p \in P |-> IF given(file, p) = {} THEN params[p]
                                  ELSE CHOOSE key \in given(file, p) : TRUE]
  BY <1>3, <1>5 DEF LoadShard
<1> DEFINE old == Shards(View) \ unread
           new == Shards(View) \ unread'
<1>7. \A t : t \in Tensors(View, new) <=> t \in Tensors(View, old) \/ t \in View[file]
  <2>1. new = old \cup {file}
    BY <1>4, <1>6
  <2> HIDE DEF new, old
  <2> QED BY <2>1 DEF Tensors
<1>8. ASSUME NEW p \in P
      PROVE  IF Names(c, p) \cap Tensors(View, new) = {} THEN params'[p] = NoTensor
             ELSE params'[p] \in Names(c, p) \cap Tensors(View, new)
  <2>1. \A key \in View[file] : key = <<key[1], key[2]>>
    BY <1>3, <1>4, <1>6, ShardsArePairs
  <2>2. \A key : key \in given(file, p) <=> key \in View[file] /\ key \in Names(c, p)
    BY <2>1, TargetIsNamed
  <2>3. params'[p] = IF given(file, p) = {} THEN params[p] ELSE CHOOSE key \in given(file, p) : TRUE
    BY <1>6
  <2>4. IF Names(c, p) \cap Tensors(View, old) = {} THEN params[p] = NoTensor
        ELSE params[p] \in Names(c, p) \cap Tensors(View, old)
    BY <1>4 DEF Given
  <2> HIDE DEF old, new, given, c, P
  <2>5. CASE given(file, p) = {}
    <3>1. Names(c, p) \cap Tensors(View, new) = Names(c, p) \cap Tensors(View, old)
      BY <1>7, <2>2, <2>5
    <3> QED BY <2>3, <2>4, <2>5, <3>1
  <2>6. CASE given(file, p) # {}
    <3>1. params'[p] \in given(file, p)
      BY <2>3, <2>6
    <3> QED BY <1>7, <2>2, <3>1
  <2> QED BY <2>5, <2>6
<1>9. DOMAIN params' = P
  BY <1>6
<1> QED BY <1>3, <1>8, <1>9 DEF Given

\* The embedding gets its tensors once more.
LEMMA EmbeddingGives ==
    ASSUME StartupInv, TensorsInv(View), LoadQuantizedEmbedTokens, progress' = "tokenizer"
    PROVE  Given(View, Shards(View))'
<1> DEFINE c == Config(View)
           P == Parameters(c)
           flat == {"weight", "scales", "biases"}
           set == [p \in {RemapQuantizedKey(<<"embed", l>>) : l \in flat} |->
                     IF p[2] = "inner.weight" THEN <<"embed", "weight">> ELSE p]
<1>1. progress = "embed" /\ UNCHANGED <<repo, launch>>
  BY DEF LoadQuantizedEmbedTokens
<1>2. progress \in FromDetect /\ progress \in FromEmbed
  BY <1>1 DEF FromDetect, FromArgs, FromWeights, FromEmbed
<1>3. model_dir = View /\ View' = View /\ Given(View, Shards(View))
  BY <1>1, <1>2, Stage, SameView DEF TensorsInv
<1>4. DOMAIN params = P
  BY <1>3 DEF Given
<1>5. CASE ~Quantised(c)
  BY <1>3, <1>5 DEF LoadQuantizedEmbedTokens, Given
<1>6. CASE Quantised(c)
  <2>1. /\ \A l \in flat : \E f \in Shards(View) : <<"embed", l>> \in View[f]
        /\ params' = [p \in P |-> IF p \in DOMAIN set THEN set[p] ELSE params[p]]
    BY <1>3, <1>4, <1>6 DEF LoadQuantizedEmbedTokens
  <2>2. \A l \in flat : <<"embed", l>> \in Tensors(View, Shards(View))
    BY <2>1 DEF Tensors
  <2>3. ASSUME NEW p \in P, p \in DOMAIN set
        PROVE  params'[p] \in Names(c, p) \cap Tensors(View, Shards(View))
    <3>1. PICK l \in flat : p = RemapQuantizedKey(<<"embed", l>>)
      BY <2>3
    <3>2. params'[p] = IF p[2] = "inner.weight" THEN <<"embed", "weight">> ELSE p
      BY <2>1, <2>3
    <3>3. CASE l = "weight"
      <4>1. p = <<"embed", "inner.weight">>
        BY <3>1, <3>3 DEF RemapQuantizedKey
      <4> QED BY <1>6, <2>2, <3>2, <4>1 DEF Names
    <3>4. CASE l \in {"scales", "biases"}
      <4>1. p = <<"embed", l>>
        BY <3>1, <3>4 DEF RemapQuantizedKey
      <4> QED BY <2>2, <3>2, <3>4, <4>1 DEF Names
    <3> QED BY <3>3, <3>4
  <2>4. ASSUME NEW p \in P, p \notin DOMAIN set
        PROVE  params'[p] = params[p]
    BY <2>1, <2>4
  <2>5. DOMAIN params' = P
    BY <2>1
  <2> HIDE DEF set, c, P
  <2>6. ASSUME NEW p \in P
        PROVE  IF Names(c, p) \cap Tensors(View, Shards(View)) = {} THEN params'[p] = NoTensor
               ELSE params'[p] \in Names(c, p) \cap Tensors(View, Shards(View))
    BY <1>3, <2>3, <2>4 DEF Given, c, P
  <2> QED BY <1>3, <2>5, <2>6 DEF Given, c, P
<1> QED BY <1>5, <1>6

\* A step that loads no tensor.
LEMMA TensorsStay ==
    ASSUME StartupInv, TensorsInv(View), UNCHANGED <<repo, launch, params>>,
           progress' \in FromEmbed => progress \in FromEmbed,
           progress' = "weights" => progress = "weights" /\ UNCHANGED unread
    PROVE  TensorsInv(View)'
<1>1. View' = View
  BY SameView
<1> QED BY <1>1 DEF TensorsInv, Given

\* A step under which no tensor is loaded any more.
LEMMA TensorsAside ==
    ASSUME progress' \notin FromEmbed \cup {"weights"}
    PROVE  TensorsInv(View)'
BY DEF TensorsInv, FromEmbed, FromTokenizer, FromTemplate, FromMeasure, Loaded

\* Every step keeps the tensors where they belong.
LEMMA TensorsStep ==
    ASSUME StartupInv, TensorsInv(View), [StartupNext]_startupVars
    PROVE  TensorsInv(View)'
<1> USE DEF FromEmbed, FromTokenizer, FromTemplate, FromMeasure, Loaded
<1>1. CASE CheckSizes \/ ResolvePath \/ QueryRepository \/ FetchFile \/ EnterSnapshot \/ DetectModelType
  <2>1. progress' \notin FromEmbed \cup {"weights"}
    BY <1>1 DEF CheckSizes, ResolvePath, QueryRepository, FetchFile, EnterSnapshot, DetectModelType,
                EnvironmentFails, Pass, AfterResolve
  <2> QED BY <2>1, TensorsAside
<1>2. CASE BuildModel /\ progress' = "weights"
  <2>1. /\ progress = "args" /\ UNCHANGED <<repo, launch>>
        /\ unread' = Shards(model_dir)
        /\ params' = [p \in Parameters(Config(model_dir)) |-> NoTensor]
    BY <1>2 DEF BuildModel
  <2>2. model_dir = View /\ View' = View
    BY <2>1, Stage, SameView DEF FromDetect, FromArgs
  <2>3. Tensors(View, Shards(View) \ unread') = {}
    BY <2>1, <2>2 DEF Tensors
  <2>4. Given(View, Shards(View) \ unread)'
    BY <2>1, <2>2, <2>3 DEF Given
  <2> QED BY <1>2, <2>4 DEF TensorsInv
<1>3. CASE BuildModel /\ progress' # "weights"
  <2>1. progress' = "failed"
    BY <1>3 DEF BuildModel
  <2> QED BY <2>1, TensorsAside
<1>4. CASE LoadShard
  <2>1. progress' \in {"weights", "failed"}
    BY <1>4 DEF LoadShard
  <2>2. CASE progress' = "weights"
    BY <1>4, <2>2, ShardGives DEF TensorsInv
  <2> QED BY <2>1, <2>2, TensorsAside
<1>5. CASE EvalModel
  <2>1. progress = "weights" /\ progress' = "embed" /\ unread = {} /\ UNCHANGED <<repo, launch, params>>
    BY <1>5 DEF EvalModel, Pass
  <2>2. View' = View /\ Given(View, Shards(View))
    <3>1. Shards(View) \ unread = Shards(View)
      BY <2>1
    <3> QED BY <2>1, <3>1, SameView DEF TensorsInv
  <2>3. Given(View, Shards(View))'
    BY <2>1, <2>2 DEF Given
  <2> QED BY <2>1, <2>3 DEF TensorsInv
<1>6. CASE LoadQuantizedEmbedTokens
  <2>1. progress' \in {"tokenizer", "failed"}
    BY <1>6 DEF LoadQuantizedEmbedTokens
  <2>2. CASE progress' = "tokenizer"
    BY <1>6, <2>2, EmbeddingGives DEF TensorsInv
  <2> QED BY <2>1, <2>2, TensorsAside
<1>7. CASE \/ LoadTokenizer \/ LoadTemplate \/ MeasureModel \/ BuildRouter \/ Bind \/ ShutDown
           \/ GenerateOnce \/ Describe
  <2>1. /\ UNCHANGED <<repo, launch, params>> /\ progress' # "weights"
        /\ progress' \in FromEmbed => progress \in FromEmbed
    BY <1>7 DEF LoadTokenizer, LoadTemplate, MeasureModel, BuildRouter, Bind, ShutDown, GenerateOnce,
                Describe, Pass, EnvironmentFails
  <2> QED BY <2>1, TensorsStay
<1>8. CASE Kill \/ Relaunch
  <2>1. progress' \in {"killed", "sizes"}
    BY <1>8 DEF Kill, Relaunch
  <2> QED BY <2>1, TensorsAside
<1>9. CASE UNCHANGED startupVars
  BY <1>9, TensorsStay DEF startupVars
<1> QED BY <1>1, <1>2, <1>3, <1>4, <1>5, <1>6, <1>7, <1>8, <1>9 DEF StartupNext

-----------------------------------------------------------------------------
(***************************************************************************)
(* The properties                                                          *)
(***************************************************************************)

\* Whatever was fetched before, in whatever order files are listed and weights are
\* loaded, and wherever earlier processes died, a model loads if and only if its files
\* are those of a model (model_loader.rs, SimpleEngine::load_with_options).
THEOREM LoadingCorrect == StartupSpec => []LoadsByItsFiles
<1>1. StartupInv => LoadsByItsFiles
  <2> SUFFICES ASSUME StartupInv, Loads
               PROVE  /\ progress \in Loaded => Loadable(View)
                      /\ GaveUp /\ launch.sizes_fit => ~Loadable(View)
    BY DEF LoadsByItsFiles, Loads
  <2>1. ASSUME progress \in Loaded PROVE Loadable(View)
    <3>1. /\ progress \in FromMeasure /\ progress \in FromTemplate /\ progress \in FromTokenizer
          /\ progress \in FromEmbed /\ progress \in FromWeights /\ progress \in FromArgs
          /\ progress \in FromDetect
      BY <2>1 DEF FromMeasure, FromTemplate, FromTokenizer, FromEmbed, FromWeights, FromArgs,
                  FromDetect
    <3> QED BY <3>1, Stage, LoadableIs
  <2>2. GaveUp /\ launch.sizes_fit => ~Loadable(View)
    BY DEF StartupInv, GivesUp
  <2> QED BY <2>1, <2>2
<1> QED BY <1>1, StartupInvariant, PTL

\* `info' does not give up on a model that the loaders load, although it looks for the
\* weights by code of its own (collect_safetensor_paths).
THEOREM InfoCorrect == StartupSpec => []InfoCoversServe
<1>1. StartupInv => InfoCoversServe
  BY DEF StartupInv, GivesUp, InfoCoversServe, Loads
<1> QED BY <1>1, StartupInvariant, PTL

\* Whatever shard a tensor is in, and whichever is loaded last, a loaded model has it in
\* its parameter, under its own or its flat name (load_safetensors_weights,
\* load_quantized_embed_tokens); a parameter is left as made only if there is no tensor.
THEOREM TensorsCorrect == StartupSpec => []TensorsReachTheirParameters
<1>1. StartupInit => TensorsInv(View)
  BY DEF StartupInit, Fresh, TensorsInv, FromEmbed, FromTokenizer, FromTemplate, FromMeasure, Loaded
<1>2. StartupInv /\ TensorsInv(View) /\ [StartupNext]_startupVars => TensorsInv(View)'
  BY TensorsStep
<1>3. TensorsInv(View) => TensorsReachTheirParameters
  <2> SUFFICES ASSUME Given(View, Shards(View))
               PROVE  TensorsReachTheirParameters
    BY DEF TensorsInv, TensorsReachTheirParameters, FromEmbed, FromTokenizer, FromTemplate, FromMeasure
  <2> QED BY DEF Given, Names, Tensors, TensorsReachTheirParameters
<1> QED BY <1>1, <1>2, <1>3, StartupInvariant, PTL DEF StartupSpec
=============================================================================

# mlx-serve: models, checks and proofs

TLA+ models of the control logic of mlx-serve, an OpenAI-compatible inference
server for MLX (Rust). Line numbers refer to the files under `src/`.

## 1. Inventory

The program is started by one of three commands (mlx-serve/src/main.rs), which
resolves a model's name to a directory, loads the model and serves, answers one
prompt, or describes the files. Requests flow downwards; every arrow is a call, and
the generation runs in a thread of its own.

    HTTP client
      | request / SSE stream              routes/chat.rs, routes/completions.rs
      v
    router, timeout layer, rate limit     mlx-server/src/lib.rs
      | handler future
      v
    admission controller                  mlx-server/src/backpressure.rs
      | run permit
      v
    spawn_blocking -> SimpleEngine        mlx-engine/src/simple.rs
      |   model mutex                     | manager mutex
      v                                   v
    model and KV caches                   PromptCacheManager
    mlx-models                            mlx-engine/src/prompt_cache.rs

| Component | State | Operations | Hard behaviour | What makes it correct |
|---|---|---|---|---|
| Prompt cache manager | prefix entries (tokens, pages, bytes, pins, last access), active requests, free pages | begin_request, finish_request, store_prefix, clear_prefixes, stats | calls of many generations in any order, eviction under pressure, calls that fail half-way, hash collisions | pages conserved and held once; a borrowed entry stays; LRU; reservations cover the estimate |
| SimpleEngine | model mutex (and its poison flag), manager mutex, per generation: reservation, KV cache, tokens, channel | prepare_generation, run_prefill, decode loop, blocking_send, RequestLease drop, clear_runtime_cache | interleaved generations, blocking inside a mutex, errors and panics, slow or vanished readers | own tokens in own KV cache, reservation exactly as long as the generation, locks released, no circular wait |
| Admission controller | two semaphores and their waiters | try_queue, wait_for_run, permit drops | futures dropped while they wait, with a permit possibly assigned | permits conserved, no idle run slot, FIFO progress |
| Generation routes | handler futures, stream bodies, join handles | chat_completions, completions, SSE streams | timeouts and disconnects at any await, generations that survive their handler | slots come back, answers match outcomes, [DONE] last |
| Error mapping | none | engine error to status | substring match on messages | refusals are 503, the rest 500 |
| Debug routes | none | memory, cache clear | clear while generations run | (manager and engine properties) |
| Rate limiter, auth, CORS | library state | middleware | none of this code's own | what it turns away does not reach a handler |
| Command line, model loader | files resolved, files in the Hugging Face cache, weight files still to load, parameters | resolve, fetch, detect, construct, load shards, tokenizer, template, measure, bind, shut down; info | network failures, kills and restarts half-way, files in any order, two implementations of the same question (info and the loaders) | what loads depends on the files alone; every tensor gets to its parameter; info agrees with the loaders |
| KV caches, masks, layers | per layer: key/value buffers and offset, or convolution and recurrent state and offset | update_and_fetch, create masks, forward | growth in steps around an offset, one mask for many caches, contexts continued from snapshots | every layer makes of a position what one pass over the whole context would |
| Stop window, text emission | generated text, window, emitted length | append, check, truncate, emit | stop sequences across tokens, inside tokens, overlapping | a stop sequence at the end is found; the cut is before one; stream and answer agree |
| Tool-call parser | none | parse_tool_calls | nested, unclosed, malformed, cut-off blocks | no call and no text lost |
| Heads and experts of Qwen3-Next | the columns of one pass, the router's choice | reshape, split, repeat, top-k, weighted sum | geometries that do not divide, two loops over tokens and choices | heads meet their own columns; each token mixes its own best experts |
| Sampling | history of tokens | penalty, top-k, top-p, greedy, draw; on host, on device, in the library | ties, signs, thresholds, repeated tokens | the penalty keeps the order; the cuts leave the top and no more |
| Server configuration, API types, routes without state, facade, bindings | none | | | sections 7 and 8 |

Shared state is the engine's two mutexes, the two semaphores, and one bounded
channel per stream. The manager mutex is a leaf: nobody takes another lock while
holding it, so each manager call is one atomic step. The model mutex is held from
prefill to the end of a generation, over the manager calls and the channel sends.

## 2. Modules

| Module | Models | Notes |
|---|---|---|
| `PagePool` | abstract: pages are leased, cached or free | what the manager promises about memory |
| `PromptCache` | `PromptCacheManager` | one action per outcome of each call |
| `PromptCacheProofs` | theorems about `PromptCache`: pages, pins, leases; order, limit, page counts; counters | section 6 |
| `Engine` | `SimpleEngine` with threads, EXTENDS `PromptCache` | one action per step between locks |
| `EngineProofs` | theorems about `Engine` | section 6 |
| `DecodeLock` | abstract: tasks decode one at a time | what the engine promises the server |
| `Backpressure` | `BackpressureController`, tickets, permits | tokio's semaphore from its use |
| `Server` | handlers, timeouts, streams, EXTENDS `Backpressure`, uses `DecodeLock` | the life of a request |
| `ServerProofs` | theorems about `Backpressure` and about `Server`, which EXTENDS it | section 6 |
| `StopWindow` | the text of a generation, stop sequences, stream fragments | pure text; which tokens come is open |
| `ToolParser` | `parse_tool_calls` | one action per branch of the loop |
| `Completion` | the answer of the chat route, EXTENDS `StopWindow` and `ToolParser` | text, then tool calls, then the message |
| `CompletionProofs` | theorems about `StopWindow`, `ToolParser` and `Completion` | section 6 |
| `ModelCache` | KV and recurrent caches, masks, layers of both architectures | what flows where, without the arithmetic |
| `HybridLayer` | heads and experts inside a layer of Qwen3-Next | what `ModelCache` takes as one value per position |
| `ModelProofs` | theorems about `ModelCache` and `HybridLayer` | section 6 |
| `Sampler` | `sample_token_id` on host and device, the library's `sample` | scores are integers |
| `SamplerProofs` | theorems about `Sampler` | section 6 |
| `Startup` | the three commands, resolving, fetching, loading | a repository is what is under each file name |
| `StartupProofs` | theorems about `Startup` | section 6 |
| `FoldProofs` | lemmas about sums, folds and flattened sequences, for all the proof modules | section 6 |
| `PartsMC` | `Startup`, `Completion`, `ModelCache`, `Sampler` and `HybridLayer` side by side | they share no variable and a behaviour is one of one of them |
| `*MC` | small instances | constants for TLC |

How state corresponds to code:

* `PromptCache`: `entries`, `active_requests`, `free_pages` are the fields of the
  same names; `older` is the order that `last_accessed` induces; `free_pages` is a
  set, so which page of the stack is taken is open. The `evict_lru_prefix` loops
  are one step that removes exactly the victims the loop would (`Evicts`: oldest
  first, each while room was lacking). `BeginOverBudget`, `BeginOverRuntimeBudget`,
  `BeginNoPages` and `BeginAdmitted` are the returns of `begin_request`;
  `StoreSkipped`, `StoreReplaced`, `StoreInserted` and `StoreGivesUp` those of
  `store_prefix`.
* `Engine`: `stage[t]` is where a blocking-pool thread is, `gen[t]` its locals,
  `snapshot[k]` the KV cache of an entry, `model_holder` and `model_poisoned` the
  model mutex, `channel[t]` the mpsc channel of a stream. The stage "admission" is
  between reading the active memory and locking the manager, so the reading can be
  stale. A request for no tokens returns before it reserves anything (simple.rs:519), so
  `MaxTokens` leaves zero out; `Server` has it.
* `Backpressure`: `queue_slots` and `run_slots` are what the semaphores have left,
  `run_queue` and `run_permits` the waiters and holders of the run slot, `place`
  the code position of each request. A `RunPermit` drops its two permits in two
  steps, in declaration order.
* `Server`: `handler[c]` is the handler future or the stream body; `Timeout` and
  `HangUp` drop it at an await; `phase[c]` and `result[c]` are the spawned
  generation, which is not dropped with it. `request[c]` has what a handler branches
  on (stream, tools, known model, what is wrong with the prompt); `Defect` is the
  order in which it is found out. A `max_tokens` of zero spawns a generation that
  answers without the model lock. `uncleared` are the generations since the runtime
  caches were last cleared, which a failing clear may leave.
* `StopWindow`: the variables are the locals of `generate_with_sampling` and
  `generate_streaming_with_sampling`, which sample and check alike but decode
  differently: a stream, and a complete answer with stop sequences, decodes token by
  token; a complete answer without stop sequences decodes all tokens at once. `text` is
  what the one returns and `sent` the concatenation of what the other has sent.
  `Decode` is what the tokenizer makes of a sequence of ids, and need not be what it
  makes of them one by one. A string is a
  sequence of characters; every byte length the code cuts at is the length of a
  prefix or suffix of the string it cuts, so no cut falls inside a character.
* `ToolParser`: `remaining`, `result_text`, `tool_calls` are the locals of
  `parse_tool_calls`. A tag is one character; which strings are the JSON of a call is
  a parameter.
* `ModelCache`: `cache` is `AnyCache`, with one record per layer; an array holds the
  tokens its columns were computed from (with the rotary position), so a wrong column,
  position, mask or state shows as a wrong token. `seen` is what the last pass made of
  its positions. `stage` and `prefix` are the order of one generation's calls in
  `simple.rs` and the entry it leaves; concurrent use of entries is `Engine`'s matter.
* `HybridLayer`: a column of a projection is named by part, head and place, and an array
  is its last axis in row-major order, so a wrong reshape, split or repeat shows as a
  wrong name. Dimensions of zero, which the code does not refuse and no checkpoint
  has, are left out. `gates`, `top_inds` and `mixture` are the router's weights, the indices
  argpartition returns and the sum that the two loops of the mixture build up.
* `Sampler`: `scores` and `weights` are the vectors after the penalty and after the cuts.
  A score is an integer and a probability an integer weight; `Exp` is any growing
  function. A draw is any token it can fall on, the edges of the running sum included.
* `Startup`: `progress` is the code position of the process, `fetched` the Hugging Face
  cache (the only state that survives a process), `model_dir` what the resolved path
  shows, `params` for each parameter the tensor it was given. A step that fetches,
  measures or binds may fail for reasons outside (`fault`); `Kill` may come anywhere and
  `Relaunch` starts any command line on what was left. Weight files are loaded in any
  order, as iterating over the HashSet of an index's entries gives them. `info` reads them
  with the safetensors crate and the loaders with MLX; `Readable` stands for both parsers,
  so a file that only one of them accepts is not seen.

## 3. Runs

| Run | Instance | Shows |
|---|---|---|
| `cache_safety` | 3 requests, 5 pages of 3 bytes, 5 prompts in two prefix chains, 3 entries | the manager's invariants, LRU eviction, exclusive leases, consistent counters, refinement of `PagePool` |
| `cache_idle_clear` | same | *violation*: a refused request leaves its pin (finding 1) |
| `engine` | 2 threads, 2 ids, 2 pages of 4 tokens, prompts a and ab, fair threads | KV caches and snapshots hold the right tokens, every running generation is reserved, stays within its estimate, and every reservation is owned, refinement of `DecodeLock`; once callers stop, everything returns |
| `engine_retry` | 2 threads, prompts a and b, 4 pages | *violation*: a fitting request is refused for ever (finding 2) |
| `server_safety` | 3 requests of 3 kinds, 2 slots, channel of 1, 2 outputs | slots conserved and given back, nobody in line while the run slot is free, answers final, [DONE] complete |
| `server_liveness` | 3 requests in mixes of 9 kinds, 3 slots | every request ends, every generation returns, every slot comes back; who waits and does not give up gets to run |
| `server_generations` | 3 requests of 3 kinds, 2 slots, without clears | *violation*: more generations than the controller allows (finding 3) |
| `completion_stop` | 9 tokens of 0 to 3 characters, 5 tokens long, 5 sets of stop sequences, with and without tools | *violation*: a stop sequence inside a token is missed (finding 4) |
| `parts` | `PartsMC`: the instances below | each part by itself: loading, text and tool calls, caches and layers, sampling, heads and experts |
| `startup_hub` | the instance of `Startup` in `parts` | *violation*: a template file that the hub has is not fetched (finding 5) |
| `startup_estimate` | the instance of `Startup` in `parts` | *violation*: info and the engine differ on the bytes per token (finding 7) |
| `sampling_nucleus` | the instance of `Sampler` in `parts` | *violation*: top-p keeps one token (finding 6) |

The instances in `parts`:

* Text: as `completion_stop`. The decoder strips a space at the beginning of what it is
  given, as those of the SentencePiece family do; two tokens end the sequence, of which
  one is special and has no text.
* Caches: both architectures, 1 or 2 layers, intervals 1 and 2, growth steps of 2,
  kernel 3, contexts of 6, inputs of 3.
* Sampling: 3 tokens with scores of -4, 0 and 4, histories of up to 2 tokens, every
  combination of temperature, top-k (none, 2), top-p (0, 1/2, 3/4, 1), penalty (none, 2).
* Layer: 0 to 4 key and value heads of 1 or 2 columns, 0 or 3 experts, 0, 2 or 4 per
  token, weights 1 and 2, 2 tokens.
* Loading: a good repository of each kind (plain, sharded, quantised, hybrid), and each
  of these that differs in one field of its configuration or, for one quantised kind, in
  up to two files (missing, unreadable, or other content); every command from disk and
  from the hub.

Bounds. `MaxPins` bounds pin counts, which refused requests can drive up without
limit (finding 1). `Requests` bounds concurrent reservations; an engine thread
calls only if an id and a pin are left for everyone in admission. `ObservedBytes`
are the memory readings of the manager run: one that admits and one that refuses;
in `Engine` the reading is computed. `MaxOutputs` bounds the outputs of a stream.
Five pages of three bytes are enough for two requests and two prefixes at once, for
rounding up, for pressure that evicts some entries and for pressure that no
eviction relieves; three entries against four cacheable prompts reach the entry
limit; MaxTokens 12 exceeds the capacity for some prompts. Two threads are enough
for every pair of engine steps to interleave; three clients on two slots put one
request inside, one in line and one outside, and on three slots one inside and two in
line, so that one can give up ahead of the other. `MCInit` gives the three clients of the
liveness run mixes in which each of the nine kinds of request occurs, with the streams and
generations that meet in a slot; all combinations of all kinds would take TLC too long. Five tokens are more than the three
characters of the longest stop sequence, so the window slides, and one of them can
open, one fill and one close a tool call with text before and after. Steps of two and
inputs of up to three make the buffers grow by one and by two steps, from offsets that
are and are not whole numbers of steps; a kernel of three reaches over two passes; a
context of six is a prefix, a prefill on top and decode steps; two layers and
intervals of one and two give all-attention, mixed and (one layer, interval two)
all-linear models, the last of which has no cache to take the mask's offset from.
Scores on both sides of zero give ties, cuts next to a tie and penalties of either sign;
head counts of which some divide one another and
some do not reach both branches of the repeat and the reshape that fails. Two changes at
a time reach every pair of a file that is missing and the one that could stand in for it
(index and single file, the two token files, template file and field).

Five modules run side by side in `parts` because they share no variable: the states of
the run are those of the five instances added up, not multiplied. The two engine
instances keep two threads because a third adds no kind of interleaving: the model lock
lets one in, and the manager's calls are atomic; what holds for more is proved.

## 4. Fairness

* Engine threads: weak fairness of each thread's next step. Blocking-pool threads
  are OS threads. The std mutex is not fair, so nothing is claimed about who gets
  the lock; `Quiesces` assumes that calls stop.
* Clients of a stream read or hang up eventually. The timeout layer does not cover
  a streaming body, so without this a stalled client would hold the model lock.
* Futures are polled when they can go on (tokio), and run-slot waiters are served
  first come, first served (tokio's semaphore is fair). Timeouts and hang-ups are
  never forced, so nothing depends on them.
* `QueuedRequestsRun` is claimed of the controller inside the server: its fairness is that
  of the handlers, bodies and generations above, and it holds although each of them may
  time out, hang up, fail or panic.
* `Startup` and the other parts claim nothing about progress: a user may kill any process.

## 5. Findings

1. `begin_request` pins the matched prefix before its last two checks and no error
   path unpins it: the entry can never be evicted or cleared again
   (prompt_cache.rs:197; run `cache_idle_clear`).
2. The observed-memory check counts idle cached prefixes and refuses before anything
   could be evicted: with no other traffic the refusal, answered as "retry later",
   is permanent (prompt_cache.rs:218; run `engine_retry`).
3. The run permit is dropped with the handler while its generation goes on, so
   generations in flight are not bounded by the controller; the engine's mutex still
   serialises decoding (chat.rs:75; run `server_generations`).
4. The stop window is trimmed to the longest stop sequence after each token, before it
   is searched: a stop sequence that is followed by more characters in the same token
   is missed and stays in the text (simple.rs:1084; run `completion_stop`). What does
   hold is `StopAtTheEndIsFound`: one that ends where a token ends is always found.

5. `should_fetch_file` leaves out `chat_template.jinja`: a model whose only template is
   that file loads from a directory and not from the hub (model_loader.rs:36; run
   `startup_hub`). What does hold, over repositories without such a file and with it, is
   `LoadsByItsFiles`.
6. With top_p below one the host sampler compares a sum of weights relative to the best
   token with top_p before they are divided by their total; the best has weight one, so it
   alone reaches every threshold and nothing else is kept (simple.rs:972; run
   `sampling_nucleus`). What does hold is `CutsLeaveTheTop`: never too much is kept.

7. For a plain transformer whose configuration names head_dim, `info` takes that value
   and the engine hidden_size / num_attention_heads, so that the printed estimate is not
   what a token is reserved by (simple.rs:1018, main.rs:439; run `startup_estimate`). The
   layers keep keys as wide as their weights make them (transformer.rs:211), so with
   weights of the named width it is the engine that reserves for the wrong one. Without
   the field, and for Qwen3-Next, the two agree.

Also noticed, without a run of their own:

* A poisoned model mutex makes `prepare_generation` fail after the reservation and
  before the lease, so the reservation is never released (simple.rs:373).
  `ReservationHasOwner` allows this leak and no other, and says what bounds it: what is
  leaked borrows nothing, so that it takes pages but keeps no entry from being evicted.
* Overload starts at admitted + max_queue_size requests (backpressure.rs:41);
  main.rs:67 documents max_admitted_requests as the number of requests admitted
  before overload.
* The runtime cache is not cleared after a non-streaming request that times out, is
  abandoned or fails after prefill (chat.rs:90); README.md:67 of the repository says
  "after each non-streaming request".
* Without stop sequences a complete answer is one decode of all tokens (simple.rs:582,
  641) and a stream the decodes of single tokens put together (simple.rs:723, 780). With a
  tokenizer that strips or joins, the two texts of the same tokens differ; no document
  says that they are the same. `StreamMatchesText` compares the stream with its own text
  always, and with the complete answer where the two ways of decoding agree.
* The KV cache grows in steps of 256 columns (cache.rs), while the estimate counts tokens;
  `GenerationFitsEstimate` is about tokens.
* A stream that meets a stop sequence only when its beginning has already been sent
  has sent more than the complete answer would hold; `StreamMatchesText` states the
  relation that does hold.
* `CacheStats.total_used_bytes` is documented as `active + prefix`
  (prompt_cache.rs:94) but bytes of a borrowed prefix are in both terms and only once
  in the total, and page rounding is only in the total; `StatsAddUp` states the
  relation that does hold.
* The library's `sample` draws from what top-p left as if probabilities were logits
  (mlx-models/src/lib.rs): tokens that were cut can still be drawn. `SampleInLibrary`
  has it so; the engine does not use it.

## 6. Proofs

Checked by TLAPS for all values of the constants: type correctness of the manager and
the controller, every invariant and every action property of the passing runs, and the
refinements of `PagePool` and `DecodeLock`.

`FoldProofs`. No assumptions. What `SumFunctionOnSet`, `SumFunction`, `FoldLeft` and
`FlattenSeq` of the community modules compute, for data of any size. They are defined by
recursive functions over finite sets and naturals; induction over data here is not a
predicate handed to an induction theorem but a set of naturals (lengths, sizes of finite
sets) that is shown to be all of them: the least outside of it would be one step after a
member (`NaturalsReached`, `SubsetsReached`).

* Sums: `FoldExists` (a fold over a finite set takes its elements one at a time),
  `AnyOrder` (in whatever order, for an operation that allows it), `SumAddsUp`, from which
  a sum can be taken apart (`SumTakeOut`, `SumPutIn`, `SumOfBoth`), compared
  (`SumMonotone`, `SumOfPart`) and renamed (`SumRenamed`).
* Folds over a sequence: `LeftFoldRuns` gives the run of intermediate values that a
  `FoldLeft` is the last of, so that what a reader has after some characters can be talked
  about.
* Arrays in blocks: `QuotientAndRest`, `BlockOfPlace` and `PlaceOfBlock` say that places
  and pairs of a block and a place in it are one to one; `FlattenIsFlat` that flattening
  equally long rows puts each element at its pair's place; `SliceHas`, `JoinThree` and
  `JoinFour` what slices and concatenations of such arrays have where.

`PromptCacheProofs`. Assumptions: finite `Pages` and `Requests`, prompts are
sequences, hashes are keys, sizes are naturals (the ASSUMEs of `PromptCache`). Every
step lemma is about `ManagerSpec`, a manager with any caller that may have measured any
active memory; `Spec` is the instance TLC runs, and the engine is another one.

* `TypeCorrect`: `TypeOK`.
* `PagesHeldOnce`: `NoPageHeldTwice`, without an assumption on the hash. It is
  inductive together with `TypeOK`: each call moves pages from one holder to one
  other, which the `PageMoves` lemma states once for all actions.
* `PagesConserved`: `NoPageLost`; needs `HashInjective`, because a colliding store
  overwrites an entry with its pages, and the invariant that each entry's key is the
  hash of its tokens.
* `PinsCorrect`: `PinsCoverBorrowers`, which is what keeps eviction away from
  borrowed entries; the step for `finish_request` needs that a request leaves the
  borrowers of its entry and takes one pin along.
* `BorrowedPrefixStays`: `BorrowedPrefixIntact`, from the pins: an entry that is
  borrowed is never unpinned, hence never removed, hence keeps its tokens.
* `LeasesExclusive`: the action property `LeasesAreExclusive`.
* `RefinesPagePool`: `ImplementsPagePool`, step by step, from the above.

* `EntriesCorrect`: `EntriesBoundedAndOrdered`, with the order strict and total as long
  as every touch makes its entry the newest; the limit needs that a store evicts before
  it inserts.
* `EvictionIsLRU`: the action property `EvictsLeastRecent`; an entry goes only while
  every older one is pinned or goes too.
* `ReservationsPaid`: `ReservationCoversEstimate`: a running request's pages and the
  whole pages of the prefix it borrows cover its estimate. It needs the page arithmetic
  (`CeilDiv`, whole pages) and that a borrowed entry stays as it is.
* `StatsAgree`: `StatsAddUp`. A request's own pages pay for what it does not borrow
  (`OwnPaid`), an entry's pages for its estimate (`EntriesPaid`), and an entry is estimated
  at its tokens (`EstimatedByTokens`), so that a store over an entry leaves what its
  borrowers rely on. Summed over requests and entries that is the property, because no
  page is counted twice. It needs `HashInjective`: a colliding store changes an estimate
  after a request was charged for the rest.

`EngineProofs`. Assumptions: those of `PromptCache`, finitely many threads, a channel
with a slot. It extends `PromptCacheProofs`. `LockInv` says that `model_holder` is
exactly the threads inside the model, and that these are one at most; it is inductive by
itself (three lemmas: a move that stays in or out, one that takes the free lock, one that
drops it), so that part is independent of the cache.

* `LockCorrect`: `LockInv`.
* `RefinesDecodeLock`: `ImplementsDecodeLock`; each engine step maps to a step of one
  task or a stutter, including errors and the panic that poisons the lock. This is
  what entitles `Server` to use `DecodeLock` in place of the engine.

The rest is from `EngineInv`: types, what each stage of a generation has and knows
(`GenInv`), that there is a snapshot for each entry with the entry's tokens
(`SnapshotInv`), and who owns which reservation, for which prompt and output, and that one
without a generation borrows nothing (`ReservedInv`). A store that replaces an
entry and an eviction are the steps where snapshots and entries could part.

* `SnapshotsCorrect`, `PrefillCorrect`, `RunningReserved`, `ReservationsOwned`:
  `SnapshotsMatchTokens`, `PrefilledWithOwnPrompt`, `RunningIsReserved`,
  `ReservationHasOwner`. The last needs that a generation that finds the lock poisoned in
  `make_cache` has not borrowed: one that has takes its prefix from the entry and does not
  lock the model there.
* `GenerationsFit`: `GenerationFitsEstimate`, from what a stage knows of `gen` (a prompt
  comes whole into the cache, the number generated stays within `max_tokens`) and from
  the reservation's being for that prompt and that `max_tokens`.
* `EngineUsesManager`: each engine step is a step of `ManagerSpec` or leaves the manager
  alone, so the manager's theorems hold inside the engine: `EnginePagesHeldOnce`,
  `EngineBorrowedPrefixStays`, `EngineRefinesPagePool`, `EngineEntriesCorrect`,
  `EngineLeasesExclusive`, `EngineEvictionIsLRU`, `EngineReservationsPaid`,
  `EngineStatsAgree`.

`ServerProofs`, on `Backpressure`. Assumptions: finitely many requests, limits are
naturals. The inductive invariant `BPInv` is what has become of the queue slots, what has become of
the run slots, and that the line lists those who wait without a permit, once each;
the three sequence lemmas say what joining, advancing and leaving do to such a list.

* `SlotsAreConserved`, `LineExact`, `NeverIdle`, `BPTypes`: `SlotsConserved`,
  `LineIsExact`, `RunSlotNeverIdle`, `BPTypeOK`, all from `BPInv`.

`ServerProofs`, on `Server`. Assumptions: those of `Backpressure`, requests are requests,
channels have a slot.

* `ServerSlotsConserved`, `ServerNeverIdle`: the controller's invariants in the server.
  Every step of a handler calls the controller or leaves it alone (lemma
  `ServerRunsController`), so they carry over.
* `SlotsReturned`, `StreamsComplete`, `AnswersFinal`: `SlotsComeBack`, `DoneIsComplete`,
  `AnswersAreFinal`, from `ServerInv`, which says of each client where its request stands
  in the controller for each place of its handler (`PlaceOK`), what cannot have happened
  before a generation was spawned (`BeforeOK`), that what was sent is buffered or written
  (`StreamOK`), and what a result allows as status (`AnswerOK`). The parts lean on one
  another: that a stream's sender is gone, and that its buffer is empty, make [DONE]
  complete only because nothing was dropped from the buffer while a reader was there.

`CompletionProofs`. Assumptions: what tokens decode to and stop sequences are sequences of
characters, nothing else is assumed of the tokenizer, and a set of stop sequences that is not empty has a longest member, which
every finite list has. The inductive invariant `StopInv` says that the window is the
last `max_stop_sequence_chars` characters of the text and that nothing matches in it
as long as the generation goes on or has run into its limit; neither half is inductive
for the properties alone, because each check looks at the window only. The argument:
the last characters of a text and a token are the last characters of its window and
the token (`LastOfConcat`, `AppendKeepsWindow`); no stop sequence is longer than the
window (`LongestBounds`), so one that ends the text lies within the window
(`EndIsInWindow`); the least match, which exists because naturals are well-ordered
(`Least`), is where the text is cut (`TruncatedProperties`).

* `WindowCorrect`: `WindowIsEndOfText`. `StopsAreFound`: `StopAtTheEndIsFound`.
  `CutsCorrect`: `CutsBeforeAStop`.
* `StreamsMatch`: `StreamMatchesText`. `StopInv` has what was sent as the generated text
  as long as the generation goes on, and the tokens as ids of which there are fewer than
  `MaxTokens`, so that what they decode to is text (`DecodesToText`). The last step cuts
  the text to a prefix and sends what, if anything, lies beyond what was sent; the complete
  answer is that text with stop sequences, and without them the decode of all tokens, which
  is why the property compares the two only where the decodes agree.
* `AnswersAreFaithful`: `ResponseIsFaithful`, which compares the parser, a loop that
  searches for tags, with `ReadAll`, a fold over the text character by character. The
  invariant `ParseInv` says that before each turn of the loop the parser has done what the
  reader has done at one place of the text, outside of any block (`InReading`). One turn
  is three stretches of the reader: it copies up to the first opening tag (`ReadsText`),
  keeps a block up to the first closing tag (`ReadsBlock`), and what it then has is what
  the parser makes of the block (`ReadsClosed`); if there is no such tag, `ReadsRest`.

`ModelProofs`, on `ModelCache`. Assumptions: those of `ModelCache` (steps, widths and bounds are
naturals). The inductive invariant `CachesInv` says what every cache holds: the keys of
all tokens of the context, each with its position, in the first `offset` columns
(`KVOf`); the last inputs of the convolution, padded at the start, and a state that has
absorbed the whole context once and in order (`ArraysOf`); one cache for every layer, of
the layer's kind; and no cache only for an empty context. It is what makes a context that
is continued from a snapshot the same as one computed in a pass.

* `LayersCorrect`: `LayersInStep`.
* `CachedPassCorrect`: `CachedPassIsWholePass`: growing leaves the old columns
  (`GrowTokensBounds`, `UpdateAdds`), the mask admits exactly the earlier positions
  (`MaskFits`, `MaskedAttends`), the window of a convolution over cached and new inputs is
  that over all (`SameWindow`), and each layer of a pass therefore sees what it would see
  in one pass over everything (`ForwardIsWholePass`).
* `BuffersCorrect`: `BuffersBounded`.

`ModelProofs`, on `HybridLayer`. Assumptions: counts and dimensions are naturals, weights
are positive, there is a token.

* `HeadsMeet`: `HeadsMeetTheirOwn`. Every array is described by what stands at which block
  and place (`AreColumns`, `GroupsMake`); a projection is groups of parts laid flat, rows
  of it are the groups again (`RowsOfQKVZ`, `RowsBack`), a cut of all rows is one part
  (`CutColumns`), that part cut into heads gives each head its columns (`HeadsOfColumns`,
  because a group of f heads of d columns and f * d columns are the same places,
  `PlacesNest`), and the concatenation the convolution runs over comes apart as it was put
  together (`SplitJoined`). If value heads do not divide among key heads, some reshape
  fails (`SplitWithoutGroups`).
* `TokensMix`: `TokensMixTheirBest`. The invariant `HybridInv` counts the two loops: after
  some rounds over the tokens and some tokens of the next (`Rounds`), each token has the
  outputs of its first choices, as many as the rounds it has had. The number of outputs so
  far is a sum over tokens, which says whose turn it is; that normalised scores add up is
  that the sum over the chosen experts and the one over places are the same (`SumRenamed`).

`SamplerProofs`. Assumptions: `SamplerAssumption`; for the cuts also `ExpGrows`: the weight
of a score is a natural, positive for the best one, and tells two scores apart unless the
lower one has no weight left. The exponential of the code is such a function, up to the
rounding the model leaves out; TLC checks `MCExpAssumption`, the same for the function and
the differences of its instance.

* `PenaltyOrders`: `PenaltyIsMonotone`. The fold over the history treats each token's
  score by itself, as often as the token occurs (`OnePerOccurrence`); one penalty makes a
  score no better and keeps the order of scores (`PenaltyWorsens`, `PenaltyKeepsOrder`),
  and so do several (`WorsenedOrdered`).
* `CutsLeaveTop`: `CutsLeaveTheTop`. Weights order tokens as scores do (`RelativeWeighs`);
  top-k keeps a top of the ranking with fewer than top_k better ones (`TopKKeepsTop`), which
  contains a best token; for top-p, what is ahead of a better token and that token are
  ahead of a worse one (`AheadOfBetter`), so what is cut lies below what is kept
  (`TopPCuts`, `LibraryTopPCuts`); all weights together are at least that of the best,
  which is one, so the threshold before normalising is never above the property's.

`StartupProofs`. Assumptions (`StartupAssumption`): a repository says what is under each
file name, an index names weight files, tensors are named by module and leaf, the hub
lists every file once, a complete configuration of Qwen3-Next has its head size (a
required field). The inductive invariant `StartupInv` says that what was fetched is there
and wanted (`Fetches`), that past the resolution the process sees `View` (`Sees`), what
each stage has found out about it (`Learned`), and that a process that gave up by itself
saw something that does not load (`GivesUp`).

* `LoadingCorrect`: `LoadsByItsFiles`: `LoadableIs` cuts the order-free definition into
  what the stages find out; an incomplete download that an earlier process left is
  completed, not taken for the whole. `InfoCorrect`: `InfoCoversServe`.
* `TensorsCorrect`: `TensorsReachTheirParameters`, by the invariant that the files read so
  far have given every parameter a tensor if they have one for it; `TargetIsNamed` says
  that no tensor is taken from another parameter of its name, nested or flat.

Model-checked only: the liveness properties (`Quiesces`, `QueuedRequestsRun`,
`ServerDrains`), which are out of the prover's reach. The seven properties of findings are
checked to fail.

## 7. Plan

Done: the modules of section 2, and a proof of every safety property. What could be
added:

1. Several engines behind one controller and one router (`engine_for`), when main.rs
   loads more than one model; today it loads one.
2. The rate limiter's window, if it is replaced by code of this repository.
3. `ServerConfig` as the source of the values `Startup` takes from the command line, once
   a binary calls it.

## 8. Not modelled, and why

`ServerConfig::load` and `validate` (config.rs): no binary calls them; run_serve builds
the configuration itself from the command line, which `Startup` has, unchecked fields
included. The embeddings route (it counts tokens and returns a placeholder), the models
and health routes (stateless), the error facade of the engine (types only), the
foreign-function bindings. The parts of API types that no handler branches on.

Tensor arithmetic, sampling's floating point, tokenization and the rendering of templates (libraries
and data; what the tokenizer decodes is a parameter of `StopWindow`, so stripped spaces
and split characters are covered as far as they make decoding at once differ from
decoding one by one); usize overflow errors of the manager (they need prompts of more than 2^32
tokens); more than 2^32 pages; ties of `last_accessed` (the order of two accesses at
the same clock reading); poisoning of the manager mutex (no code panics while it
holds it); the request-id counter (ids are fresh); the rate limiter, authentication,
CORS and tracing layers (libraries); several engines in one process (each has its own
locks and manager; only the admission controller is shared, and main.rs loads one);
a stream client that stops reading without ever hanging up (section 4).

---------------------------- MODULE EngineProofs ----------------------------
(***************************************************************************)
(* Theorems about Engine, for any number of threads, pages and prompts:    *)
(* the model lock is held by exactly the thread that is inside the model,  *)
(* and the engine implements DecodeLock; its snapshots, KV caches and      *)
(* reservations agree with the prompt cache manager; and it is a caller of *)
(* the manager as the manager's own theorems assume, so they hold in it.   *)
(***************************************************************************)
EXTENDS Engine, PromptCacheProofs

\* What the lock proofs need of the state: threads are at known stages, the model
\* lock is held by those inside the model, and these are one at most.
LockInv ==
    /\ stage \in [Threads -> Stages]
    /\ model_holder = {t \in Threads : stage[t] \in HoldsModel}
    /\ \A t, u \in model_holder : t = u

\* A thread that moves between stages that are both inside or both outside the
\* model leaves the lock as it is.
LEMMA MoveKeepsLock ==
    ASSUME LockInv, NEW t \in Threads, NEW s \in Stages, GoTo(t, s),
           s \in HoldsModel <=> stage[t] \in HoldsModel, UNCHANGED model_holder
    PROVE  LockInv'
BY DEF LockInv, GoTo

\* A thread that leaves the model drops the lock.
LEMMA MoveDropsLock ==
    ASSUME LockInv, NEW t \in Threads, NEW s \in Stages, GoTo(t, s),
           stage[t] \in HoldsModel, s \notin HoldsModel, model_holder' = {}
    PROVE  LockInv'
BY DEF LockInv, GoTo

\* A thread that enters the model takes the free lock.
LEMMA MoveTakesLock ==
    ASSUME LockInv, NEW t \in Threads, NEW s \in Stages, GoTo(t, s),
           model_holder = {}, s \in HoldsModel, model_holder' = {t}
    PROVE  LockInv'
BY DEF LockInv, GoTo

\* Initially nobody is inside the model.
LEMMA LockInit == EngineInit => LockInv
BY DEF EngineInit, LockInv, Stages, HoldsModel

\* Every step of a thread keeps the lock invariant.
LEMMA LockAdvance ==
    ASSUME LockInv, NEW t \in Threads, Advance(t)
    PROVE  LockInv'
<1>1. CASE AdmissionRefused(t)
  BY <1>1, MoveKeepsLock DEF AdmissionRefused, Leave, Stages, HoldsModel
<1>2. CASE AdmissionGranted(t)
  <2>1. PICK s \in {"make_cache", "lock_model"} : GoTo(t, s)
    BY <1>2 DEF AdmissionGranted
  <2>2. QED BY <1>2, <2>1, MoveKeepsLock DEF AdmissionGranted, Stages, HoldsModel
<1>3. CASE MakeCache(t)
  BY <1>3, MoveKeepsLock DEF MakeCache, Stages, HoldsModel
<1>4. CASE MakeCacheFails(t)
  BY <1>4, MoveKeepsLock DEF MakeCacheFails, Leave, Stages, HoldsModel
<1>5. CASE LockModel(t)
  <2>1. CASE model_poisoned
    BY <1>5, <2>1, MoveKeepsLock DEF LockModel, Stages, HoldsModel
  <2>2. CASE ~model_poisoned
    BY <1>5, <2>2, MoveTakesLock DEF LockModel, Stages, HoldsModel
  <2>3. QED BY <2>1, <2>2
<1>6. CASE Prefill(t)
  BY <1>6, MoveKeepsLock DEF Prefill, Stages, HoldsModel
<1>7. CASE Store(t)
  <2>1. PICK s \in {"emit", "return", "decode"} : GoTo(t, s)
    BY <1>7 DEF Store, NewToken
  <2>2. QED BY <1>7, <2>1, MoveKeepsLock DEF Store, Stages, HoldsModel
<1>8. CASE DecodeStep(t)
  <2>1. PICK s \in {"emit", "return", "decode"} : GoTo(t, s)
    BY <1>8 DEF DecodeStep, NewToken
  <2>2. QED BY <1>8, <2>1, MoveKeepsLock DEF DecodeStep, Stages, HoldsModel
<1>9. CASE Emit(t)
  <2>1. PICK s \in {"return", "decode"} : GoTo(t, s)
    BY <1>9 DEF Emit
  <2>2. QED BY <1>9, <2>1, MoveKeepsLock DEF Emit, Stages, HoldsModel
<1>10. CASE RuntimeError(t)
  BY <1>10, MoveKeepsLock DEF RuntimeError, Stages, HoldsModel
<1>11. CASE RuntimePanic(t)
  BY <1>11, MoveDropsLock DEF RuntimePanic, Stages, HoldsModel
<1>12. CASE DropModelGuard(t)
  BY <1>12, MoveDropsLock DEF DropModelGuard, Stages, HoldsModel
<1>13. CASE DropLease(t)
  BY <1>13, MoveKeepsLock DEF DropLease, Leave, Stages, HoldsModel
<1>14. QED
  BY <1>1, <1>2, <1>3, <1>4, <1>5, <1>6, <1>7, <1>8, <1>9, <1>10, <1>11, <1>12, <1>13
  DEF Advance

\* Every step of the engine keeps the lock invariant.
LEMMA LockStep ==
    ASSUME LockInv, [EngineNext]_engineVars
    PROVE  LockInv'
<1>1. CASE Calls
  <2>1. PICK t \in Threads, prompt \in Prompts, max_tokens \in MaxTokens, streaming \in BOOLEAN :
            Call(t, prompt, max_tokens, streaming)
    BY <1>1 DEF Calls
  <2>2. QED BY <2>1, MoveKeepsLock DEF Call, Stages, HoldsModel
<1>2. ASSUME NEW t \in Threads, Advance(t) PROVE LockInv'
  BY <1>2, LockAdvance
<1>3. CASE ClearRuntimeCache
  BY <1>3 DEF ClearRuntimeCache, LockInv
<1>4. ASSUME NEW t \in Threads, Receive(t) \/ HangUp(t) PROVE LockInv'
  BY <1>4 DEF Receive, HangUp, LockInv
<1>5. CASE UNCHANGED engineVars
  BY <1>5 DEF engineVars, LockInv
<1>6. QED BY <1>1, <1>2, <1>3, <1>4, <1>5 DEF EngineNext

\* The model mutex protects the model: at every moment it is held by exactly the
\* threads between prefill and the end of a generation, one at most.
THEOREM LockCorrect == EngineSpec => []LockInv
<1>1. EngineInit => LockInv
  BY LockInit
<1>2. LockInv /\ [EngineNext]_engineVars => LockInv'
  BY LockStep
<1>3. QED BY <1>1, <1>2, PTL DEF EngineSpec
-----------------------------------------------------------------------------
\* A thread whose phase does not change is a stutter of the abstract lock.
LEMMA PhaseKept ==
    ASSUME LockInv, NEW t \in Threads, NEW s, GoTo(t, s), PhaseOf(s) = PhaseOf(stage[t])
    PROVE  [Lock!Next]_(Lock!lockVars)
BY DEF LockInv, GoTo, Lock!lockVars

\* How the phases change when one thread moves.
LEMMA PhaseMoves ==
    ASSUME LockInv, NEW t \in Threads, NEW s, GoTo(t, s)
    PROVE  [u \in Threads |-> PhaseOf(stage[u])]'
             = [[u \in Threads |-> PhaseOf(stage[u])] EXCEPT ![t] = PhaseOf(s)]
BY DEF LockInv, GoTo

\* A thread that returns without a generation under way ends its task.
LEMMA PhaseEnds ==
    ASSUME LockInv, NEW t \in Threads, NEW s \in {"idle", "finish"}, GoTo(t, s),
           stage[t] \notin {"idle", "finish"}
    PROVE  [Lock!Next]_(Lock!lockVars)
<1>1. PhaseOf(s) = "idle" /\ PhaseOf(stage[t]) \in {"waiting", "decoding"}
  BY DEF PhaseOf
<1>2. Lock!End(t)
  BY <1>1, PhaseMoves DEF Lock!End
<1>3. QED BY <1>2 DEF Lock!Next

\* A thread that takes the free lock decodes.
LEMMA PhaseDecodes ==
    ASSUME LockInv, NEW t \in Threads, GoTo(t, "prefill"), stage[t] = "lock_model",
           model_holder = {}
    PROVE  [Lock!Next]_(Lock!lockVars)
<1>1. PhaseOf("prefill") = "decoding" /\ PhaseOf(stage[t]) = "waiting"
  BY DEF PhaseOf, HoldsModel
<1>2. \A u \in Threads : PhaseOf(stage[u]) # "decoding"
  BY DEF LockInv, PhaseOf
<1>3. Lock!Decode(t)
  BY <1>1, <1>2, PhaseMoves DEF Lock!Decode
<1>4. QED BY <1>3 DEF Lock!Next

\* Every step of the engine is a step of the abstract lock or a stutter.
LEMMA LockSimulates ==
    ASSUME LockInv, [EngineNext]_engineVars
    PROVE  [Lock!Next]_(Lock!lockVars)
<1>1. CASE Calls
  <2>1. PICK t \in Threads, prompt \in Prompts, max_tokens \in MaxTokens, streaming \in BOOLEAN :
            Call(t, prompt, max_tokens, streaming)
    BY <1>1 DEF Calls
  <2>2. PhaseOf(stage[t]) = "idle" /\ PhaseOf("admission") = "waiting"
    BY <2>1 DEF Call, PhaseOf, HoldsModel
  <2>3. Lock!Start(t)
    BY <2>1, <2>2, PhaseMoves DEF Call, Lock!Start
  <2>4. QED BY <2>3 DEF Lock!Next
<1>2. ASSUME NEW t \in Threads, Advance(t) PROVE [Lock!Next]_(Lock!lockVars)
  <2>1. CASE AdmissionRefused(t)
    BY <2>1, PhaseEnds DEF AdmissionRefused, Leave
  <2>2. CASE AdmissionGranted(t)
    <3>1. PICK s \in {"make_cache", "lock_model"} : GoTo(t, s)
      BY <2>2 DEF AdmissionGranted
    <3>2. QED BY <2>2, <3>1, PhaseKept DEF AdmissionGranted, PhaseOf, HoldsModel
  <2>3. CASE MakeCache(t)
    BY <2>3, PhaseKept DEF MakeCache, PhaseOf, HoldsModel
  <2>4. CASE MakeCacheFails(t)
    BY <2>4, PhaseEnds DEF MakeCacheFails, Leave
  <2>5. CASE LockModel(t)
    <3>1. CASE model_poisoned
      BY <2>5, <3>1, PhaseEnds DEF LockModel
    <3>2. CASE ~model_poisoned
      BY <2>5, <3>2, PhaseDecodes DEF LockModel
    <3>3. QED BY <3>1, <3>2
  <2>6. CASE Prefill(t)
    BY <2>6, PhaseKept DEF Prefill, PhaseOf, HoldsModel
  <2>7. CASE Store(t)
    <3>1. PICK s \in {"emit", "return", "decode"} : GoTo(t, s)
      BY <2>7 DEF Store, NewToken
    <3>2. QED BY <2>7, <3>1, PhaseKept DEF Store, PhaseOf, HoldsModel
  <2>8. CASE DecodeStep(t)
    <3>1. PICK s \in {"emit", "return", "decode"} : GoTo(t, s)
      BY <2>8 DEF DecodeStep, NewToken
    <3>2. QED BY <2>8, <3>1, PhaseKept DEF DecodeStep, PhaseOf, HoldsModel
  <2>9. CASE Emit(t)
    <3>1. PICK s \in {"return", "decode"} : GoTo(t, s)
      BY <2>9 DEF Emit
    <3>2. QED BY <2>9, <3>1, PhaseKept DEF Emit, PhaseOf, HoldsModel
  <2>10. CASE RuntimeError(t)
    BY <2>10, PhaseKept DEF RuntimeError, PhaseOf, HoldsModel
  <2>11. CASE RuntimePanic(t)
    BY <2>11, PhaseEnds DEF RuntimePanic
  <2>12. CASE DropModelGuard(t)
    BY <2>12, PhaseEnds DEF DropModelGuard
  <2>13. CASE DropLease(t)
    BY <2>13, PhaseKept DEF DropLease, Leave, PhaseOf
  <2>14. QED
    BY <1>2, <2>1, <2>2, <2>3, <2>4, <2>5, <2>6, <2>7, <2>8, <2>9, <2>10, <2>11, <2>12, <2>13
    DEF Advance
<1>3. CASE UNCHANGED stage
  BY <1>3 DEF Lock!lockVars
<1>4. ClearRuntimeCache => UNCHANGED stage
  BY DEF ClearRuntimeCache
<1>5. ASSUME NEW t \in Threads, Receive(t) \/ HangUp(t) PROVE UNCHANGED stage
  BY <1>5 DEF Receive, HangUp
<1>6. UNCHANGED engineVars => UNCHANGED stage
  BY DEF engineVars
<1>7. QED BY <1>1, <1>2, <1>3, <1>4, <1>5, <1>6 DEF EngineNext

\* Generations decode one at a time, whatever the prompt cache decides and
\* whatever fails: the engine implements the lock that the server is built on.
THEOREM RefinesDecodeLock == EngineSpec => ImplementsDecodeLock
<1>1. EngineInit => Lock!Init
  BY DEF EngineInit, Lock!Init, PhaseOf
<1>2. LockInv /\ [EngineNext]_engineVars => [Lock!Next]_(Lock!lockVars)
  BY LockSimulates
<1>3. QED BY <1>1, <1>2, LockCorrect, PTL DEF EngineSpec, ImplementsDecodeLock, Lock!Spec
-----------------------------------------------------------------------------
(***************************************************************************)
(* The engine is a caller of the prompt cache manager                      *)
(***************************************************************************)

GenFields == {"prompt", "max_tokens", "streaming", "observed", "request",
              "prefix_len", "kv", "generated", "finished"}

\* What is known of a generation's locals g at stage s.
GenOK(s, g) ==
    /\ DOMAIN g = GenFields
    /\ g.prompt \in Prompts /\ g.max_tokens \in MaxTokens /\ g.request \in SUBSET Requests
    /\ s = "admission" => g.request = {}
    /\ s = "make_cache" => g.kv = << >> /\ g.prefix_len = 0
    /\ s \in {"lock_model", "prefill"} =>
         g.prefix_len \in 0..Len(g.prompt) /\ g.kv = SubSeq(g.prompt, 1, g.prefix_len)
    /\ s \in {"store", "decode", "emit"} => g.kv = g.prompt
    /\ Len(g.kv) \in 0..Len(g.prompt) /\ g.generated \in 0..g.max_tokens
    /\ s \in {"admission", "make_cache", "lock_model", "prefill", "store"} => g.generated = 0
    /\ s = "decode" \/ (s = "emit" /\ ~g.finished) => g.generated < g.max_tokens

\* A thread has locals, and knows this of them, from its call to its return.
GenInv ==
    /\ stage \in [Threads -> Stages]
    /\ DOMAIN gen = {t \in Threads : stage[t] # "idle"}
    /\ \A t \in DOMAIN gen : GenOK(stage[t], gen[t])

SnapshotInv == DOMAIN snapshot = DOMAIN entries /\ SnapshotsMatchTokens

\* Every step of a thread is at most one call to the manager.
LEMMA AdvanceCallsManager ==
    ASSUME GenInv, NEW t \in Threads, Advance(t)
    PROVE  [ManagerNext]_vars
<1>1. ASSUME stage[t] # "idle"
      PROVE  gen[t].prompt \in Prompts /\ gen[t].max_tokens \in MaxTokens
               /\ gen[t].request \subseteq Requests
  BY <1>1 DEF GenInv, GenOK
<1>2. CASE AdmissionRefused(t)
  BY <1>1, <1>2 DEF AdmissionRefused, ManagerNext, BeginRequest
<1>3. CASE AdmissionGranted(t)
  BY <1>1, <1>3 DEF AdmissionGranted, ManagerNext, BeginRequest
<1>4. CASE Store(t)
  BY <1>1, <1>4 DEF Store, ManagerNext, StorePrefix
<1>5. CASE DropLease(t)
  BY <1>1, <1>5 DEF DropLease, ManagerNext
<1>6. CASE \/ MakeCache(t) \/ MakeCacheFails(t) \/ LockModel(t) \/ Prefill(t) \/ DecodeStep(t)
           \/ Emit(t) \/ RuntimeError(t) \/ RuntimePanic(t) \/ DropModelGuard(t)
  BY <1>6 DEF MakeCache, MakeCacheFails, LockModel, Prefill, DecodeStep, Emit, RuntimeError,
              RuntimePanic, DropModelGuard, managerVars, vars
<1>7. QED BY <1>2, <1>3, <1>4, <1>5, <1>6 DEF Advance

\* Every step of the engine is at most one call to the manager.
LEMMA EngineCallsManager ==
    ASSUME GenInv, [EngineNext]_engineVars
    PROVE  [ManagerNext]_vars
<1>1. ASSUME UNCHANGED managerVars PROVE [ManagerNext]_vars
  BY <1>1 DEF managerVars, vars
<1>2. CASE Calls
  BY <1>1, <1>2 DEF Calls, Call
<1>3. ASSUME NEW t \in Threads, Advance(t) PROVE [ManagerNext]_vars
  BY <1>3, AdvanceCallsManager
<1>4. CASE ClearRuntimeCache
  BY <1>4 DEF ClearRuntimeCache, ManagerNext
<1>5. ASSUME NEW t \in Threads, Receive(t) \/ HangUp(t) PROVE [ManagerNext]_vars
  BY <1>1, <1>5 DEF Receive, HangUp
<1>6. CASE UNCHANGED engineVars
  BY <1>1, <1>6 DEF engineVars
<1>7. QED BY <1>2, <1>3, <1>4, <1>5, <1>6 DEF EngineNext

-----------------------------------------------------------------------------
(***************************************************************************)
(* What the locals of a generation hold                                    *)
(***************************************************************************)

\* One thread moves on with known locals, the others keep theirs.
LEMMA MoveKeepsGen ==
    ASSUME GenInv, NEW t \in Threads, NEW s \in Stages \ {"idle"}, GoTo(t, s),
           DOMAIN gen' = DOMAIN gen \cup {t}, GenOK(s, gen'[t]),
           \A u \in DOMAIN gen \ {t} : gen'[u] = gen[u]
    PROVE  GenInv'
BY DEF GenInv, GoTo

\* One thread returns, the others keep their locals.
LEMMA LeaveKeepsGen ==
    ASSUME GenInv, NEW t \in Threads, Leave(t)
    PROVE  GenInv'
<1>1. DOMAIN gen' = DOMAIN gen \ {t} /\ \A u \in DOMAIN gen \ {t} : gen'[u] = gen[u]
  BY DEF Leave, Restrict
<1>2. QED BY <1>1 DEF GenInv, Leave, GoTo, Stages

\* The tokens before and after a position make up the prompt.
LEMMA SplitPrompt ==
    ASSUME NEW prompt \in Prompts, NEW n \in 0..Len(prompt)
    PROVE  SubSeq(prompt, 1, n) \o SubSeq(prompt, n + 1, Len(prompt)) = prompt
<1> DEFINE before == SubSeq(prompt, 1, n)
           after  == SubSeq(prompt, n + 1, Len(prompt))
<1>1. prompt \in Seq(Tokens) /\ Len(prompt) \in Nat
  BY PromptAssumption
<1>2. /\ before \in Seq(Tokens) /\ Len(before) = n
      /\ \A i \in 1..n : before[i] = prompt[i]
  BY <1>1
<1>3. /\ after \in Seq(Tokens) /\ Len(after) = Len(prompt) - n
      /\ \A i \in 1..(Len(prompt) - n) : after[i] = prompt[n + i]
  BY <1>1
<1> HIDE DEF before, after
<1>4. before \o after \in Seq(Tokens) /\ Len(before \o after) = Len(prompt)
  BY <1>1, <1>2, <1>3
<1>5. ASSUME NEW i \in 1..Len(prompt) PROVE (before \o after)[i] = prompt[i]
  <2>1. CASE i <= n
    BY <1>1, <1>2, <1>3, <2>1
  <2>2. CASE i > n
    <3>1. (before \o after)[i] = after[i - n] /\ i - n \in 1..(Len(prompt) - n)
      BY <1>1, <1>2, <1>3, <2>2
    <3>2. QED BY <1>1, <1>3, <3>1
  <2>3. n \in Int /\ i \in Int
    BY <1>1
  <2>4. i <= n \/ i > n
    BY <2>3
  <2>5. QED BY <2>1, <2>2, <2>4
<1>6. before \o after = prompt
  BY <1>1, <1>4, <1>5, SeqEqual
<1>7. QED BY <1>6 DEF before, after

\* A borrowed snapshot holds the first prefix_len tokens of the borrower's prompt.
LEMMA BorrowedSnapshot ==
    ASSUME TypeOK, SnapshotInv, NEW prompt \in Prompts, FindLongestPrefixKey(prompt) # {}
    PROVE  /\ PrefixLen(FindLongestPrefixKey(prompt)) \in 0..Len(prompt)
           /\ snapshot[CHOOSE k \in FindLongestPrefixKey(prompt) : TRUE]
                = SubSeq(prompt, 1, PrefixLen(FindLongestPrefixKey(prompt)))
<1> DEFINE found == FindLongestPrefixKey(prompt)
           k     == CHOOSE i \in found : TRUE
<1>1. k \in found /\ k \in DOMAIN entries /\ k \in PrefixMatches(prompt)
  BY LongestPrefixIsEntry
<1>2. entries[k].tokens = SubSeq(prompt, 1, PrefixLen(found))
  BY <1>1, LongestPrefixTokens
<1>3. PrefixLen(found) = Len(entries[k].tokens)
  BY <1>1 DEF PrefixLen
<1>4. Len(entries[k].tokens) < Len(prompt)
  BY <1>1 DEF PrefixMatches, IsProperPrefix
<1>5. Len(entries[k].tokens) \in Nat /\ Len(prompt) \in Nat
  BY <1>1, PromptAssumption DEF TypeOK, Entry
<1>6. snapshot[k] = entries[k].tokens
  BY <1>1 DEF SnapshotInv, SnapshotsMatchTokens
<1> HIDE DEF k, found
<1>7. PrefixLen(found) \in 0..Len(prompt)
  BY <1>3, <1>4, <1>5
<1>8. snapshot[k] = SubSeq(prompt, 1, PrefixLen(found))
  BY <1>2, <1>6
<1>9. QED BY <1>7, <1>8 DEF k, found

\* A new token changes a generation's count and its end, nothing else.
LEMMA NewTokenGen ==
    ASSUME GenInv, NEW t \in Threads, NewToken(t), stage[t] \in {"store", "decode"}
    PROVE  GenInv'
<1>1. /\ t \in DOMAIN gen /\ DOMAIN gen[t] = GenFields /\ GenOK(stage[t], gen[t])
      /\ gen[t].kv = gen[t].prompt
      /\ gen[t].max_tokens \in Nat /\ gen[t].generated \in Nat
      /\ gen[t].generated < gen[t].max_tokens
  <2>1. t \in DOMAIN gen /\ GenOK(stage[t], gen[t])
    BY DEF GenInv
  <2>2. gen[t].max_tokens \in Nat \ {0}
    BY <2>1, SizeAssumption, EngineAssumption DEF GenOK
  <2>3. gen[t].generated \in Nat /\ gen[t].generated < gen[t].max_tokens
    <3>1. CASE stage[t] = "store"
      BY <2>1, <2>2, <3>1 DEF GenOK
    <3>2. CASE stage[t] = "decode"
      BY <2>1, <3>2 DEF GenOK
    <3>3. QED BY <3>1, <3>2
  <2>4. DOMAIN gen[t] = GenFields /\ gen[t].kv = gen[t].prompt
    BY <2>1 DEF GenOK
  <2>5. QED BY <2>1, <2>2, <2>3, <2>4
<1>2. PICK ends, decoded \in BOOLEAN :
        LET n        == gen[t].generated + 1
            finished == ends \/ n >= gen[t].max_tokens
        IN  /\ gen' = [gen EXCEPT ![t].generated = n, ![t].finished = finished]
            /\ GoTo(t, CASE ~decoded                          -> "return"
                         [] decoded /\ gen[t].streaming         -> "emit"
                         [] decoded /\ ~gen[t].streaming        ->
                                IF finished THEN "return" ELSE "decode")
  BY DEF NewToken
<1> DEFINE n == gen[t].generated + 1
           f == ends \/ n >= gen[t].max_tokens
<1>3. gen' = [gen EXCEPT ![t].generated = n, ![t].finished = f]
  BY <1>2
<1>4. PICK s \in {"emit", "return", "decode"} : GoTo(t, s) /\ (s = "decode" => ~f)
  BY <1>2
<1>5. n \in 0..gen[t].max_tokens /\ (~f => n < gen[t].max_tokens)
  <2>1. n \in 0..gen[t].max_tokens /\ (n >= gen[t].max_tokens \/ n < gen[t].max_tokens)
    BY <1>1
  <2> HIDE DEF n
  <2>2. QED BY <2>1, Zenon
<1> HIDE DEF n, f
<1>6. /\ DOMAIN gen' = DOMAIN gen
      /\ \A u \in DOMAIN gen \ {t} : gen'[u] = gen[u]
      /\ gen'[t] = [gen[t] EXCEPT !.generated = n, !.finished = f]
  BY <1>1, <1>3
<1>7. GenOK(s, gen'[t])
  BY <1>1, <1>4, <1>5, <1>6 DEF GenOK, GenFields
<1>8. QED BY <1>1, <1>4, <1>6, <1>7, MoveKeepsGen DEF Stages

\* Moving between stages that ask nothing new of the locals keeps them known.
LEMMA SameGen ==
    ASSUME GenInv, NEW t \in Threads, stage[t] # "idle", UNCHANGED gen,
           NEW s \in Stages \ {"idle"}, GoTo(t, s), GenOK(stage[t], gen[t]) => GenOK(s, gen[t])
    PROVE  GenInv'
<1>1. t \in DOMAIN gen /\ GenOK(s, gen[t])
  BY DEF GenInv
<1>2. QED BY <1>1, MoveKeepsGen

\* The reservation gives the generation its request, and the borrowed snapshot,
\* which covers the prompt up to prefix_len, or no cache at all.
LEMMA GrantedGen ==
    ASSUME TypeOK, GenInv, SnapshotInv, NEW t \in Threads, AdmissionGranted(t)
    PROVE  GenInv'
<1> DEFINE prompt == gen[t].prompt
           found  == FindLongestPrefixKey(prompt)
<1>1. t \in DOMAIN gen /\ GenOK("admission", gen[t])
  BY DEF AdmissionGranted, GenInv
<1>2. PICK r \in Requests :
        /\ BeginAdmitted(r, prompt, gen[t].max_tokens, gen[t].observed)
        /\ gen' = [gen EXCEPT
              ![t].observed = 0,
              ![t].request = {r},
              ![t].prefix_len = active_requests'[r].prefix_len,
              ![t].kv = IF active_requests'[r].borrowed_prefix = {} THEN << >>
                        ELSE snapshot[CHOOSE k \in active_requests'[r].borrowed_prefix : TRUE]]
        /\ GoTo(t, IF active_requests'[r].borrowed_prefix = {} THEN "make_cache" ELSE "lock_model")
  BY DEF AdmissionGranted
<1>3. prompt \in Prompts /\ gen[t].max_tokens \in MaxTokens
  BY <1>1 DEF GenOK
<1>4. active_requests'[r].borrowed_prefix = found /\ active_requests'[r].prefix_len = PrefixLen(found)
  <2>1. PICK owned \in SUBSET Pages :
           Admits(r, NewReservation(prompt, gen[t].max_tokens, found, owned))
    BY <1>2, <1>3, BeginAdmittedEffect
  <2>2. QED BY <2>1 DEF Admits, NewReservation
<1> DEFINE s  == IF found = {} THEN "make_cache" ELSE "lock_model"
           kv == IF found = {} THEN << >> ELSE snapshot[CHOOSE k \in found : TRUE]
<1>5. GoTo(t, s)
  BY <1>2, <1>4
<1>6. /\ DOMAIN gen' = DOMAIN gen
      /\ \A u \in DOMAIN gen \ {t} : gen'[u] = gen[u]
      /\ gen'[t] = [gen[t] EXCEPT !.observed = 0, !.request = {r},
                                  !.prefix_len = PrefixLen(found), !.kv = kv]
  BY <1>1, <1>2, <1>4
<1>7. \/ s = "make_cache" /\ kv = << >> /\ PrefixLen(found) = 0
      \/ /\ s = "lock_model"
         /\ PrefixLen(found) \in 0..Len(prompt)
         /\ kv = SubSeq(prompt, 1, PrefixLen(found))
  <2>1. CASE found = {}
    BY <2>1 DEF PrefixLen
  <2>2. CASE found # {}
    BY <1>3, <2>2, BorrowedSnapshot
  <2>3. QED BY <2>1, <2>2
<1> HIDE DEF s, kv
<1>8. /\ DOMAIN gen'[t] = GenFields
      /\ gen'[t].prompt = gen[t].prompt /\ gen'[t].max_tokens = gen[t].max_tokens
      /\ gen'[t].request = {r} /\ gen'[t].prefix_len = PrefixLen(found) /\ gen'[t].kv = kv
  BY <1>1, <1>6 DEF GenOK, GenFields
<1>9. GenOK(s, gen'[t])
  <2>1. Len(kv) \in 0..Len(prompt)
    BY <1>3, <1>7, PromptAssumption
  <2>2. gen'[t].generated = 0 /\ gen[t].max_tokens \in Nat
    BY <1>1, <1>3, <1>6, SizeAssumption DEF GenOK, GenFields
  <2>3. QED BY <1>3, <1>7, <1>8, <2>1, <2>2 DEF GenOK
<1>10. s \in Stages \ {"idle"}
  BY <1>7 DEF Stages
<1>11. QED BY <1>1, <1>5, <1>6, <1>9, <1>10, MoveKeepsGen

\* The forward pass completes the prompt.
LEMMA PrefillGen ==
    ASSUME GenInv, NEW t \in Threads, Prefill(t)
    PROVE  GenInv'
<1>1. t \in DOMAIN gen /\ GenOK("prefill", gen[t])
  BY DEF Prefill, GenInv
<1>2. /\ GoTo(t, "store")
      /\ gen' = [gen EXCEPT ![t].kv =
                   @ \o SubSeq(gen[t].prompt, gen[t].prefix_len + 1, Len(gen[t].prompt))]
  BY DEF Prefill
<1>3. gen[t].kv \o SubSeq(gen[t].prompt, gen[t].prefix_len + 1, Len(gen[t].prompt)) = gen[t].prompt
  BY <1>1, SplitPrompt DEF GenOK
<1>4. /\ DOMAIN gen' = DOMAIN gen
      /\ \A u \in DOMAIN gen \ {t} : gen'[u] = gen[u]
      /\ gen'[t] = [gen[t] EXCEPT !.kv = gen[t].prompt]
  BY <1>1, <1>2, <1>3
<1>5. GenOK("store", gen'[t])
  BY <1>1, <1>4 DEF GenOK, GenFields
<1>6. QED BY <1>1, <1>2, <1>4, <1>5, MoveKeepsGen DEF Stages

\* Every step of a thread keeps what is known of the locals.
LEMMA AdvanceGen ==
    ASSUME TypeOK, GenInv, SnapshotInv, NEW t \in Threads, Advance(t)
    PROVE  GenInv'
<1>1. CASE AdmissionRefused(t) \/ MakeCacheFails(t) \/ DropLease(t)
  BY <1>1, LeaveKeepsGen DEF AdmissionRefused, MakeCacheFails, DropLease
<1>2. CASE AdmissionGranted(t)
  BY <1>2, GrantedGen
<1>3. CASE MakeCache(t)
  <2>1. t \in DOMAIN gen /\ GenOK("make_cache", gen[t])
    BY <1>3 DEF MakeCache, GenInv
  <2>2. Len(gen[t].prompt) \in Nat /\ SubSeq(gen[t].prompt, 1, 0) = << >>
    BY <2>1, PromptAssumption DEF GenOK
  <2>3. gen[t].kv = << >> /\ gen[t].prefix_len = 0
    BY <2>1 DEF GenOK
  <2>4. /\ gen[t].prefix_len \in 0..Len(gen[t].prompt)
        /\ gen[t].kv = SubSeq(gen[t].prompt, 1, gen[t].prefix_len)
    BY <2>2, <2>3
  <2>5. GenOK("lock_model", gen[t])
    BY <2>1, <2>4 DEF GenOK
  <2>6. QED BY <1>3, <2>5, SameGen DEF MakeCache, Stages
<1>4. CASE LockModel(t)
  <2>1. PICK s \in {"finish", "prefill"} : GoTo(t, s)
    BY <1>4 DEF LockModel
  <2>2. GenOK("lock_model", gen[t]) => GenOK(s, gen[t])
    BY DEF GenOK
  <2>3. QED BY <1>4, <2>1, <2>2, SameGen DEF LockModel, Stages
<1>5. CASE Prefill(t)
  BY <1>5, PrefillGen
<1>6. CASE Store(t) \/ DecodeStep(t)
  BY <1>6, NewTokenGen DEF Store, DecodeStep
<1>7. CASE Emit(t)
  <2>1. PICK s \in {"return", "decode"} : GoTo(t, s) /\ (s = "decode" => ~gen[t].finished)
    BY <1>7 DEF Emit
  <2>2. GenOK("emit", gen[t]) => GenOK(s, gen[t])
    BY <2>1 DEF GenOK
  <2>3. QED BY <1>7, <2>1, <2>2, SameGen DEF Emit, Stages
<1>8. CASE RuntimeError(t) \/ RuntimePanic(t) \/ DropModelGuard(t)
  <2>1. PICK s \in {"return", "finish"} : GoTo(t, s)
    BY <1>8 DEF RuntimeError, RuntimePanic, DropModelGuard
  <2>2. stage[t] # "idle" /\ UNCHANGED gen
    BY <1>8 DEF RuntimeError, RuntimePanic, DropModelGuard
  <2>3. GenOK(stage[t], gen[t]) => GenOK(s, gen[t])
    BY DEF GenOK
  <2>4. QED BY <2>1, <2>2, <2>3, SameGen DEF Stages
<1>9. QED BY <1>1, <1>2, <1>3, <1>4, <1>5, <1>6, <1>7, <1>8 DEF Advance

-----------------------------------------------------------------------------
(***************************************************************************)
(* The snapshots follow the entries                                        *)
(***************************************************************************)

\* The call evicts at most: the entries left hold the tokens they held.
TokensKept ==
    /\ DOMAIN entries' \subseteq DOMAIN entries
    /\ \A k \in DOMAIN entries' : entries'[k].tokens = entries[k].tokens

LEMMA KeepsEntriesTokens ==
    ASSUME NEW kept, NEW borrowed, KeepsEntries(kept, borrowed)
    PROVE  TokensKept
BY DEF KeepsEntries, SameButPins, TokensKept

\* Snapshots of evicted entries go with them, the others stay.
LEMMA RestrictSnapshot ==
    ASSUME SnapshotInv, TokensKept, snapshot' = Restrict(snapshot, DOMAIN entries')
    PROVE  SnapshotInv'
BY DEF SnapshotInv, SnapshotsMatchTokens, TokensKept, Restrict

\* begin_request, whatever it answers, takes no snapshot from a kept entry.
LEMMA BeginTokens ==
    ASSUME TypeOK, NEW prompt \in Prompts, NEW max_tokens \in MaxTokens, NEW observed,
           BeginRequest(prompt, max_tokens, observed)
    PROVE  TokensKept
<1>1. CASE BeginOverBudget(prompt, max_tokens)
  BY <1>1 DEF BeginOverBudget, vars, TokensKept
<1>2. CASE BeginOverRuntimeBudget(prompt, max_tokens, observed)
  BY <1>2, BeginOverRuntimeBudgetEffect, KeepsEntriesTokens
<1>3. CASE BeginNoPages(prompt, max_tokens, observed)
  BY <1>3, BeginNoPagesEffect, KeepsEntriesTokens
<1>4. ASSUME NEW r \in Requests, BeginAdmitted(r, prompt, max_tokens, observed)
      PROVE  TokensKept
  BY <1>4, BeginAdmittedEffect, KeepsEntriesTokens
<1>5. QED BY <1>1, <1>2, <1>3, <1>4 DEF BeginRequest

\* What store_prefix stores is the cache of the prompt, under the prompt's key.
LEMMA StoreSnapshot ==
    ASSUME TypeOK, SnapshotInv, NEW prompt \in Prompts, NEW kv, kv = prompt,
           \/ /\ StoreReplaced(prompt) \/ StoreInserted(prompt)
              /\ snapshot' = [k \in DOMAIN entries' |->
                                IF k = Hash[prompt] THEN kv ELSE snapshot[k]]
           \/ /\ StoreSkipped(prompt) \/ StoreGivesUp(prompt)
              /\ snapshot' = Restrict(snapshot, DOMAIN entries')
    PROVE  SnapshotInv'
<1>1. CASE /\ StoreReplaced(prompt)
           /\ snapshot' = [k \in DOMAIN entries' |->
                             IF k = Hash[prompt] THEN kv ELSE snapshot[k]]
  BY <1>1 DEF StoreReplaced, AlreadyStored, SnapshotInv, SnapshotsMatchTokens
<1>2. CASE /\ StoreInserted(prompt)
           /\ snapshot' = [k \in DOMAIN entries' |->
                             IF k = Hash[prompt] THEN kv ELSE snapshot[k]]
  <2>1. PICK victims \in SUBSET Unpinned, owned \in SUBSET Pages :
            /\ DOMAIN entries' = (DOMAIN entries \ victims) \cup {Hash[prompt]}
            /\ \A k \in DOMAIN entries \ victims :
                 k # Hash[prompt] => entries'[k] = entries[k]
            /\ entries'[Hash[prompt]] =
                 [tokens |-> prompt, pages |-> owned,
                  estimated_bytes |-> PrefixBytes(prompt), pin_count |-> 0]
    BY <1>2, StoreInsertedEffect
  <2>2. QED BY <1>2, <2>1 DEF SnapshotInv, SnapshotsMatchTokens
<1>3. CASE /\ StoreSkipped(prompt)
           /\ snapshot' = Restrict(snapshot, DOMAIN entries')
  BY <1>3, RestrictSnapshot DEF StoreSkipped, vars, TokensKept
<1>4. CASE /\ StoreGivesUp(prompt)
           /\ snapshot' = Restrict(snapshot, DOMAIN entries')
  BY <1>4, EvictAllEffect, KeepsEntriesTokens, RestrictSnapshot DEF EvictsAllUnpinned
<1>5. QED BY <1>1, <1>2, <1>3, <1>4

\* Every step of a thread keeps snapshots and entries together.
LEMMA AdvanceSnapshot ==
    ASSUME TypeOK, GenInv, SnapshotInv, NEW t \in Threads, Advance(t)
    PROVE  SnapshotInv'
<1>1. ASSUME stage[t] # "idle" PROVE t \in DOMAIN gen /\ GenOK(stage[t], gen[t])
  BY <1>1 DEF GenInv
<1>2. CASE AdmissionRefused(t) \/ AdmissionGranted(t)
  <2>1. BeginRequest(gen[t].prompt, gen[t].max_tokens, gen[t].observed)
    <3>1. GenOK(stage[t], gen[t])
      BY <1>1, <1>2 DEF AdmissionRefused, AdmissionGranted
    <3>2. QED BY <1>2, <3>1 DEF AdmissionRefused, AdmissionGranted, BeginRequest, GenOK
  <2>2. gen[t].prompt \in Prompts /\ gen[t].max_tokens \in MaxTokens
    BY <1>1, <1>2 DEF AdmissionRefused, AdmissionGranted, GenOK
  <2>3. QED BY <1>2, <2>1, <2>2, BeginTokens, RestrictSnapshot DEF AdmissionRefused, AdmissionGranted
<1>3. CASE Store(t)
  <2>1. gen[t].prompt \in Prompts /\ gen[t].kv = gen[t].prompt
    BY <1>1, <1>3 DEF Store, GenOK
  <2>2. QED BY <1>3, <2>1, StoreSnapshot DEF Store
<1>4. CASE DropLease(t)
  <2>1. PICK r \in Requests : FinishRequest(r)
    BY <1>1, <1>4 DEF DropLease, GenOK
  <2>2. DOMAIN entries' = DOMAIN entries /\ \A k \in DOMAIN entries : entries'[k].tokens = entries[k].tokens
    BY <2>1, FinishRequestEffect DEF SameButPins
  <2>3. QED BY <1>4, <2>2 DEF DropLease, SnapshotInv, SnapshotsMatchTokens
<1>5. CASE \/ MakeCache(t) \/ MakeCacheFails(t) \/ LockModel(t) \/ Prefill(t) \/ DecodeStep(t)
           \/ Emit(t) \/ RuntimeError(t) \/ RuntimePanic(t) \/ DropModelGuard(t)
  <2>1. UNCHANGED <<entries, snapshot>>
    BY <1>5 DEF MakeCache, MakeCacheFails, LockModel, Prefill, DecodeStep, Emit, RuntimeError,
                RuntimePanic, DropModelGuard, managerVars
  <2>2. QED BY <2>1 DEF SnapshotInv, SnapshotsMatchTokens
<1>6. QED BY <1>2, <1>3, <1>4, <1>5 DEF Advance

-----------------------------------------------------------------------------
(***************************************************************************)
(* Reservations and generations go together                                *)
(***************************************************************************)

\* What is known of the reservation a of a generation at stage s with locals g.
ReservationOK(s, g, a) ==
    /\ a.prompt = g.prompt
    /\ a.estimated_bytes = EstimatedBytes(g.prompt, g.max_tokens)
    /\ s = "make_cache" => a.borrowed_prefix = {}

\* From its admission on, a generation has a reservation that no other one has.
Reserved(t) ==
    \E r \in DOMAIN active_requests :
        /\ gen[t].request = {r}
        /\ ReservationOK(stage[t], gen[t], active_requests[r])
        /\ \A u \in DOMAIN gen : u # t => gen[u].request # {r}

ReservedInv ==
    /\ \A t \in DOMAIN gen : stage[t] # "admission" => Reserved(t)
    /\ ReservationHasOwner

\* A reservation stays its generation's if both stay what they are.
LEMMA ReservedStays ==
    ASSUME NEW t, Reserved(t), t \in DOMAIN gen',
           gen'[t].request = gen[t].request,
           \A r \in DOMAIN active_requests : gen[t].request = {r} =>
              /\ r \in DOMAIN active_requests' /\ active_requests'[r] = active_requests[r]
              /\ \A u \in DOMAIN gen' : u # t => gen'[u].request # {r},
           gen'[t].prompt = gen[t].prompt, gen'[t].max_tokens = gen[t].max_tokens,
           stage'[t] = "make_cache" => stage[t] = "make_cache"
    PROVE  Reserved(t)'
<1>1. PICK r \in DOMAIN active_requests :
        gen[t].request = {r} /\ ReservationOK(stage[t], gen[t], active_requests[r])
  BY DEF Reserved
<1>2. r \in DOMAIN active_requests' /\ ReservationOK(stage'[t], gen'[t], active_requests'[r])
  BY <1>1 DEF ReservationOK, EstimatedBytes
<1>3. gen'[t].request = {r} /\ \A u \in DOMAIN gen' : u # t => gen'[u].request # {r}
  BY <1>1
<1>4. ReservationOK(stage[t], gen[t], active_requests[r])'
        <=> ReservationOK(stage'[t], gen'[t], active_requests'[r])
  BY DEF ReservationOK, EstimatedBytes
<1>5. QED BY <1>2, <1>3, <1>4 DEF Reserved

\* A step that changes no reservation and no request of a generation, admits
\* nobody and heals no poisoned lock.
LEMMA SameReservations ==
    ASSUME GenInv, ReservedInv, UNCHANGED active_requests, DOMAIN gen' = DOMAIN gen,
           \A u \in DOMAIN gen :
              /\ gen'[u].request = gen[u].request /\ gen'[u].prompt = gen[u].prompt
              /\ gen'[u].max_tokens = gen[u].max_tokens
              /\ stage'[u] # "admission" => stage[u] # "admission"
              /\ stage'[u] = "make_cache" => stage[u] = "make_cache",
           model_poisoned => model_poisoned'
    PROVE  ReservedInv'
<1>1. ASSUME NEW t \in DOMAIN gen, stage'[t] # "admission" PROVE Reserved(t)'
  <2>1. Reserved(t) /\ stage[t] # "admission"
    BY <1>1 DEF ReservedInv
  <2>2. \A r \in DOMAIN active_requests : gen[t].request = {r} =>
          /\ r \in DOMAIN active_requests' /\ active_requests'[r] = active_requests[r]
          /\ \A u \in DOMAIN gen' : u # t => gen'[u].request # {r}
    BY <2>1 DEF Reserved
  <2>3. QED BY <2>1, <2>2, ReservedStays
<1>2. ReservationHasOwner'
  BY DEF ReservedInv, ReservationHasOwner
<1>3. QED BY <1>1, <1>2 DEF ReservedInv

\* A thread that is not admitted leaves no reservation behind.
LEMMA RefusedReservations ==
    ASSUME GenInv, ReservedInv, UNCHANGED <<active_requests, model_poisoned>>,
           NEW t \in Threads, stage[t] # "idle", Leave(t),
           \/ gen[t].request = {}
           \/ model_poisoned /\ stage[t] = "make_cache"
    PROVE  ReservedInv'
<1>1. DOMAIN gen' = DOMAIN gen \ {t} /\ \A u \in DOMAIN gen \ {t} : gen'[u] = gen[u]
  BY DEF Leave, Restrict
<1>2. t \in DOMAIN gen /\ \A u \in DOMAIN gen \ {t} : stage'[u] = stage[u]
  BY DEF GenInv, Leave, GoTo
<1>3. ASSUME NEW v \in DOMAIN gen \ {t}, stage'[v] # "admission" PROVE Reserved(v)'
  <2>1. Reserved(v)
    BY <1>2, <1>3 DEF ReservedInv
  <2>2. \A r \in DOMAIN active_requests : gen[v].request = {r} =>
          /\ r \in DOMAIN active_requests' /\ active_requests'[r] = active_requests[r]
          /\ \A u \in DOMAIN gen' : u # v => gen'[u].request # {r}
    BY <1>1, <2>1 DEF Reserved
  <2>3. QED BY <1>1, <1>2, <2>1, <2>2, ReservedStays
<1>4. \A r \in DOMAIN active_requests :
        gen[t].request = {r} => model_poisoned /\ active_requests[r].borrowed_prefix = {}
  BY <1>2 DEF ReservedInv, Reserved, ReservationOK
<1>5. ReservationHasOwner'
  <2> SUFFICES ASSUME NEW r \in DOMAIN active_requests
               PROVE  \/ \E u \in DOMAIN gen' : gen'[u].request = {r}
                      \/ model_poisoned /\ active_requests[r].borrowed_prefix = {}
    BY DEF ReservationHasOwner
  <2>1. CASE gen[t].request = {r}
    BY <1>4, <2>1
  <2>2. CASE gen[t].request # {r}
    BY <1>1, <2>2 DEF ReservedInv, ReservationHasOwner
  <2>3. QED BY <2>1, <2>2
<1>6. QED BY <1>1, <1>3, <1>5 DEF ReservedInv

\* The new reservation is the new generation's: nobody else has its request.
LEMMA GrantedReservations ==
    ASSUME TypeOK, GenInv, ReservedInv, NEW t \in Threads, AdmissionGranted(t)
    PROVE  ReservedInv'
<1> DEFINE found == FindLongestPrefixKey(gen[t].prompt)
<1>1. t \in DOMAIN gen /\ GenOK("admission", gen[t]) /\ stage[t] = "admission"
  BY DEF AdmissionGranted, GenInv
<1>2. PICK r \in Requests :
        /\ BeginAdmitted(r, gen[t].prompt, gen[t].max_tokens, gen[t].observed)
        /\ DOMAIN gen' = DOMAIN gen
        /\ \A u \in DOMAIN gen \ {t} : gen'[u] = gen[u] /\ stage'[u] = stage[u]
        /\ gen'[t].request = {r} /\ gen'[t].prompt = gen[t].prompt
        /\ gen'[t].max_tokens = gen[t].max_tokens
        /\ stage'[t] = IF active_requests'[r].borrowed_prefix = {} THEN "make_cache"
                       ELSE "lock_model"
  <2>1. PICK r \in Requests :
          /\ BeginAdmitted(r, gen[t].prompt, gen[t].max_tokens, gen[t].observed)
          /\ \E kv : gen' = [gen EXCEPT ![t].observed = 0, ![t].request = {r},
                              ![t].prefix_len = active_requests'[r].prefix_len, ![t].kv = kv]
          /\ GoTo(t, IF active_requests'[r].borrowed_prefix = {} THEN "make_cache"
                     ELSE "lock_model")
    BY DEF AdmissionGranted
  <2>2. /\ DOMAIN gen' = DOMAIN gen
        /\ \A u \in DOMAIN gen \ {t} : gen'[u] = gen[u]
        /\ gen'[t].request = {r} /\ gen'[t].prompt = gen[t].prompt
        /\ gen'[t].max_tokens = gen[t].max_tokens
    BY <1>1, <2>1 DEF GenOK, GenFields
  <2>3. /\ \A u \in DOMAIN gen \ {t} : stage'[u] = stage[u]
        /\ stage'[t] = IF active_requests'[r].borrowed_prefix = {} THEN "make_cache"
                       ELSE "lock_model"
    BY <2>1 DEF GoTo, GenInv
  <2>4. QED BY <2>1, <2>2, <2>3
<1>3. PICK owned \in SUBSET Pages :
        Admits(r, NewReservation(gen[t].prompt, gen[t].max_tokens, found, owned))
  BY <1>1, <1>2, BeginAdmittedEffect DEF GenOK
<1>4. /\ r \notin DOMAIN active_requests
      /\ DOMAIN active_requests' = DOMAIN active_requests \cup {r}
      /\ active_requests'[r].prompt = gen[t].prompt
      /\ active_requests'[r].estimated_bytes = EstimatedBytes(gen[t].prompt, gen[t].max_tokens)
      /\ \A q \in DOMAIN active_requests : active_requests'[q] = active_requests[q]
  BY <1>3 DEF Admits, NewReservation
<1>5. \A u \in DOMAIN gen : gen[u].request # {r}
  <2> SUFFICES ASSUME NEW u \in DOMAIN gen PROVE gen[u].request # {r}
    OBVIOUS
  <2>1. CASE stage[u] = "admission"
    BY <2>1 DEF GenInv, GenOK
  <2>2. CASE stage[u] # "admission"
    BY <1>4, <2>2 DEF ReservedInv, Reserved
  <2>3. QED BY <2>1, <2>2
<1>6. Reserved(t)'
  <2>1. ReservationOK(stage[t], gen[t], active_requests[r])'
    BY <1>2, <1>4 DEF ReservationOK, EstimatedBytes
  <2>2. \A u \in DOMAIN gen' : u # t => gen'[u].request # {r}
    BY <1>2, <1>5
  <2>3. QED BY <1>2, <1>4, <2>1, <2>2 DEF Reserved
<1>7. ASSUME NEW v \in DOMAIN gen \ {t}, stage'[v] # "admission" PROVE Reserved(v)'
  <2>1. Reserved(v)
    BY <1>2, <1>7 DEF ReservedInv
  <2>2. \A q \in DOMAIN active_requests : gen[v].request = {q} =>
          /\ q \in DOMAIN active_requests' /\ active_requests'[q] = active_requests[q]
          /\ \A u \in DOMAIN gen' : u # v => gen'[u].request # {q}
    BY <1>2, <1>4, <2>1 DEF Reserved
  <2>3. QED BY <1>2, <2>1, <2>2, ReservedStays
<1>8. UNCHANGED model_poisoned
  BY DEF AdmissionGranted
<1>9. ReservationHasOwner'
  <2>1. \A q \in DOMAIN active_requests, u \in DOMAIN gen :
           gen[u].request = {q} => gen'[u].request = {q}
    BY <1>1, <1>2 DEF GenOK
  <2>2. QED BY <1>1, <1>2, <1>4, <1>8, <2>1 DEF ReservedInv, ReservationHasOwner
<1>10. QED BY <1>2, <1>6, <1>7, <1>9 DEF ReservedInv

\* The lease finishes its own request, and no other generation's.
LEMMA DroppedReservations ==
    ASSUME TypeOK, GenInv, ReservedInv, NEW t \in Threads, DropLease(t)
    PROVE  ReservedInv'
<1>1. t \in DOMAIN gen /\ stage[t] = "finish" /\ Leave(t) /\ UNCHANGED model_poisoned
  BY DEF DropLease, GenInv
<1>2. DOMAIN gen' = DOMAIN gen \ {t} /\ \A u \in DOMAIN gen \ {t} : gen'[u] = gen[u]
  BY <1>1 DEF Leave, Restrict
<1>3. \A u \in DOMAIN gen \ {t} : stage'[u] = stage[u]
  BY <1>1 DEF GenInv, Leave, GoTo
<1>4. PICK r \in gen[t].request : FinishRequest(r)
  BY DEF DropLease
<1>5. gen[t].request = {r} /\ r \in Requests
  BY <1>1, <1>4 DEF ReservedInv, Reserved, TypeOK
<1>6. /\ DOMAIN active_requests' = DOMAIN active_requests \ {r}
      /\ \A q \in DOMAIN active_requests' : active_requests'[q] = active_requests[q]
  BY <1>4, <1>5, FinishRequestEffect
<1>7. \A u \in DOMAIN gen \ {t} : gen[u].request # {r}
  BY <1>1, <1>5 DEF ReservedInv, Reserved
<1>8. ASSUME NEW v \in DOMAIN gen \ {t}, stage'[v] # "admission" PROVE Reserved(v)'
  <2>1. Reserved(v)
    BY <1>3, <1>8 DEF ReservedInv
  <2>2. \A q \in DOMAIN active_requests : gen[v].request = {q} =>
          /\ q \in DOMAIN active_requests' /\ active_requests'[q] = active_requests[q]
          /\ \A u \in DOMAIN gen' : u # v => gen'[u].request # {q}
    BY <1>2, <1>6, <1>7, <2>1 DEF Reserved
  <2>3. QED BY <1>2, <1>3, <2>1, <2>2, ReservedStays
<1>9. ReservationHasOwner'
  BY <1>1, <1>2, <1>5, <1>6 DEF ReservedInv, ReservationHasOwner
<1>10. QED BY <1>2, <1>8, <1>9 DEF ReservedInv

\* Every step of a thread keeps reservations and generations together.
LEMMA AdvanceReserved ==
    ASSUME TypeOK, GenInv, ReservedInv, NEW t \in Threads, Advance(t)
    PROVE  ReservedInv'
<1>1. ASSUME stage[t] # "idle" PROVE t \in DOMAIN gen /\ GenOK(stage[t], gen[t])
  BY <1>1 DEF GenInv
<1>2. CASE AdmissionRefused(t)
  <2>1. stage[t] = "admission" /\ gen[t].request = {}
    BY <1>1, <1>2 DEF AdmissionRefused, GenOK
  <2>2. UNCHANGED active_requests
    BY <1>2 DEF AdmissionRefused, BeginOverBudget, BeginOverRuntimeBudget, BeginNoPages, vars
  <2>3. QED BY <1>2, <2>1, <2>2, RefusedReservations DEF AdmissionRefused
<1>3. CASE AdmissionGranted(t)
  BY <1>3, GrantedReservations
<1>4. CASE MakeCacheFails(t)
  BY <1>4, RefusedReservations DEF MakeCacheFails, managerVars
<1>5. CASE DropLease(t)
  BY <1>5, DroppedReservations
<1>6. CASE Store(t) \/ DecodeStep(t)
  <2>1. t \in DOMAIN gen /\ GenOK(stage[t], gen[t]) /\ NewToken(t)
    BY <1>1, <1>6 DEF Store, DecodeStep
  <2>2. UNCHANGED <<active_requests, model_poisoned>>
    BY <1>6 DEF Store, StoreReplaced, StoreInserted, StoreSkipped, StoreGivesUp, DecodeStep,
                managerVars, vars
  <2>3. PICK n, f : gen' = [gen EXCEPT ![t].generated = n, ![t].finished = f]
    BY <2>1 DEF NewToken
  <2>4. /\ DOMAIN gen' = DOMAIN gen
        /\ \A u \in DOMAIN gen : /\ gen'[u].request = gen[u].request
                                /\ gen'[u].prompt = gen[u].prompt
                                /\ gen'[u].max_tokens = gen[u].max_tokens
    BY <2>1, <2>3 DEF GenOK, GenFields
  <2>5. /\ stage[t] # "admission" /\ stage'[t] # "make_cache"
        /\ \A u \in DOMAIN gen \ {t} : stage'[u] = stage[u]
    BY <1>6, <2>1 DEF Store, DecodeStep, NewToken, GoTo, GenInv
  <2>6. QED BY <2>2, <2>4, <2>5, <1>6, SameReservations DEF Store, DecodeStep
<1>7. CASE Prefill(t)
  <2>1. t \in DOMAIN gen /\ GenOK(stage[t], gen[t])
    BY <1>1, <1>7 DEF Prefill
  <2>2. /\ DOMAIN gen' = DOMAIN gen
        /\ \A u \in DOMAIN gen : /\ gen'[u].request = gen[u].request
                                /\ gen'[u].prompt = gen[u].prompt
                                /\ gen'[u].max_tokens = gen[u].max_tokens
    BY <1>7, <2>1 DEF Prefill, GenOK, GenFields
  <2>3. /\ stage[t] # "admission" /\ stage'[t] # "make_cache"
        /\ \A u \in DOMAIN gen \ {t} : stage'[u] = stage[u]
    BY <1>7 DEF Prefill, GoTo, GenInv
  <2>4. UNCHANGED <<active_requests, model_poisoned>>
    BY <1>7 DEF Prefill, managerVars
  <2>5. QED BY <2>2, <2>3, <2>4, SameReservations
<1>8. CASE \/ MakeCache(t) \/ LockModel(t) \/ Emit(t)
           \/ RuntimeError(t) \/ RuntimePanic(t) \/ DropModelGuard(t)
  <2>1. UNCHANGED <<active_requests, gen>> /\ (model_poisoned => model_poisoned')
    BY <1>8 DEF MakeCache, LockModel, Emit, RuntimeError, RuntimePanic, DropModelGuard, managerVars
  <2>2. \E s : GoTo(t, s) /\ stage[t] # "admission" /\ s # "make_cache"
    BY <1>8 DEF MakeCache, LockModel, Emit, RuntimeError, RuntimePanic, DropModelGuard
  <2>3. \A u \in DOMAIN gen : /\ stage'[u] # "admission" => stage[u] # "admission"
                              /\ stage'[u] = "make_cache" => stage[u] = "make_cache"
    BY <2>2 DEF GoTo, GenInv
  <2>4. QED BY <2>1, <2>3, SameReservations
<1>9. QED BY <1>2, <1>3, <1>4, <1>5, <1>6, <1>7, <1>8 DEF Advance

-----------------------------------------------------------------------------
(***************************************************************************)
(* The engine's inductive invariant                                        *)
(***************************************************************************)

EngineInv == TypeOK /\ GenInv /\ SnapshotInv /\ ReservedInv

LEMMA EngineInvInit == EngineInit => EngineInv
<1> SUFFICES ASSUME EngineInit PROVE EngineInv
  OBVIOUS
<1>1. TypeOK
  BY DEF EngineInit, Init, TypeOK
<1>2. GenInv
  BY DEF EngineInit, GenInv, Stages
<1>3. SnapshotInv /\ ReservedInv
  BY DEF EngineInit, Init, SnapshotInv, SnapshotsMatchTokens, ReservedInv, ReservationHasOwner
<1>4. QED BY <1>1, <1>2, <1>3 DEF EngineInv

\* A new call has no request yet.
LEMMA CallKeepsInv ==
    ASSUME EngineInv, NEW t \in Threads, NEW prompt \in Prompts, NEW max_tokens \in MaxTokens,
           NEW streaming \in BOOLEAN, Call(t, prompt, max_tokens, streaming)
    PROVE  GenInv' /\ SnapshotInv' /\ ReservedInv'
<1>1. /\ t \notin DOMAIN gen /\ GoTo(t, "admission")
      /\ UNCHANGED <<entries, active_requests, snapshot, model_poisoned>>
  BY DEF Call, EngineInv, GenInv, managerVars
<1>2. /\ DOMAIN gen' = DOMAIN gen \cup {t}
      /\ \A u \in DOMAIN gen \ {t} : gen'[u] = gen[u]
      /\ gen'[t] = [prompt |-> prompt, max_tokens |-> max_tokens, streaming |-> streaming,
                    observed |-> ActiveMemoryBytes, request |-> {}, prefix_len |-> 0,
                    kv |-> << >>, generated |-> 0, finished |-> FALSE]
  BY DEF Call
<1>3. GenOK("admission", gen'[t])
  <2>1. Len(prompt) \in Nat /\ max_tokens \in Nat
    BY PromptAssumption, SizeAssumption
  <2>2. QED BY <1>2, <2>1 DEF GenOK, GenFields
<1>4. GenInv'
  BY <1>1, <1>2, <1>3, MoveKeepsGen DEF EngineInv, Stages
<1>5. SnapshotInv'
  BY <1>1 DEF EngineInv, SnapshotInv, SnapshotsMatchTokens
<1>6. /\ stage'[t] = "admission" /\ gen'[t].request = {}
      /\ \A u \in DOMAIN gen : stage'[u] = stage[u] /\ gen'[u] = gen[u] /\ u # t
  BY <1>1, <1>2 DEF EngineInv, GenInv, GoTo
<1>7. ASSUME NEW v \in DOMAIN gen', stage'[v] # "admission" PROVE Reserved(v)'
  <2>1. v \in DOMAIN gen
    BY <1>2, <1>6, <1>7
  <2>2. Reserved(v)
    BY <1>6, <1>7, <2>1 DEF EngineInv, ReservedInv
  <2>3. \A q \in DOMAIN active_requests : gen[v].request = {q} =>
          /\ q \in DOMAIN active_requests' /\ active_requests'[q] = active_requests[q]
          /\ \A u \in DOMAIN gen' : u # v => gen'[u].request # {q}
    BY <1>1, <1>2, <1>6, <2>2 DEF Reserved
  <2>4. QED BY <1>6, <1>7, <2>1, <2>2, <2>3, ReservedStays
<1>8. ReservationHasOwner'
  BY <1>1, <1>2, <1>6 DEF EngineInv, ReservedInv, ReservationHasOwner
<1>9. QED BY <1>4, <1>5, <1>7, <1>8 DEF ReservedInv

LEMMA EngineInvStep ==
    ASSUME EngineInv, [EngineNext]_engineVars
    PROVE  EngineInv'
<1>1. TypeOK'
  BY EngineCallsManager, TypeStep DEF EngineInv
<1>2. CASE Calls
  BY <1>1, <1>2, CallKeepsInv DEF Calls, EngineInv
<1>3. ASSUME NEW t \in Threads, Advance(t) PROVE EngineInv'
  BY <1>1, <1>3, AdvanceGen, AdvanceSnapshot, AdvanceReserved DEF EngineInv
<1>4. CASE ClearRuntimeCache
  <2>1. TokensKept
    BY <1>4, EvictAllEffect, KeepsEntriesTokens DEF ClearRuntimeCache, EvictsAllUnpinned, EngineInv
  <2>2. SnapshotInv'
    BY <1>4, <2>1, RestrictSnapshot DEF ClearRuntimeCache, EngineInv
  <2>3. UNCHANGED <<stage, gen, model_poisoned, active_requests>>
    BY <1>4 DEF ClearRuntimeCache, ClearPrefixes
  <2>4. GenInv' /\ ReservedInv'
    BY <2>3, SameReservations DEF EngineInv, GenInv
  <2>5. QED BY <1>1, <2>2, <2>4 DEF EngineInv
<1>5. ASSUME UNCHANGED <<managerVars, stage, gen, snapshot, model_poisoned>> PROVE EngineInv'
  <2>1. GenInv' /\ SnapshotInv'
    BY <1>5 DEF EngineInv, GenInv, SnapshotInv, SnapshotsMatchTokens, managerVars
  <2>2. ReservedInv'
    BY <1>5, SameReservations DEF EngineInv, managerVars
  <2>3. QED BY <1>1, <2>1, <2>2 DEF EngineInv
<1>6. ASSUME NEW t \in Threads, Receive(t) \/ HangUp(t) PROVE EngineInv'
  BY <1>5, <1>6 DEF Receive, HangUp
<1>7. CASE UNCHANGED engineVars
  BY <1>5, <1>7 DEF engineVars
<1>8. QED BY <1>2, <1>3, <1>4, <1>6, <1>7 DEF EngineNext

\* The engine's locals, snapshots, reservations and prefix entries always agree.
LEMMA EngineInvariant == EngineSpec => []EngineInv
<1>1. EngineInv /\ [EngineNext]_engineVars => EngineInv'
  BY EngineInvStep
<1>2. QED BY <1>1, EngineInvInit, PTL DEF EngineSpec

\* A stored snapshot covers exactly the tokens of its prefix entry, whatever is
\* inserted, replaced, evicted or cleared by whichever thread.
THEOREM SnapshotsCorrect == EngineSpec => []SnapshotsMatchTokens
<1>1. EngineInv => SnapshotsMatchTokens
  BY DEF EngineInv, SnapshotInv
<1>2. QED BY <1>1, EngineInvariant, PTL

\* After prefill a generation's KV cache covers exactly its own prompt, with or
\* without a borrowed prefix, also when hashes collide.
THEOREM PrefillCorrect == EngineSpec => []PrefilledWithOwnPrompt
<1>1. EngineInv => PrefilledWithOwnPrompt
  BY DEF EngineInv, GenInv, GenOK, PrefilledWithOwnPrompt
<1>2. QED BY <1>1, EngineInvariant, PTL

\* From admission to the drop of its lease every generation holds a reservation of
\* its own, for its own prompt.
THEOREM RunningReserved == EngineSpec => []RunningIsReserved
<1>1. EngineInv => RunningIsReserved
  BY DEF EngineInv, ReservedInv, Reserved, ReservationOK, RunningIsReserved
<1>2. QED BY <1>1, EngineInvariant, PTL

\* A reservation belongs to the generation that made it until its lease is dropped, on
\* every path through prepare_generation and generate.  One that meets a poisoned model
\* mutex in prepare_generation is left behind, but it borrows nothing.
THEOREM ReservationsOwned == EngineSpec => []ReservationHasOwner
<1>1. EngineInv => ReservationHasOwner
  BY DEF EngineInv, ReservedInv
<1>2. QED BY <1>1, EngineInvariant, PTL

\* What a generation comes to hold, its prompt and the tokens it generates, is within
\* the estimate it was admitted with, with or without a borrowed prefix.
THEOREM GenerationsFit == EngineSpec => []GenerationFitsEstimate
<1>1. EngineInv => GenerationFitsEstimate
  <2> SUFFICES ASSUME EngineInv, NEW t \in DOMAIN gen,
                      NEW r \in gen[t].request \cap DOMAIN active_requests
               PROVE  BytesPerToken * (Len(gen[t].kv) + gen[t].generated)
                        <= active_requests[r].estimated_bytes
    BY DEF GenerationFitsEstimate
  <2>1. GenOK(stage[t], gen[t])
    BY DEF EngineInv, GenInv
  <2>2. stage[t] # "admission"
    BY <2>1 DEF GenOK
  <2>3. active_requests[r].estimated_bytes
          = (Len(gen[t].prompt) + gen[t].max_tokens) * BytesPerToken
    BY <2>2 DEF EngineInv, ReservedInv, Reserved, ReservationOK, EstimatedBytes
  <2> DEFINE held  == Len(gen[t].kv) + gen[t].generated
             limit == Len(gen[t].prompt) + gen[t].max_tokens
  <2>4. held \in Nat /\ limit \in Nat /\ held <= limit
    <3>1. /\ Len(gen[t].prompt) \in Nat /\ gen[t].max_tokens \in Nat
          /\ Len(gen[t].kv) \in 0..Len(gen[t].prompt)
          /\ gen[t].generated \in 0..gen[t].max_tokens
      <4>1. gen[t].prompt \in Prompts /\ gen[t].max_tokens \in MaxTokens
        BY <2>1 DEF GenOK
      <4>2. gen[t].max_tokens \in Nat
        BY <4>1, SizeAssumption
      <4>3. Len(gen[t].prompt) \in Nat
        BY <4>1, PromptAssumption
      <4>4. QED BY <2>1, <4>2, <4>3 DEF GenOK
    <3>2. QED BY <3>1
  <2> HIDE DEF held, limit
  <2>5. BytesPerToken * held <= limit * BytesPerToken
    <3>1. PICK rest \in Nat : limit = held + rest
      BY <2>4
    <3>2. limit * BytesPerToken = BytesPerToken * held + BytesPerToken * rest
      BY <2>4, <3>1, SizeAssumption
    <3>3. BytesPerToken * held \in Nat /\ BytesPerToken * rest \in Nat
      BY <2>4, <3>1, NatProduct, SizeAssumption
    <3>4. QED BY <3>2, <3>3
  <2>6. QED BY <2>3, <2>5 DEF held, limit
<1>2. QED BY <1>1, EngineInvariant, PTL

-----------------------------------------------------------------------------
(***************************************************************************)
(* What the manager promises holds inside the engine                       *)
(***************************************************************************)

\* The engine calls the manager as the manager's theorems assume: under its mutex,
\* one call at a time, with prompts and limits of requests.
THEOREM EngineUsesManager == EngineSpec => ManagerSpec
<1>1. EngineInit => Init
  BY DEF EngineInit
<1>2. EngineInv /\ [EngineNext]_engineVars => [ManagerNext]_vars
  BY EngineCallsManager DEF EngineInv
<1>3. QED BY <1>1, <1>2, EngineInvariant, PTL DEF EngineSpec, ManagerSpec

\* With the engine's threads as callers, no page of the manager is held twice.
THEOREM EnginePagesHeldOnce == EngineSpec => []NoPageHeldTwice
BY EngineUsesManager, ManagerPagesApart

\* With the engine's threads as callers, and distinct hashes, the entry a running
\* generation borrows from stays and keeps the tokens it borrowed.
THEOREM EngineBorrowedPrefixStays == HashInjective => (EngineSpec => []BorrowedPrefixIntact)
BY EngineUsesManager, ManagerBorrowed

\* The engine's manager is an abstract page pool.
THEOREM EngineRefinesPagePool == HashInjective => (EngineSpec => ImplementsPagePool)
BY EngineUsesManager, ManagerIsPagePool

\* However generations and debug calls interleave, the cache keeps its limit, and
\* the order of access stays total.
THEOREM EngineEntriesCorrect == EngineSpec => []EntriesBoundedAndOrdered
BY EngineUsesManager, ManagerEntries

\* A generation's pages are its own until its lease is dropped, and then free.
THEOREM EngineLeasesExclusive == EngineSpec => LeasesAreExclusive
BY EngineUsesManager, ManagerLeases

\* Generations and debug calls evict in LRU order, and nothing that is borrowed.
THEOREM EngineEvictionIsLRU == HashInjective => (EngineSpec => EvictsLeastRecent)
BY EngineUsesManager, ManagerEvictions

\* What a running generation was estimated at is paid for, by its own pages and by
\* those of the prefix it borrows, whatever others store meanwhile.
THEOREM EngineReservationsPaid == HashInjective => (EngineSpec => []ReservationCoversEstimate)
BY EngineUsesManager, ManagerCovers

\* The counters that the debug route adds up agree under any interleaving.
THEOREM EngineStatsAgree == HashInjective => (EngineSpec => []StatsAddUp)
BY EngineUsesManager, ManagerCounts
=============================================================================

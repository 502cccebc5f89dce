------------------------------- MODULE Sampler -------------------------------
(***************************************************************************)
(* How a token is chosen from the scores the model gives the vocabulary:   *)
(* sample_token_id of crates/mlx-engine/src/simple.rs, on the device or on *)
(* the host, and `sample' of crates/mlx-models/src/lib.rs, which the       *)
(* library offers beside it.                                               *)
(*                                                                         *)
(* Scores are integers and a probability is an integer weight: Exp is any  *)
(* function that is zero or grows with its argument, and Exp(0) is the     *)
(* weight of probability one.  Top-p thresholds are in quarters.  What     *)
(* only rounding or a draw of exactly zero can give is among the outcomes  *)
(* of a draw.                                                              *)
(* Penalties below one, infinite scores and NaN are left out.              *)
(***************************************************************************)
EXTENDS Integers, Sequences, FiniteSets, Functions, FiniteSetsExt, SequencesExt

CONSTANTS
    VocabSize,
    Logits,             \* scores a model gives
    Exp(_),             \* the weight of a score relative to the best one
    Temperatures,       \* 0 (greedy) or 1
    TopKs,              \* 0 for none
    TopPs,              \* in quarters
    Penalties,          \* 1 for none
    MaxHistory          \* bound: tokens of prompt and completion

Vocabulary == 1..VocabSize

ASSUME SamplerAssumption ==
    /\ VocabSize \in Nat \ {0}
    /\ Logits \subseteq Int /\ Logits # {}
    /\ Temperatures \subseteq {0, 1}
    /\ TopKs \subseteq Nat
    /\ TopPs \subseteq 0..4
    /\ Penalties \subseteq Nat \ {0}

NoToken == 0

VARIABLES
    sampling,           \* the SamplingConfig of the generation, and who samples
    history_tokens,     \* prompt and completion so far
    logits,             \* what the model gave for the last token
    scores,             \* the same after the penalty
    weights,            \* the same after the cuts; 0 is cut off
    token               \* what was drawn

samplerVars == <<sampling, history_tokens, logits, scores, weights, token>>

\* The first token with the highest score, as argmax and the loop find it.
FirstBest(s) == Min({i \in Vocabulary : \A j \in Vocabulary : s[j] <= s[i]})

\* Mutant: divides whatever the sign.
PenaliseByDivision(value, penalty) == value \div penalty

\* A penalty makes a score worse, whatever its sign.
Penalise(value, penalty) == IF value < 0 THEN value * penalty ELSE value \div penalty
PenaliseToken(s, t, penalty) == [s EXCEPT ![t] = Penalise(@, penalty)]

\* Once for each occurrence in the history.
Penalised(l, penalty, tokens) ==
    FoldLeft(LAMBDA s, t : PenaliseToken(s, t, penalty), l, tokens)

Ahead(s, i) == {j \in Vocabulary : s[j] > s[i] \/ (s[j] = s[i] /\ j < i)}

\* Mutant: the threshold is one place too low.
TopKOffByOne(s, top_k) ==
    IF top_k \in 1..(VocabSize - 1)
    THEN {i \in Vocabulary : Cardinality({j \in Vocabulary : s[j] > s[i]}) <= top_k}
    ELSE Vocabulary

\* The scores that reach the k-th highest one; ties are kept.
TopK(s, top_k) ==
    IF top_k \in 1..(VocabSize - 1)
    THEN {i \in Vocabulary : Cardinality({j \in Vocabulary : s[j] > s[i]}) < top_k}
    ELSE Vocabulary

Sum(w, S) == SumFunctionOnSet(w, S)

Relative(s, kept) ==
    LET best == Max({s[i] : i \in kept})
    IN  [i \in Vocabulary |-> IF i \in kept THEN Exp(s[i] - best) ELSE 0]

\* From the highest weight down, until what is kept sums up to the threshold; the
\* weights have not been divided by their total.
TopP(w, top_p) ==
    IF top_p = 4 THEN w
    ELSE [i \in Vocabulary |->
            IF Ahead(w, i) = {} \/ 4 * Sum(w, Ahead(w, i)) < top_p * Exp(0) THEN w[i] ELSE 0]

RequiresHostSampling(c) == c.repetition_penalty # 1 \/ c.top_k > 0 \/ c.top_p < 4

\* The running sum reaches the draw at a token with a weight; a draw of zero is
\* reached at the first token, and one above all sums ends at the last.
Draw(w) == {i \in Vocabulary : w[i] > 0} \cup {1, VocabSize}

Greedy(s) ==
    /\ weights' = [i \in Vocabulary |-> IF i = FirstBest(s) THEN Exp(0) ELSE 0]
    /\ token' = FirstBest(s)

SampleOnDevice ==
    /\ ~RequiresHostSampling(sampling)
    /\ scores' = logits'
    /\ IF sampling.temperature = 0
       THEN Greedy(logits')
       ELSE /\ weights' = Relative(logits', Vocabulary)
            /\ token' \in Vocabulary

SampleOnHost ==
    /\ RequiresHostSampling(sampling)
    /\ scores' = Penalised(logits', sampling.repetition_penalty, history_tokens')
    /\ IF sampling.temperature = 0
       THEN Greedy(scores')
       ELSE /\ weights' = TopP(Relative(scores', TopK(scores', sampling.top_k)), sampling.top_p)
            /\ token' \in Draw(weights')

\* sample_top_p of the library keeps what sums up to no more than the threshold,
\* and the first.
LibraryTopP(w, top_p) ==
    [i \in Vocabulary |->
        IF \/ Ahead(w, i) = {}
           \/ 4 * (Sum(w, Ahead(w, i)) + w[i]) <= top_p * Sum(w, Vocabulary)
        THEN w[i] ELSE 0]

\* What is kept is drawn from as if probabilities were logits, so that nothing is
\* impossible.
SampleInLibrary ==
    /\ scores' = logits'
    /\ IF sampling.temperature = 0
       THEN Greedy(logits')
       ELSE /\ weights' = LET w == Relative(logits', Vocabulary)
                         IN  IF sampling.top_p = 4 THEN w ELSE LibraryTopP(w, sampling.top_p)
            /\ token' \in Vocabulary

-----------------------------------------------------------------------------
SamplerInit ==
    /\ sampling \in [temperature : Temperatures, top_k : TopKs, top_p : TopPs,
                     repetition_penalty : Penalties, by : {"engine", "library"}]
    /\ sampling.by = "library" => sampling.top_k = 0 /\ sampling.repetition_penalty = 1
    /\ history_tokens \in {<< >>} \cup {<<t>> : t \in Vocabulary}
    /\ logits = [i \in Vocabulary |-> 0]
    /\ scores = logits
    /\ weights = [i \in Vocabulary |-> Exp(0)]
    /\ token = NoToken

\* run_prefill and decode_step: a pass of the model, then the choice.  The token
\* chosen last has been added to the history.
Sample ==
    /\ Len(history_tokens) + 1 <= MaxHistory
    /\ history_tokens' = IF token = NoToken THEN history_tokens ELSE Append(history_tokens, token)
    /\ logits' \in [Vocabulary -> Logits]
    /\ IF sampling.by = "engine" THEN SampleOnDevice \/ SampleOnHost ELSE SampleInLibrary
    /\ UNCHANGED sampling

SamplerNext == Sample
SamplerSpec == SamplerInit /\ [][SamplerNext]_samplerVars
-----------------------------------------------------------------------------
TimesIn(tokens, i) == Cardinality({n \in DOMAIN tokens : tokens[n] = i})

\* A token that occurred more often never gets ahead by it of one that the model
\* scored as high, whatever the signs of their scores; without a penalty the order
\* is the model's.
PenaltyIsMonotone ==
    token # NoToken =>
        \A i, j \in Vocabulary :
            logits[i] <= logits[j] /\ TimesIn(history_tokens, i) >= TimesIn(history_tokens, j)
                => scores[i] <= scores[j]

\* Exp tells scores apart for as long as it gives them a weight at all.
ExpGrowsOn(differences) ==
    /\ Exp(0) > 0
    /\ \A d \in differences : Exp(d) \in Nat
    /\ \A c, d \in differences : c < d => Exp(c) < Exp(d) \/ Exp(c) = 0

ExpGrows == ExpGrowsOn({d \in Int : d <= 0})

Kept == {i \in Vocabulary : weights[i] > 0}

\* The probabilities that top-p cuts from.
Considered == Relative(scores, IF sampling.by = "engine" THEN TopK(scores, sampling.top_k) ELSE Vocabulary)

\* The cuts leave the top of the ranking and no more than was asked for: a best
\* token stays, nothing better than what is kept is cut, fewer than top_k tokens
\* are better than the worst that is kept, and without the last one the kept
\* ones do not reach top_p of all that top-k left.
CutsLeaveTheTop ==
    token # NoToken /\ sampling.temperature # 0 =>
        /\ Kept # {}
        /\ \A i \in Kept, j \in Vocabulary \ Kept : scores[j] <= scores[i]
        /\ sampling.top_k > 0 =>
              \A i \in Kept : Cardinality({j \in Kept : scores[j] > scores[i]}) < sampling.top_k
        /\ sampling.top_p < 4 =>
              \A i \in Kept : Ahead(weights, i) # {} =>
                  4 * Sum(weights, Ahead(weights, i)) < sampling.top_p * Sum(Considered, Vocabulary)

\* Nucleus sampling: what the engine keeps makes up at least top_p of the probability.
NucleusReachesTopP ==
    token # NoToken /\ sampling.temperature # 0 /\ sampling.by = "engine" =>
        4 * Sum(weights, Kept) >= sampling.top_p * Sum(Considered, Vocabulary)
=============================================================================

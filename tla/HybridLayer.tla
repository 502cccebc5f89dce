---------------------------- MODULE HybridLayer ----------------------------
(***************************************************************************)
(* Inside a layer of Qwen3-Next (crates/mlx-models/src/qwen3_next.rs): how *)
(* the columns of the projections are cut into heads and paired, and how   *)
(* the mixture of experts adds up what the experts make of each token.     *)
(* ModelCache has what flows between positions, this module what flows     *)
(* between the columns and experts of the positions of one pass.           *)
(*                                                                         *)
(* A column is named by what the weights of a checkpoint give it: its      *)
(* part, its head and its place in the head; an array is its last axis in  *)
(* row-major order.  All steps in between work column by column, or within *)
(* a head, and leave these names alone.                                    *)
(***************************************************************************)
EXTENDS Integers, Sequences, FiniteSets, Functions, SequencesExt, FiniteSetsExt

CONSTANTS
    HeadCounts,         \* linear_num_key_heads and linear_num_value_heads
    HeadDims,           \* their dimensions; the code takes, and no checkpoint has, zero
    ExpertCounts,       \* num_experts
    ExpertsPerToken,    \* num_experts_per_tok
    GateWeights,        \* what the router gives an expert, before the softmax divides
    InputTokens         \* tokens of the pass

ASSUME HybridLayerAssumption ==
    /\ HeadCounts \subseteq Nat /\ HeadDims \subseteq Nat \ {0}
    /\ ExpertCounts \subseteq Nat /\ ExpertsPerToken \subseteq Nat
    /\ GateWeights \subseteq Nat \ {0}
    /\ InputTokens \in Nat \ {0}

VARIABLES
    args,           \* the parts of Qwen3NextModelArgs that matter here
    at,             \* how far the layer is
    linear,         \* by value head: the columns that meet in the delta rule
    gated,          \* by output column of full attention: what it is and what gates it
    gates,          \* by token and expert: the router's weights
    top_inds,       \* by token: the experts chosen
    mixture         \* by token: the expert outputs added so far

hybridVars == <<args, at, linear, gated, gates, top_inds, mixture>>

Experts == 1..args.num_experts

-----------------------------------------------------------------------------
(***************************************************************************)
(* Heads                                                                   *)
(***************************************************************************)

\* The columns of one part, for the heads of S in order.
Columns(part, first, last, dim) ==
    [n \in 1..((last - first + 1) * dim) |-> <<part, first + ((n - 1) \div dim), ((n - 1) % dim) + 1>>]

\* in_proj_qkvz: for each key head its query, key, and the values and output gates
\* of its value heads.  Without a whole number of value heads per key head there is
\* no such layout, only the same number of columns.
MixedQKVZ ==
    LET nk == args.num_k_heads  nv == args.num_v_heads  dk == args.head_k_dim  dv == args.head_v_dim
        f == nv \div nk
    IN  IF nv % nk # 0 THEN Columns("none", 1, 2 * (nk * dk + nv * dv), 1)
        ELSE FlattenSeq([g \in 1..nk |->
                Columns("q", g, g, dk) \o Columns("k", g, g, dk)
                    \o Columns("v", (g - 1) * f + 1, g * f, dv) \o Columns("z", (g - 1) * f + 1, g * f, dv)])

\* in_proj_ba: the same for the two scalars of each value head.
MixedBA ==
    LET nk == args.num_k_heads  nv == args.num_v_heads  f == nv \div nk
    IN  IF nv % nk # 0 THEN Columns("none", 1, 2 * nv, 1)
        ELSE FlattenSeq([g \in 1..nk |->
                Columns("b", (g - 1) * f + 1, g * f, 1) \o Columns("a", (g - 1) * f + 1, g * f, 1)])

\* reshape to n rows; to fail is to give no rows.
Rows(s, n) ==
    IF Len(s) % n # 0 THEN << >>
    ELSE LET w == Len(s) \div n IN [r \in 1..n |-> SubSeq(s, (r - 1) * w + 1, r * w)]
Heads(s, n, dim) == IF Len(s) = n * dim THEN Rows(s, n) ELSE << >>

\* split_axis on the last axis, and flat again.
Cut(rows, from, to) == FlattenSeq([r \in DOMAIN rows |-> SubSeq(rows[r], from + 1, to)])
Width(rows) == IF rows = << >> THEN 0 ELSE Len(rows[1])

\* Mutant: the heads as a whole are repeated, not each of them.
TileHeads(heads, f) == IF f > 1 THEN [h \in 1..(Len(heads) * f) |-> heads[((h - 1) % Len(heads)) + 1]] ELSE heads

\* repeat_axis: each key head for all of its value heads.
RepeatHeads(heads, f) == IF f > 1 THEN [h \in 1..(Len(heads) * f) |-> heads[((h - 1) \div f) + 1]] ELSE heads

\* fix_query_key_value_ordering, the concatenation that the convolution runs over,
\* and the split after it.
SplitLinear ==
    LET nk == args.num_k_heads  nv == args.num_v_heads  dk == args.head_k_dim  dv == args.head_v_dim
        v_per_k == nv \div nk
        key_dim == nk * dk
        qkvz == Rows(MixedQKVZ, nk)
        ba   == Rows(MixedBA, nk)
        z    == Heads(Cut(qkvz, 2 * dk + v_per_k * dv, Width(qkvz)), nv, dv)
        b_heads == Heads(Cut(ba, 0, v_per_k), nv, 1)
        a_heads == Heads(Cut(ba, v_per_k, Width(ba)), nv, 1)
        mixed_qkv == Cut(qkvz, 0, dk) \o Cut(qkvz, dk, 2 * dk) \o Cut(qkvz, 2 * dk, 2 * dk + v_per_k * dv)
        q == RepeatHeads(Heads(SubSeq(mixed_qkv, 1, key_dim), nk, dk), v_per_k)
        k == RepeatHeads(Heads(SubSeq(mixed_qkv, key_dim + 1, 2 * key_dim), nk, dk), v_per_k)
        v == Heads(SubSeq(mixed_qkv, 2 * key_dim + 1, Len(mixed_qkv)), nv, dv)
    IN  IF << >> \in {qkvz, ba, z, b_heads, a_heads, v} THEN << >>
        ELSE [h \in 1..nv |-> [q |-> q[h], k |-> k[h], v |-> v[h], z |-> z[h], b |-> b_heads[h], a |-> a_heads[h]]]

\* Full attention: q_proj gives each head its query and its gate; the gates are
\* laid flat and multiply the output, which is as flat.
GatedOutput ==
    LET n == args.num_k_heads  dim == args.head_k_dim
        q_proj  == FlattenSeq([h \in 1..n |-> Columns("query", h, h, dim) \o Columns("gate", h, h, dim)])
        q_heads == Rows(q_proj, n)
        queries == Cut(q_heads, 0, dim)
        gate    == Cut(q_heads, dim, 2 * dim)
    IN  [i \in 1..(n * dim) |-> <<queries[i], gate[i]>>]

-----------------------------------------------------------------------------
HybridInit ==
    /\ args \in [num_k_heads : HeadCounts, num_v_heads : HeadCounts,
                 head_k_dim : HeadDims, head_v_dim : HeadDims,
                 num_experts : ExpertCounts, top_k : ExpertsPerToken, norm_topk_prob : BOOLEAN]
    /\ at = "args"
    /\ linear = << >> /\ gated = << >> /\ gates = << >> /\ top_inds = << >> /\ mixture = << >>

\* The constructors refuse what makes no sense on its own.
Accepted ==
    /\ args.num_k_heads > 0 /\ args.num_v_heads > 0
    /\ args.num_experts > 0 /\ args.top_k > 0 /\ args.top_k <= args.num_experts

Build ==
    /\ at = "args"
    /\ at' = IF Accepted THEN "built" ELSE "rejected"
    /\ UNCHANGED <<args, linear, gated, gates, top_inds, mixture>>

\* One pass of the attention of either kind; that value heads do not divide among
\* key heads is noticed only here, by a reshape.
SplitHeads ==
    /\ at = "built"
    /\ linear' = SplitLinear
    /\ gated' = GatedOutput
    /\ at' = IF linear' = << >> THEN "failed" ELSE "split"
    /\ UNCHANGED <<args, gates, top_inds, mixture>>

-----------------------------------------------------------------------------
(***************************************************************************)
(* Experts                                                                 *)
(***************************************************************************)

\* argpartition: the last top_k places hold the best, in no order.
TopInds(weight) ==
    {s \in [1..args.top_k -> Experts] :
        /\ IsInjective(s)
        /\ \A e \in Experts \ Range(s) : \A k \in 1..args.top_k : weight[e] <= weight[s[k]]}

Route ==
    /\ at = "split"
    /\ gates' \in [1..InputTokens -> [Experts -> GateWeights]]
    /\ top_inds' \in {f \in [1..InputTokens -> UNION {TopInds(gates'[t]) : t \in 1..InputTokens}] :
                        \A t \in 1..InputTokens : f[t] \in TopInds(gates'[t])}
    /\ mixture' = [t \in 1..InputTokens |-> << >>]
    /\ at' = "routed"
    /\ UNCHANGED <<args, linear, gated>>

\* The score of the k-th expert of a token, as a fraction.
Score(t, k) ==
    [num |-> gates[t][top_inds[t][k]],
     den |-> IF args.norm_topk_prob
             THEN SumFunctionOnSet(gates[t], Range(top_inds[t]))
             ELSE SumFunctionOnSet(gates[t], Experts)]

\* The outputs added so far, of all tokens.
Added == SumFunction([t \in 1..InputTokens |-> Len(mixture[t])])

\* Mutant: the expert of the token's first choice each time.
AddExpertOfFirstChoice ==
    /\ at = "routed"
    /\ LET n == Added
           k == (n \div InputTokens) + 1
           t == (n % InputTokens) + 1
       IN  /\ mixture' = [mixture EXCEPT ![t] =
                            Append(@, [expert |-> top_inds[t][1], score |-> Score(t, k)])]
           /\ at' = IF n + 1 = args.top_k * InputTokens THEN "mixed" ELSE "routed"
    /\ UNCHANGED <<args, linear, gated, gates, top_inds>>

\* The two loops: one expert's output for one token is weighted and added.
AddExpert ==
    /\ at = "routed"
    /\ LET n == Added
           k == (n \div InputTokens) + 1
           t == (n % InputTokens) + 1
       IN  /\ mixture' = [mixture EXCEPT ![t] =
                            Append(@, [expert |-> top_inds[t][k], score |-> Score(t, k)])]
           /\ at' = IF n + 1 = args.top_k * InputTokens THEN "mixed" ELSE "routed"
    /\ UNCHANGED <<args, linear, gated, gates, top_inds>>

HybridNext == Build \/ SplitHeads \/ Route \/ AddExpert
HybridSpec == HybridInit /\ [][HybridNext]_hybridVars
-----------------------------------------------------------------------------
\* What the delta rule combines for a value head are that head's own columns, in
\* order, and those of the key head it belongs to, and attention's output columns
\* are gated by their own gates; a geometry for which that cannot be fails.
HeadsMeetTheirOwn ==
    /\ at \in {"split", "routed", "mixed"} =>
        /\ args.num_v_heads % args.num_k_heads = 0
        /\ LET Key(h) == ((h - 1) \div (args.num_v_heads \div args.num_k_heads)) + 1
               Own(part, h, dim) == Columns(part, h, h, dim)
           IN  linear = [h \in 1..args.num_v_heads |->
                    [q |-> Own("q", Key(h), args.head_k_dim), k |-> Own("k", Key(h), args.head_k_dim),
                     v |-> Own("v", h, args.head_v_dim), z |-> Own("z", h, args.head_v_dim),
                     b |-> Own("b", h, 1), a |-> Own("a", h, 1)]]
        /\ \A c \in Range(gated) : c[1][1] = "query" /\ c[2] = <<"gate", c[1][2], c[1][3]>>
    /\ at = "failed" => args.num_v_heads % args.num_k_heads # 0

\* Every token gets as many different experts as configured, none of them worse than
\* one it does not get, each weighted with the score that this token gave it;
\* normalised scores add up to one.
TokensMixTheirBest ==
    at = "mixed" => \A t \in 1..InputTokens :
        LET mix == mixture[t]
            chosen == {mix[n].expert : n \in DOMAIN mix}
        IN  /\ Len(mix) = args.top_k /\ Cardinality(chosen) = args.top_k
            /\ \A e \in chosen, o \in Experts \ chosen : gates[t][o] <= gates[t][e]
            /\ \A n \in DOMAIN mix : mix[n].score.num = gates[t][mix[n].expert]
            /\ args.norm_topk_prob =>
                    SumFunction([n \in DOMAIN mix |-> mix[n].score.num]) = mix[1].score.den
=============================================================================

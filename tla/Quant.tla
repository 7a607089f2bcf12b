-------------------------------- MODULE Quant --------------------------------
(***************************************************************************)
(* The transformer of libpi/src/runq.c, whose weights are bytes: a tensor  *)
(* is kept as its values q, one byte each, followed by a scale s for every *)
(* group of GS of them, and a vector is put into groups before it is       *)
(* multiplied with one.  Unlike Infer's, the offsets are in bytes.         *)
(***************************************************************************)
EXTENDS Infer

VARIABLES GS   \* the group size the file was exported with

\* The terms of the embeddings.
Dequantize(t) == <<"dequantize", GS, t>>
RowOf(table, token) == <<"row", table, token>>

\* The exported file after its header: the norms, then the tensors in bytes with their scales.
ExportedQ(p, shared, g) ==
  LET hs == head_size(p)
      norm(name) == [k \in 1 .. p.n_layers |-> [name |-> <<name, k - 1>>, size |-> p.dim, of |-> 4]]
      one(name) == <<[name |-> <<name>>, size |-> p.vocab_size * p.dim, of |-> 1]>>
      each(name, n) == [k \in 1 .. p.n_layers |-> [name |-> <<name, k - 1>>, size |-> n, of |-> 1]]
      list == norm("rms_att") \o norm("rms_ffn")
              \o <<[name |-> <<"rms_final">>, size |-> p.dim, of |-> 4]>>
              \o one("q_tokens")
              \o each("wq", p.dim * p.n_heads * hs) \o each("wk", p.dim * p.n_kv_heads * hs)
              \o each("wv", p.dim * p.n_kv_heads * hs) \o each("wo", p.n_heads * hs * p.dim)
              \o each("w1", p.dim * p.hidden_dim) \o each("w2", p.hidden_dim * p.dim)
              \o each("w3", p.dim * p.hidden_dim)
              \o (IF shared THEN <<>> ELSE one("wcls"))
      bytes(e) == e.size * e.of + (IF e.of = 1 THEN 4 * (e.size \div g) ELSE 0)
      start(k) == SumSeq([j \in 1 .. k - 1 |-> bytes(list[j])])
  IN  [k \in DOMAIN list |-> [name |-> list[k].name, size |-> list[k].size, start |-> start(k),
                              s |-> start(k) + list[k].size, bytes |-> bytes(list[k])]]

\* n tensors of size_each values from ptr on, and what follows them.
init_quantized_tensors(ptr, n, size_each) ==
  LET each == size_each + 4 * (size_each \div GS)
  IN  [tensors |-> [i \in 1 .. n |-> [q |-> ptr + (i - 1) * each, s |-> ptr + (i - 1) * each + size_each]],
       next |-> ptr + n * each]

\* The norms' weights first, in floats; then every kind of tensor where those before it end.
MapWeightsQ(p, shared) ==
  LET L == p.n_layers
      hs == head_size(p)
      fptr == 4 * (2 * L * p.dim + p.dim)
      tok == init_quantized_tensors(fptr, 1, p.vocab_size * p.dim)
      wq == init_quantized_tensors(tok.next, L, p.dim * (p.n_heads * hs))
      wk == init_quantized_tensors(wq.next, L, p.dim * (p.n_kv_heads * hs))
      wv == init_quantized_tensors(wk.next, L, p.dim * (p.n_kv_heads * hs))
      wo == init_quantized_tensors(wv.next, L, (p.n_heads * hs) * p.dim)
      w1 == init_quantized_tensors(wo.next, L, p.dim * p.hidden_dim)
      w2 == init_quantized_tensors(w1.next, L, p.hidden_dim * p.dim)
      w3 == init_quantized_tensors(w2.next, L, p.dim * p.hidden_dim)
  IN  [rms_att_weight |-> 0, rms_ffn_weight |-> 4 * L * p.dim, rms_final_weight |-> 8 * L * p.dim,
       q_tokens |-> tok.tensors, wq |-> wq.tensors, wk |-> wk.tensors, wv |-> wv.tensors,
       wo |-> wo.tensors, w1 |-> w1.tensors, w2 |-> w2.tensors, w3 |-> w3.tensors,
       wcls |-> IF shared THEN tok.tensors
                ELSE init_quantized_tensors(w3.next, 1, p.dim * p.vocab_size).tensors]

\* What the tables of tensors and the dequantized embeddings take of the heap, in the order in
\* which they are allocated: an entry of a table is two pointers.
WeightTables(p, shared) ==
  <<8, 4 * p.vocab_size * p.dim>> \o [k \in 1 .. 7 |-> 8 * p.n_layers]
    \o (IF shared THEN <<>> ELSE <<8>>)

\* The buffers of malloc_run_state, and whether their pointer is looked at afterwards: the two
\* quantized vectors' are not.
RunStateQ(p) ==
  LET checked(n) == [bytes |-> n, checked |-> TRUE]
      unchecked(n) == [bytes |-> n, checked |-> FALSE]
      cache == checked(4 * p.n_layers * p.seq_len * kv_dim(p))
  IN  <<checked(4 * p.dim), checked(4 * p.dim), checked(4 * p.dim),
        checked(4 * p.hidden_dim), checked(4 * p.hidden_dim),
        unchecked(p.dim), unchecked(4 * p.dim), unchecked(p.hidden_dim), unchecked(4 * p.hidden_dim),
        checked(4 * p.dim), checked(4 * kv_dim(p)), checked(4 * kv_dim(p)),
        checked(4 * p.n_heads * p.seq_len), checked(4 * p.vocab_size), cache, cache>>

-----------------------------------------------------------------------------
\* A tensor of n values by its two pointers; anything else is nothing anyone meant.
SlabQ(file, t, n) ==
  LET whole == {k \in DOMAIN file : file[k].start = t.q /\ file[k].s = t.s /\ file[k].size = n}
  IN  IF whole # {} THEN file[CHOOSE k \in whole : TRUE].name ELSE Junk

\* The row of the table that was dequantized at the start.
EmbedQ(file, token) ==
  /\ xrow' = RowOf(Dequantize(SlabQ(file, weights.q_tokens[1], config.vocab_size * config.dim)), token)
  /\ layer' = 0
  /\ UNCHANGED <<config, weights, caches, logits>>

ForwardLayerQ(file, pos) ==
  LET d == config.dim
      norm(off) == Slab(file, off + 4 * layer * d, d)
      of(w, n) == SlabQ(file, w[layer + 1], n)
  IN  Layer(GS,
        [rms_att |-> norm(weights.rms_att_weight), rms_ffn |-> norm(weights.rms_ffn_weight),
         wq |-> of(weights.wq, d * d), wk |-> of(weights.wk, d * kv_dim(config)),
         wv |-> of(weights.wv, d * kv_dim(config)), wo |-> of(weights.wo, d * d),
         w1 |-> of(weights.w1, d * config.hidden_dim), w2 |-> of(weights.w2, d * config.hidden_dim),
         w3 |-> of(weights.w3, d * config.hidden_dim)],
        pos)

ClassifyQ(file) ==
  Classified(GS, Slab(file, weights.rms_final_weight, config.dim),
             SlabQ(file, weights.wcls[1], config.dim * config.vocab_size))

\* The reference: the same transformer with the quantized product.
EmbeddedQ(hist) == [t \in 0 .. Len(hist) - 1 |-> RowOf(Dequantize(<<"q_tokens">>), hist[t + 1])]

TransformerQ(p, shared, hist) ==
  TransformerBy(GS, EmbeddedQ(hist), IF shared THEN <<"q_tokens">> ELSE <<"wcls">>, p, Len(hist) - 1)

=============================================================================

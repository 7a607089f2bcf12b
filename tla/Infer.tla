-------------------------------- MODULE Infer --------------------------------
(***************************************************************************)
(* The transformer of libpi/src/run.c: the weights mapped onto the file,   *)
(* and the forward pass over the history of tokens kept in the key and     *)
(* value caches.  Numbers are symbolic: a vector is the term that says how *)
(* it was computed, so that two vectors are equal if they were computed    *)
(* alike.  Places are not: weights and cache rows are found by the code's  *)
(* offsets, in floats from the start of the weights and of a cache.        *)
(***************************************************************************)
EXTENDS Integers, Sequences, SequencesExt

VARIABLES
  config,   \* the Config in use; its vocab_size is positive
  weights,  \* the offset of each kind of tensor
  xrow,     \* x, the activation
  layer,    \* the layer that forward is at
  caches,   \* key_cache and value_cache: what is at an offset
  logits

infer_vars == <<config, weights, xrow, layer, caches, logits>>

Abs(n) == IF n < 0 THEN -n ELSE n
SumSeq(s) ==
  LET sum[n \in 0 .. Len(s)] == IF n = 0 THEN 0 ELSE sum[n - 1] + s[n] IN sum[Len(s)]

Config == [dim : Int, hidden_dim : Int, n_layers : Int, n_heads : Int, n_kv_heads : Int,
           vocab_size : Int, seq_len : Int]

head_size(p) == p.dim \div p.n_heads
kv_dim(p) == (p.dim * p.n_kv_heads) \div p.n_heads

\* Slip: every query head has a key and value head of its own.
kv_mulNone(p) == 1

kv_mul(p) == p.n_heads \div p.n_kv_heads

\* The terms.
Rms(v, w) == <<"rmsnorm", v, w>>
Quantize(gs, v) == <<"quantize", gs, v>>
Matmul(v, w) == <<"matmul", v, w>>
MatmulQ(gs, v, w) == <<"matmul8", Quantize(gs, v), w>>
Rope(v, pos) == <<"rope", v, pos>>
HeadOf(v, h) == <<"head", v, h>>
Attention(q, ks, vs) == <<"softmax(q.k).v", q, ks, vs>>
SwiGLU(a, b) == <<"silu(a)*b", a, b>>
Add(a, b) == <<"+", a, b>>
Junk == <<"junk">>
Zero == <<"0">>

-----------------------------------------------------------------------------
\* The exported file after its header: the tensors in their order, with their sizes.
Exported(p) ==
  LET hs == head_size(p)
      n == Abs(p.vocab_size)
      one(name, size) == <<[name |-> <<name>>, size |-> size]>>
      each(name, size) == [k \in 1 .. p.n_layers |-> [name |-> <<name, k - 1>>, size |-> size]]
  IN  [k \in 1 .. n |-> [name |-> <<"embedding", k - 1>>, size |-> p.dim]]
      \o each("rms_att", p.dim)
      \o each("wq", p.dim * p.n_heads * hs) \o each("wk", p.dim * p.n_kv_heads * hs)
      \o each("wv", p.dim * p.n_kv_heads * hs) \o each("wo", p.n_heads * hs * p.dim)
      \o each("rms_ffn", p.dim)
      \o each("w1", p.dim * p.hidden_dim) \o each("w2", p.hidden_dim * p.dim)
      \o each("w3", p.dim * p.hidden_dim)
      \o one("rms_final", p.dim)
      \o one("freq_cis_real", (p.seq_len * hs) \div 2) \o one("freq_cis_imag", (p.seq_len * hs) \div 2)
      \o (IF p.vocab_size < 0 THEN one("wcls", n * p.dim) ELSE <<>>)

\* Where the file has which tensor.
TensorStarts(p) ==
  LET e == Exported(p)
  IN  [k \in DOMAIN e |-> [name |-> e[k].name, size |-> e[k].size,
                           start |-> SumSeq([j \in 1 .. k - 1 |-> e[j].size])]]

\* size floats at an offset: a tensor, all the embeddings, or nothing anyone meant.
Slab(file, off, size) ==
  LET whole == {k \in DOMAIN file : file[k].start = off /\ file[k].size = size}
  IN  IF whole # {} THEN file[CHOOSE k \in whole : TRUE].name
      ELSE IF off = 0 /\ size = config.vocab_size * config.dim THEN <<"embedding">>
      ELSE Junk

\* The Config becomes the one in use: the sign of vocab_size says whether the classifier shares
\* the embeddings, and every kind of tensor starts where those before it end.
MapWeights(p) ==
  LET hs == head_size(p)
      V == Abs(p.vocab_size)
      sizes == <<V * p.dim, p.n_layers * p.dim,
                 p.n_layers * p.dim * (p.n_heads * hs), p.n_layers * p.dim * (p.n_kv_heads * hs),
                 p.n_layers * p.dim * (p.n_kv_heads * hs), p.n_layers * (p.n_heads * hs) * p.dim,
                 p.n_layers * p.dim, p.n_layers * p.dim * p.hidden_dim,
                 p.n_layers * p.hidden_dim * p.dim, p.n_layers * p.dim * p.hidden_dim,
                 p.dim, (p.seq_len * hs) \div 2, (p.seq_len * hs) \div 2>>
      before(k) == SumSeq(SubSeq(sizes, 1, k))
  IN  [token_embedding_table |-> 0, rms_att_weight |-> before(1), wq |-> before(2),
       wk |-> before(3), wv |-> before(4), wo |-> before(5), rms_ffn_weight |-> before(6),
       w1 |-> before(7), w2 |-> before(8), w3 |-> before(9), rms_final_weight |-> before(10),
       wcls |-> IF p.vocab_size > 0 THEN 0 ELSE before(13)]

memory_map_weights(p) ==
  /\ config' = [p EXCEPT !.vocab_size = Abs(@)]
  /\ weights' = MapWeights(p)

-----------------------------------------------------------------------------
\* A vector of the cache is stored a head at a time.  What is beyond the cache is not its own.
At(cache, off) == IF off \in DOMAIN cache THEN cache[off] ELSE Junk

Stored(cache, off, v) ==
  [o \in DOMAIN cache |->
     LET g == (o - off) \div head_size(config)
     IN  IF o >= off /\ o < off + kv_dim(config) /\ (o - off) % head_size(config) = 0
         THEN HeadOf(v, g) ELSE cache[o]]

\* The token's embedding.
Embed(file, token) ==
  /\ xrow' = Slab(file, weights.token_embedding_table + token * config.dim, config.dim)
  /\ layer' = 0
  /\ UNCHANGED <<config, weights, caches, logits>>

\* The product: of floats, or of the two in groups of gs bytes.
Product(gs, v, w) == IF gs = 0 THEN Matmul(v, w) ELSE MatmulQ(gs, v, w)

\* One layer with the tensors T: attention over the rows 0 .. pos of this layer, then the
\* feed-forward network.
Layer(gs, T, pos) ==
  LET mul(v, w) == Product(gs, v, w)
      p == config
      hs == head_size(p)
      kv == kv_dim(p)
      loff == layer * p.seq_len * kv
      xb == Rms(xrow, T.rms_att)
      q == Rope(mul(xb, T.wq), pos)
      keys == Stored(caches.key, loff + pos * kv, Rope(mul(xb, T.wk), pos))
      values == Stored(caches.value, loff + pos * kv, mul(xb, T.wv))
      heads == [h \in 0 .. p.n_heads - 1 |->
                  LET row(t) == loff + t * kv + (h \div kv_mul(p)) * hs
                  IN  Attention(HeadOf(q, h), [t \in 0 .. pos |-> At(keys, row(t))],
                                            [t \in 0 .. pos |-> At(values, row(t))])]
      y == Add(xrow, mul(heads, T.wo))
      yb == Rms(y, T.rms_ffn)
  IN  /\ layer < p.n_layers
      /\ caches' = [key |-> keys, value |-> values]
      /\ xrow' = Add(y, mul(SwiGLU(mul(yb, T.w1), mul(yb, T.w3)), T.w2))
      /\ layer' = layer + 1
      /\ UNCHANGED <<config, weights, logits>>

\* The layer's tensors are found by their offsets.
ForwardLayer(file, pos) ==
  LET d == config.dim
      of(off, size) == Slab(file, off + layer * size, size)
  IN  Layer(0,
        [rms_att |-> of(weights.rms_att_weight, d), rms_ffn |-> of(weights.rms_ffn_weight, d),
         wq |-> of(weights.wq, d * d), wk |-> of(weights.wk, d * kv_dim(config)),
         wv |-> of(weights.wv, d * kv_dim(config)), wo |-> of(weights.wo, d * d),
         w1 |-> of(weights.w1, d * config.hidden_dim), w2 |-> of(weights.w2, d * config.hidden_dim),
         w3 |-> of(weights.w3, d * config.hidden_dim)],
        pos)

\* The final norm and the classifier.
Classified(gs, rms_final, wcls) ==
  /\ layer = config.n_layers
  /\ xrow' = Rms(xrow, rms_final)
  /\ logits' = Product(gs, xrow', wcls)
  /\ UNCHANGED <<config, weights, layer, caches>>

Classify(file) ==
  Classified(0, Slab(file, weights.rms_final_weight, config.dim),
             Slab(file, weights.wcls, config.dim * config.vocab_size))

-----------------------------------------------------------------------------
\* A transformer by its definition: the logits after a history of tokens, computed from the
\* tensors by their names and without a cache.  x[t] is the activation at position t.
NextLayer(gs, p, lay, x) ==
  LET mul(v, w) == Product(gs, v, w)
      T(name) == <<name, lay>>
      normed(u) == Rms(x[u], T("rms_att"))
      key(u) == Rope(mul(normed(u), T("wk")), u)
      value(u) == mul(normed(u), T("wv"))
      group(h) == (h * p.n_kv_heads) \div p.n_heads
      heads(t) == [h \in 0 .. p.n_heads - 1 |->
                     Attention(HeadOf(Rope(mul(normed(t), T("wq")), t), h),
                               [u \in 0 .. t |-> HeadOf(key(u), group(h))],
                               [u \in 0 .. t |-> HeadOf(value(u), group(h))])]
      y(t) == Add(x[t], mul(heads(t), T("wo")))
      yb(t) == Rms(y(t), T("rms_ffn"))
  IN  [t \in DOMAIN x |->
         Add(y(t), mul(SwiGLU(mul(yb(t), T("w1")), mul(yb(t), T("w3"))), T("w2")))]

\* embedded[t] is the embedding of the token at position t.
Activations(gs, p, embedded) ==
  LET act[lay \in 0 .. p.n_layers] ==
        IF lay = 0 THEN embedded ELSE NextLayer(gs, p, lay - 1, act[lay - 1])
  IN  act

TransformerBy(gs, embedded, wcls, p, last) ==
  Product(gs, Rms(Activations(gs, p, embedded)[p.n_layers][last], <<"rms_final">>), wcls)

Embedded(hist) == [t \in 0 .. Len(hist) - 1 |-> <<"embedding", hist[t + 1]>>]

Transformer(p, hist) ==
  TransformerBy(0, Embedded(hist), IF p.vocab_size < 0 THEN <<"wcls">> ELSE <<"embedding">>,
                p, Len(hist) - 1)

=============================================================================

------------------------------- MODULE LlamaMC -------------------------------
(***************************************************************************)
(* Llama on a small machine: 1 kB sections, 32 of them; a heap of three    *)
(* that the stack's section lies in; a vocabulary of twelve tokens over    *)
(* five byte codes and two small transformers.                             *)
(***************************************************************************)
EXTENDS Llama

MCMinScore == -1000
MCRegions == {[addr |-> SEG_HEAP, bytes |-> HeapBytes]}
MCPeripherals == <<14 * OneMB, 15 * OneMB, 16 * OneMB>>

\* Byte codes: 1 is ' ', 2 and 5 are letters, 3 starts a two-byte character, 4 continues one; 6 to
\* 8 are of the names of the first three tokens only.
Strings == <<<<6, 7>>, <<8, 7, 8>>, <<8, 6>>>> \o [b \in 1 .. 6 |-> <<Raw + b - 1>>]
             \o <<<<Space>>, <<2>>, <<1, 2>>, <<3, 4>>>>
Vocabulary ==
  [max_token_length |-> 3,
   entries |-> [k \in DOMAIN Strings |-> [score |-> -k, str |-> Strings[k]]],
   n_data |-> 4 + 8 * Len(Strings) + SumSeq([k \in DOMAIN Strings |-> Len(Strings[k])])]

MCTokenizers == {Vocabulary, [Vocabulary EXCEPT !.n_data = @ - 1]}

V == Len(Strings)

Grouped == [dim |-> 4, hidden_dim |-> 2, n_layers |-> 2, n_heads |-> 2, n_kv_heads |-> 1,
            vocab_size |-> V, seq_len |-> 4]
Unshared == [Grouped EXCEPT !.n_layers = 1, !.n_kv_heads = 2, !.vocab_size = -V, !.seq_len = 2]
Long == [Grouped EXCEPT !.seq_len = 64]

Bytes(p) == SizeofConfig + Float * SumSeq([k \in DOMAIN Exported(p) |-> Exported(p)[k].size])
File(p) == [there |-> TRUE, config |-> p, tensors |-> TensorStarts(p), n_data |-> Bytes(p)]
\* A quantized model of one layer's heads, and files that are refused.
Bytes8(p, shared) ==
  LET e == ExportedQ(p, shared, 2) IN 256 + SumSeq([k \in DOMAIN e |-> e[k].bytes])
File8(p, shared) ==
  [there |-> TRUE, magic |-> TRUE, version |-> 2, config |-> p, shared |-> shared, group_size |-> 2,
   tensors |-> ExportedQ(p, shared, 2), n_data |-> Bytes8(p, shared)]
Small == [Grouped EXCEPT !.seq_len = 2]

MCModels == {File(Grouped), File(Unshared), File(Long),
             [File(Grouped) EXCEPT !.n_data = SizeofConfig - 1],
             [File(Grouped) EXCEPT !.there = FALSE]}

MCPrompts == {<<>>, <<2, 5>>, <<2, 2>>, <<3, 4>>, <<3, 5>>, <<4, 4, 4, 4, 4, 4, 4>>, <<1, 3, 5>>}

MCSettings == {[temperature |-> 1, topp |-> [num |-> 9, den |-> 10]],
               [temperature |-> 1, topp |-> [num |-> 1, den |-> 1]],
               [temperature |-> 0, topp |-> [num |-> 9, den |-> 10]]}

\* One that exceeds topp by itself; all alike; two alike and many that the cut-off drops.
MCDistributions ==
  {[t \in 0 .. V - 1 |-> CASE t = 10 -> 19 [] t = 2 -> 1 [] OTHER -> 0],
   [t \in 0 .. V - 1 |-> 1],
   [t \in 0 .. V - 1 |-> CASE t = 1 -> 40 [] t \in {9, 12} -> 50 [] OTHER -> 0]}

MCRuns ==
  [program : {"run"}, model : MCModels, prompt : MCPrompts, setting : MCSettings]
    \cup
  [program : {"runq"}, prompt : {<<>>}, setting : {[temperature |-> 0, topp |-> [num |-> 9, den |-> 10]]},
   model : {File8(Small, FALSE), File8([Small EXCEPT !.n_layers = 1, !.seq_len = 1], TRUE),
            File8(Long, TRUE),
            [File8(Small, TRUE) EXCEPT !.n_data = SizeofHeader - 1],
            [File8(Small, TRUE) EXCEPT !.magic = FALSE],
            [File8(Small, TRUE) EXCEPT !.version = 1],
            [File8(Small, TRUE) EXCEPT !.there = FALSE]}]

\* The smallest quantized model, profiled to the end.
MCProfiled == {r \in MCRuns : r.program = "runq" /\ r.model = File8([Small EXCEPT !.n_layers = 1, !.seq_len = 1], TRUE)}

=============================================================================

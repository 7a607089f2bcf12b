------------------------------- MODULE Sampler -------------------------------
(***************************************************************************)
(* The sampler of libpi/src/run.c.  A distribution is a function from the  *)
(* tokens 0 .. n-1 to whole weights, a token's probability its share of    *)
(* their sum; topp is the fraction topp.num / topp.den and the coin the    *)
(* fraction coin / CoinMod.  Arithmetic is exact: the roundings that the   *)
(* code's fallbacks are for do not occur.                                  *)
(***************************************************************************)
EXTENDS Libc

CONSTANTS CoinMod   \* 2^24

SumOver(w, S) == FoldFunctionOnSet(+, 0, w, S)
Mass(w) == SumOver(w, DOMAIN w)

\* The first of the most probable.
sample_argmax(w) ==
  CHOOSE i \in DOMAIN w : \A j \in DOMAIN w : w[j] < w[i] \/ (w[j] = w[i] /\ i <= j)

\* The first token at which the cumulative weight passes the coin.
sample_mult(w, coin) ==
  LET passed == {i \in DOMAIN w : coin * Mass(w) < SumOver(w, 0 .. i) * CoinMod}
  IN  IF passed # {} THEN Min(passed) ELSE Cardinality(DOMAIN w) - 1

\* prob >= (1 - topp) / (n - 1); the float quotient by 0 is infinite.
AboveCutoff(w, topp, i) ==
  LET n == Cardinality(DOMAIN w)
  IN  n # 1 /\ w[i] * topp.den * (n - 1) >= (topp.den - topp.num) * Mass(w)

\* Those tokens in their order; found[i] are those of the first i.
Candidates(w, topp) ==
  LET n == Cardinality(DOMAIN w)
      found[i \in 0 .. n] ==
        IF i = 0 THEN <<>>
        ELSE IF AboveCutoff(w, topp, i - 1) THEN Append(found[i - 1], i - 1)
        ELSE found[i - 1]
  IN  found[n]

\* Slip: the candidates are cut in the order of the tokens.
sample_toppUnsorted(w, topp, coin) ==
  LET probindex == Candidates(w, topp)
      n0 == Len(probindex)
      cumulative(k) == SumOver([j \in 1 .. n0 |-> w[probindex[j]]], 1 .. k)
      exceeds == {k \in 1 .. n0 : cumulative(k) * topp.den > topp.num * Mass(w)}
      last_idx == IF exceeds # {} THEN Min(exceeds) ELSE n0
      passed == {k \in 1 .. last_idx : coin * cumulative(last_idx) < cumulative(k) * CoinMod}
  IN  IF n0 = 0 THEN -1
      ELSE probindex[IF passed # {} THEN Min(passed) ELSE last_idx]

\* The candidates in descending order, cut where their sum exceeds topp; -1 stands for an index
\* read outside probindex.
sample_topp(w, topp, coin) ==
  LET before == [a \in DOMAIN w |-> [b \in DOMAIN w |-> w[a] > w[b]]]
      probindex == qsort(Candidates(w, topp), before)
      n0 == Len(probindex)
      cumulative(k) == SumOver([j \in 1 .. n0 |-> w[probindex[j]]], 1 .. k)
      exceeds == {k \in 1 .. n0 : cumulative(k) * topp.den > topp.num * Mass(w)}
      last_idx == IF exceeds # {} THEN Min(exceeds) ELSE n0
      passed == {k \in 1 .. last_idx : coin * cumulative(last_idx) < cumulative(k) * CoinMod}
  IN  IF n0 = 0 THEN -1
      ELSE probindex[IF passed # {} THEN Min(passed) ELSE last_idx]

\* s is the Sampler: its temperature (0 or not) and topp.
sample(s, w, coin) ==
  IF s.temperature = 0 THEN sample_argmax(w)
  ELSE IF s.topp.num <= 0 \/ s.topp.num >= s.topp.den THEN sample_mult(w, coin)
  ELSE sample_topp(w, s.topp, coin)

=============================================================================

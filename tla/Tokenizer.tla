------------------------------ MODULE Tokenizer ------------------------------
(***************************************************************************)
(* The tokenizer of libpi/src/run.c: reading the vocabulary, encoding a    *)
(* prompt and decoding a token.  A string is a sequence of byte codes from *)
(* 1; the code Raw + b stands for the six characters <0xHH> that name the  *)
(* byte b, which no text contains.  Tokens count from 0.                   *)
(***************************************************************************)
EXTENDS Libc

CONSTANTS
  Raw,           \* above every byte code
  Space,         \* the code of ' '
  Continuation,  \* the codes whose top bits are 10
  Printable,     \* the codes isprint or isspace accept
  MinScore       \* -1e10

VARIABLES
  tok,    \* the Tokenizer: vocab (token to string), vocab_scores, sorted_vocab
  enc     \* encode's locals: text, c, str_buffer, str_len, tokens

tokenizer_vars == <<tok, enc>>

NoTokenizer == [vocab |-> <<>>, scores |-> <<>>, sorted |-> <<>>]
NoEncoding == [text |-> <<>>, c |-> 0, str_buffer |-> <<>>, str_len |-> 0, tokens |-> <<>>]

TokenizerInit == tok = NoTokenizer /\ enc = NoEncoding

BOS == 1
vocab(id) == tok.vocab[id + 1]
vocab_scores(id) == tok.scores[id + 1]

\* One entry of the file: its score and its string.
AddEntry(score, str) ==
  /\ tok' = [tok EXCEPT !.vocab = Append(@, str), !.scores = Append(@, score)]
  /\ UNCHANGED enc

compare_tokens(a, b) == strcmp(a.str, b.str)

SortVocab ==
  LET entries == [i \in DOMAIN tok.vocab |-> [str |-> tok.vocab[i], id |-> i - 1]]
      before == [a \in Range(entries) |-> [b \in Range(entries) |-> compare_tokens(a, b) < 0]]
  IN  /\ tok' = [tok EXCEPT !.sorted = qsort(entries, before)]
      /\ UNCHANGED enc

\* Slip: the place among the sorted strings is taken for the token.
str_lookupIndex(str) ==
  LET compar == [e \in Range(tok.sorted) |-> compare_tokens([str |-> str], e)]
  IN  bsearch(tok.sorted, compar) - 1

\* The token of a string, or -1.
str_lookup(str) ==
  LET compar == [e \in Range(tok.sorted) |-> compare_tokens([str |-> str], e)]
      res == bsearch(tok.sorted, compar)
  IN  IF res # 0 THEN tok.sorted[res].id ELSE -1

-----------------------------------------------------------------------------
\* The start of encode: BOS, and a space before any text.  The buffer is zero-filled.
BeginEncode(text) ==
  /\ enc' = [text |-> text, c |-> 1, str_buffer |-> <<>>, str_len |-> 0,
             tokens |-> <<BOS>> \o (IF text # <<>> THEN <<str_lookup(<<Space>>)>> ELSE <<>>)]
  /\ UNCHANGED tok

IsContinuation(k) == k <= Len(enc.text) /\ enc.text[k] \in Continuation

\* One byte of the text.  A codepoint ends before a byte that continues none, or after four
\* bytes; it becomes one token if the vocabulary has it, otherwise a token for each of its bytes.
EncodeByte ==
  LET kept == IF IsContinuation(enc.c) THEN SubSeq(enc.str_buffer, 1, enc.str_len) ELSE <<>>
      buffer == Append(kept, enc.text[enc.c])
      ends == ~(IsContinuation(enc.c + 1) /\ Len(buffer) < 4)
      id == str_lookup(buffer)
      new == IF ~ends THEN <<>>
             ELSE IF id # -1 THEN <<id>>
             ELSE [i \in DOMAIN buffer |-> buffer[i] + 3]
  IN  /\ enc.c <= Len(enc.text)
      /\ enc' = [enc EXCEPT !.c = @ + 1, !.str_buffer = buffer,
                            !.str_len = IF ends THEN 0 ELSE Len(buffer),
                            !.tokens = @ \o new]
      /\ UNCHANGED tok

\* The pairs a round of merging finds, by their first index: the sprintf that would put a pair's
\* string into the buffer is a comment, so what every pair is looked up by is still there from
\* the codepoint before.
PairToken(i) == str_lookup(enc.str_buffer)

Mergeable == {i \in 1 .. Len(enc.tokens) - 1 :
                PairToken(i) # -1 /\ vocab_scores(PairToken(i)) > MinScore}

\* The first of the best.
BestPair == CHOOSE i \in Mergeable :
              \A j \in Mergeable :
                \/ vocab_scores(PairToken(i)) > vocab_scores(PairToken(j))
                \/ vocab_scores(PairToken(i)) = vocab_scores(PairToken(j)) /\ i <= j

MergePair ==
  /\ Mergeable # {}
  /\ enc' = [enc EXCEPT !.tokens = [RemoveAt(@, BestPair + 1) EXCEPT ![BestPair] = PairToken(BestPair)]]
  /\ UNCHANGED tok

-----------------------------------------------------------------------------
IsRaw(piece) == Len(piece) = 1 /\ piece[1] >= Raw

\* Slip: the space encode put before the text is kept.
decodeKeepsSpace(prev_token, token) ==
  LET piece == vocab(token)
  IN  IF ~IsRaw(piece) THEN piece
      ELSE IF piece[1] = Raw THEN <<>> ELSE <<piece[1] - Raw>>

\* The text of a token after another.  A leading space is dropped after BOS; a byte's name is
\* replaced with the byte, and the string of byte 0 is empty.
decode(prev_token, token) ==
  LET str == vocab(token)
      piece == IF prev_token = BOS /\ str # <<>> /\ str[1] = Space THEN Tail(str) ELSE str
  IN  IF ~IsRaw(piece) THEN piece
      ELSE IF piece[1] = Raw THEN <<>> ELSE <<piece[1] - Raw>>

\* What safe_printf writes of a piece: a single byte only if it can be printed.
safe_printf(piece) ==
  IF Len(piece) = 1 /\ piece[1] \notin Printable THEN <<>> ELSE piece

=============================================================================

------------------------------ MODULE Entropy ------------------------------
(***************************************************************************)
(* The entropy signal of engine/src/scoring/entropy.rs.  A prompt is a     *)
(* sequence of lower-case words.                                           *)
(*                                                                         *)
(* Over total bigrams, distinct of them different, with counts c, the code *)
(* divides H = -sum p log2 p by max(log2 distinct, 1).  Times total, these *)
(* are the logarithms of total^total / prod c^c and max(distinct, 2)^total *)
(* : the module keeps and compares those powers, which are exact.          *)
(***************************************************************************)
EXTENDS Integers, SequencesExt, BagsExt

CONSTANT EntropyWindow  \* prompts looked at

ASSUME EntropyAssumption == EntropyWindow \in Nat

\* The bigrams of one prompt, in order, repetitions included.
BigramsOf(prompt) == [i \in 1..(Len(prompt) - 1) |-> <<prompt[i], prompt[i + 1]>>]

Recent(history) ==
    IF Len(history) > EntropyWindow
    THEN SubSeq(history, Len(history) - EntropyWindow + 1, Len(history))
    ELSE history

\* A bug that joins the prompts before it takes their bigrams.
JoinedBigrams(history) == BigramsOf(FlattenSeq(Recent(history)))
\* The bigrams of the recent prompts; none spans two prompts.
Bigrams(history) ==
    FlattenSeq([k \in DOMAIN Recent(history) |-> BigramsOf(Recent(history)[k])])

Frequencies(history) == ToBag(Bigrams(history))
\* A bug that counts words where it should count bigrams.
TotalWords(history) == Len(FlattenSeq(Recent(history)))
Total(history) == Len(Bigrams(history))

Product(f) == FoldFunction(LAMBDA x, y : x * y, 1, f)
Power(base, exponent) == Product([k \in 1..exponent |-> base])

\* The powers whose quotient is 2^(total * H).
Arrangements(history) == Power(Total(history), Total(history))
Repetitions(history) ==
    LET count == Frequencies(history)
    IN  Product([b \in BagToSet(count) |-> Power(count[b], count[b])])
\* 2^(total * H) if every distinct bigram were equally frequent.
Ceiling(history) ==
    LET distinct == Cardinality(BagToSet(Frequencies(history)))
    IN  Power(IF distinct < 2 THEN 2 ELSE distinct, Total(history))

\* The early returns: too little history, or no bigram.
Unscored(history) == Len(history) < 2 \/ Total(history) = 0

\* inverse_bigram_entropy > 0: the entropy is below its maximum.
EScorePositive(history) ==
    /\ ~ Unscored(history)
    /\ Arrangements(history) < Ceiling(history) * Repetitions(history)
=============================================================================

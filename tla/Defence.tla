------------------------------ MODULE Defence ------------------------------
(***************************************************************************)
(* The defence pipeline of engine/src/defence: synonym substitution, then  *)
(* numeric perturbation, then, for Tier 3, sentence reordering.            *)
(*                                                                         *)
(* A text is a sequence of tokens that one space separates.  A token is a  *)
(* word or a number (word = Number, value num / den with den the power of  *)
(* ten of its decimals) followed by `dots` periods; one more space is a    *)
(* blank token, without word or period.  The seeded generator is a choice  *)
(* over what it may draw; the factor's integers have two halves of Half    *)
(* values each, 2^32 in the code.                                          *)
(***************************************************************************)
EXTENDS Fractions, SequencesExt

CONSTANTS
    Number,             \* the `word` of a number
    Synonyms,           \* substitution_table: word -> set of its synonyms
    Texts,              \* the clean responses
    Tier2Ratio, Tier3Ratio, \* synonym ratios, in percent
    Pct,                \* numeric_perturb_pct, in percent
    MaxDen,             \* of a perturbed number: six decimals, 10^6
    Reorder,            \* reorder_sentences
    Half, Seeds         \* half-integers and session seeds of the factor

ASSUME DefenceAssumption ==
    /\ Number # "" /\ {Number, ""} \cap DOMAIN Synonyms = {}
    /\ \A w \in DOMAIN Synonyms :
         Synonyms[w] # {} /\ {Number, ""} \cap Synonyms[w] = {}
    /\ Texts \subseteq Seq([word : STRING, num : Int, den : Nat \ {0}, dots : Nat])
    /\ MaxDen \in Nat \ {0}
    /\ \A t \in Texts : \A p \in DOMAIN t :
         t[p].den > MaxDen => t[p].den % MaxDen = 0
    /\ Tier2Ratio \in Nat /\ Tier3Ratio \in Nat /\ Pct \in 0..100
    /\ Reorder \in BOOLEAN
    /\ Half \in Nat /\ Half > 1 /\ Seeds \subseteq Nat

VARIABLES
    stage,   \* where run stands
    tier,
    seed,
    clean,   \* clean_response
    text,    \* the response so far
    steps,   \* steps_applied
    indices, \* reorder_sentences: the order being shuffled
    i        \* and the index of its loop, counted from 1
defenceVars == <<stage, tier, seed, clean, text, steps, indices, i>>

\* The k-th of a set of places, 0 before the first; the entries of s at places.
Nth(places, k) ==
    CHOOSE e \in {0} \cup places : Cardinality({d \in places : d <= e}) = k
At(s, places) == [k \in 1..Cardinality(places) |-> s[Nth(places, k)]]

Blank(token) == token.word = "" /\ token.dots = 0

(***************************************************************************)
(* Synonym substitution.                                                   *)
(***************************************************************************)
Substitutable(t) == {p \in DOMAIN t : t[p].word \in DOMAIN Synonyms}
Ratio == IF tier = 3 THEN Tier3Ratio ELSE Tier2Ratio
\* split_whitespace and join(" "), which a text without such a word is spared.
Respaced(t) ==
    IF Substitutable(t) = {} THEN t
    ELSE At(t, {p \in DOMAIN t : ~ Blank(t[p])})
\* ceil(n * ratio), at least one and at most all.
NReplace(n) == Min({n, Max({1, (n * Ratio + 99) \div 100})})

\* A bug that loses the punctuation after a replaced word.
ReplacedBare(token, synonym) == [token EXCEPT !.word = synonym, !.dots = 0]
Replaced(token, synonym) == [token EXCEPT !.word = synonym]

\* The synonyms the generator may pick for the chosen places.
Picks(t, chosen) ==
    {pick \in [chosen -> UNION Range(Synonyms)] :
        \A p \in chosen : pick[p] \in Synonyms[t[p].word]}
Substituted(t, pick) ==
    [p \in DOMAIN t |->
        IF p \in DOMAIN pick THEN Replaced(t[p], pick[p]) ELSE t[p]]

(***************************************************************************)
(* Numeric perturbation.                                                   *)
(***************************************************************************)
Wrap(n) == n % (Half * Half)
HighMax == Half - 1
\* The constants are the low bits of the code's 64-bit ones.
Lcg(position) ==
    Wrap(Wrap(seed * 21 + position * 66) * 45 + 79)
\* A bug that scales the whole of lcg where its high half is meant.
HighHalfUnshifted(lcg) == lcg
HighHalf(lcg) == lcg \div Half

\* perturbation_factor: 1 + (2t - 1) * fraction, t = the high half / HighMax.
Factor(position) ==
    Frac(100 * HighMax + (2 * HighHalf(Lcg(position)) - HighMax) * Pct,
         100 * HighMax)
\* Rounded to the nearest, halves away from zero.
Rounded(q) ==
    (IF q.num < 0 THEN -1 ELSE 1) * ((2 * Abs(q.num) + q.den) \div (2 * q.den))

\* How many units of a number's last decimal make one of the last that is kept.
Unit(den) == IF den > MaxDen THEN den \div MaxDen ELSE 1
PerturbedNumber(token, position) ==
    LET unit == Unit(token.den)
    IN  [token EXCEPT !.num = Rounded(Times(Frac(@, unit), Factor(position))),
                      !.den = @ \div unit]
Perturbed(t) ==
    IF Pct = 0 THEN t
    ELSE [p \in DOMAIN t |->
             IF t[p].word = Number THEN PerturbedNumber(t[p], p) ELSE t[p]]

(***************************************************************************)
(* Sentence reordering.                                                    *)
(***************************************************************************)
\* split(". "): a token with a period ends a piece and loses one, except the
\* last token, which no space follows.
Ends(t) == {p \in DOMAIN t : p = Len(t) \/ t[p].dots > 0}
PieceCount(t) == Cardinality(Ends(t))
EndOf(t, k) == Nth(Ends(t), k)
Pieces(t) ==
    LET piece(first, last, strip) ==
            Append(SubSeq(t, first, last - 1), [t[last] EXCEPT !.dots = @ - strip])
    IN  [k \in 1..PieceCount(t) |->
            piece(EndOf(t, k - 1) + 1, EndOf(t, k),
                  IF EndOf(t, k) = Len(t) THEN 0 ELSE 1)]
\* The pieces that trim does not empty are the sentences.
Spoken(t) ==
    {k \in 1..PieceCount(t) :
        \E p \in DOMAIN Pieces(t)[k] : ~ Blank(Pieces(t)[k][p])}
SentenceCount(t) == Cardinality(Spoken(t))
Sentences(t) == At(Pieces(t), Spoken(t))
\* join(". "): every sentence but the last gets its period back.
Joined(sentences, order) ==
    LET joint(k) == IF k = Len(order) THEN 0 ELSE 1
        pieces == [k \in DOMAIN order |->
                     LET s == sentences[order[k]]
                     IN  [s EXCEPT ![Len(s)].dots = @ + joint(k)]]
    IN  FlattenSeq(pieces)

\* A bug that draws from the whole range at every step.
DrawsNaive(k, n) == 1..n
\* gen_range(0..=i)
Draws(k, n) == 1..k
Swapped(order, a, b) == [order EXCEPT ![a] = order[b], ![b] = order[a]]
\* The order that a function of draws makes of 1..n.
Shuffled(n, draw) ==
    FoldLeft(LAMBDA order, k : Swapped(order, k, draw[k]),
             [k \in 1..n |-> k], [k \in 1..(n - 1) |-> n + 1 - k])

(***************************************************************************)
(* run                                                                     *)
(***************************************************************************)
DefenceInit ==
    /\ stage = "idle" /\ tier = 1 /\ seed = 0
    /\ clean = <<>> /\ text = <<>> /\ steps = <<>>
    /\ indices = <<>> /\ i = 1

\* Tier 1 is served as it is; the others get their session's seed.
Begin ==
    /\ stage = "idle"
    /\ clean' \in Texts /\ text' = clean'
    /\ tier' \in 1..3 /\ seed' \in Seeds
    /\ stage' = IF tier' = 1 THEN "done" ELSE "synonyms"
    /\ UNCHANGED <<steps, indices, i>>

\* Step 1, logged whether or not it found a word to replace.
Substitute ==
    /\ stage = "synonyms"
    /\ LET words  == Respaced(text)
           places == Substitutable(words)
       IN  \E chosen \in kSubset(NReplace(Cardinality(places)), places) :
           \E pick \in Picks(words, chosen) : text' = Substituted(words, pick)
    /\ steps' = Append(steps, "synonym_substitution")
    /\ stage' = "numbers"
    /\ UNCHANGED <<tier, seed, clean, indices, i>>

\* A bug that logs the numeric step only for Tier 3.
PerturbSilently ==
    /\ stage = "numbers"
    /\ text' = Perturbed(text)
    /\ steps' = IF text' # text /\ tier = 3
                THEN Append(steps, "numeric_perturb") ELSE steps
    /\ stage' = "sentences"
    /\ UNCHANGED <<tier, seed, clean, indices, i>>
\* Step 2, logged when it changed the text.
Perturb ==
    /\ stage = "numbers"
    /\ text' = Perturbed(text)
    /\ steps' = IF text' # text THEN Append(steps, "numeric_perturb") ELSE steps
    /\ stage' = "sentences"
    /\ UNCHANGED <<tier, seed, clean, indices, i>>

\* Step 3 applies to Tier 3 and to three sentences or more.
Reorders == tier = 3 /\ Reorder /\ SentenceCount(text) >= 3
KeepOrder ==
    /\ stage = "sentences" /\ ~ Reorders
    /\ stage' = "done"
    /\ UNCHANGED <<tier, seed, clean, text, steps, indices, i>>
StartShuffle ==
    /\ stage = "sentences" /\ Reorders
    /\ indices' = [k \in 1..SentenceCount(text) |-> k]
    /\ i' = SentenceCount(text)
    /\ stage' = "shuffle"
    /\ UNCHANGED <<tier, seed, clean, text, steps>>
\* One iteration of the Fisher-Yates loop.
Swap ==
    /\ stage = "shuffle" /\ i > 1
    /\ \E j \in Draws(i, Len(indices)) : indices' = Swapped(indices, i, j)
    /\ i' = i - 1
    /\ UNCHANGED <<stage, tier, seed, clean, text, steps>>
Join ==
    /\ stage = "shuffle" /\ i = 1
    /\ text' = Joined(Sentences(text), indices)
    /\ steps' = Append(steps, "sentence_reorder")
    /\ stage' = "done"
    /\ UNCHANGED <<tier, seed, clean, indices, i>>

DefenceNext == \/ Begin \/ Substitute \/ Perturb
               \/ KeepOrder \/ StartShuffle \/ Swap \/ Join
DefenceSpec == DefenceInit /\ [][DefenceNext]_defenceVars

(***************************************************************************)
(* Properties                                                              *)
(***************************************************************************)
\* Every word that is not in the substitution table is served, as many times as
\* the model said it, and no word is served twice for once, whatever steps ran.
\* So is every period, but for one with each piece that the reordering leaves
\* out: the pieces it leaves out have no word and no other period.
NothingLost ==
    stage = "done" =>
        LET occurrences(t, w) == Cardinality({p \in DOMAIN t : t[p].word = w})
            words(t)   == Cardinality({p \in DOMAIN t : t[p].word # ""})
            periods(t) == SumFunction([p \in DOMAIN t |-> t[p].dots])
            left == IF Contains(steps, "sentence_reorder")
                    THEN PieceCount(Respaced(clean)) - Len(indices) ELSE 0
        IN  /\ words(text) = words(clean) /\ periods(text) = periods(clean) - left
            /\ \A p \in DOMAIN clean :
                 LET w == clean[p].word
                 IN  w \notin DOMAIN Synonyms \cup {""}
                        => occurrences(text, w) >= occurrences(clean, w)

\* Before the sentences move, each number is where it was, of the same sign,
\* and off by at most the configured fraction and half a unit of the last
\* decimal it is served with: its own last, or the sixth.  The factor's high
\* half really is below its maximum.
NumbersStayClose ==
    stage \in {"sentences", "shuffle"} =>
        LET was == Respaced(clean)
        IN  \A p \in DOMAIN was : was[p].word = Number =>
              LET old == was[p]
                  new == text[p]
              IN  /\ new = [old EXCEPT !.num = new.num, !.den = new.den]
                  /\ new.den \in {old.den, MaxDen}
                  /\ 100 * Abs(new.num * old.den - old.num * new.den)
                        <= Pct * Abs(old.num) * new.den + 50 * old.den
                  /\ new.num * old.num >= 0

\* A step that steps_applied does not list did not happen: the audit log that
\* is built from it can be replayed.
LoggedSteps ==
    stage = "done" =>
        LET was == IF Contains(steps, "synonym_substitution")
                   THEN Respaced(clean) ELSE clean
            times(t, x) == Cardinality({p \in DOMAIN t :
                               /\ t[p].word = Number
                               /\ t[p].num = x.num /\ t[p].den = x.den})
        IN  /\ ~ Contains(steps, "synonym_substitution") => text = clean
            /\ ~ Contains(steps, "numeric_perturb")
                  => \A x \in Range(text) \cup Range(clean) :
                       times(text, x) = times(clean, x)
            /\ ~ Contains(steps, "sentence_reorder")
                  => \A p \in DOMAIN was :
                       /\ text[p].dots = was[p].dots
                       /\ \/ text[p].word = was[p].word
                          \/ was[p].word \in DOMAIN Synonyms

\* The shuffle is fair: of the draws it can make, exactly one leads to each
\* order of the sentences, so uniform draws give uniform orders.
EachOrderOnce ==
    stage = "shuffle" =>
        LET n == Len(indices)
            draws == {d \in [1..n -> 1..n] :
                        \A k \in 1..n : k > 1 => d[k] \in Draws(k, n)}
            orders == {Shuffled(n, [d EXCEPT ![1] = 1]) : d \in draws}
        IN  /\ orders = SetToSeqs(1..n)
            /\ Cardinality(draws) = n * Cardinality(orders)

\* While the sentences are shuffled, the order is one of all of them: none is
\* dropped and none repeated.
OrderOfAll ==
    stage = "shuffle" =>
        LET n == Len(indices)
        IN  /\ indices \in [1..n -> 1..n] /\ IsInjective(indices)
            /\ i \in 1..n /\ n = SentenceCount(text)
=============================================================================

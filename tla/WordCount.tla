----------------------------- MODULE WordCount ------------------------------
(* The measurements a text is charged by, taken twice: by the page when it    *)
(* asks for a capability (measurements.ts, the words by a regular expression) *)
(* and by the workload before the claim (text.py, the words by a loop over    *)
(* the characters), which refuses the text if they differ (_validated_text).  *)
(*                                                                            *)
(* A text is its code points: Array.from and len both count them, and a pair  *)
(* of surrogates is one. Only a lone surrogate is a character of its own.     *)
EXTENDS Integers, Sequences, FiniteSets

CONSTANTS
    Letters,   \* Unicode categories L, M and N, as both programs know them
    Others,    \* all other characters
    Utf8,      \* Utf8[c]: the bytes of c in UTF-8
    Texts,     \* the texts of the run
    Signed     \* Signed[t]: the capabilities that come with t; any may be signed

ASSUME LettersAssumption == "apostrophe" \notin Letters /\ "space" \notin Letters
ASSUME TextsAssumption == Texts \subseteq Seq(Letters \cup Others)
ASSUME Utf8Assumption == Utf8 \in [Letters \cup Others -> 1 .. 4]

(* What Capability says of a text, or of a file; the upper limits left out.   *)
Capability == [assetKind : {"TEXT", "IMAGE", "VIDEO", "AUDIO"},
               words : Nat, characters : Nat, inputBytes : Nat]
ASSUME SignedAssumption == Signed \in [Texts -> SUBSET Capability]

VARIABLES text, capability, index, words, in_word, outcome

vars == <<text, capability, index, words, in_word, outcome>>

Outcomes == {"counting", "ok", "ASSET_KIND_MISMATCH", "EMPTY_TEXT", "INVALID_UNICODE",
             "NO_WORDS", "MEASUREMENTS_MISMATCH"}

TypeOK ==
    /\ text \in Texts
    /\ capability \in Capability
    /\ index \in 1 .. Len(text) + 1
    /\ words \in Nat
    /\ in_word \in BOOLEAN
    /\ outcome \in Outcomes

Is(t, i, set) == i \in 1 .. Len(t) /\ t[i] \in set

----------------------------------------------------------------------------
(* The expression: a match is a run of letters, continued over any number of  *)
(* apostrophes that stand between letters; matches are taken from the left.   *)
MatchEnds(t) ==
    LET end[i \in DOMAIN t] ==
            IF Is(t, i + 1, Letters) THEN end[i + 1]
            ELSE IF Is(t, i + 1, {"apostrophe"}) /\ Is(t, i + 2, Letters) THEN end[i + 2]
            ELSE i
    IN end
MatchesFrom(t) ==
    LET end == MatchEnds(t)
        matches[i \in 1 .. Len(t) + 1] ==
            IF i > Len(t) THEN 0
            ELSE IF Is(t, i, Letters) THEN 1 + matches[end[i] + 1]
            ELSE matches[i + 1]
    IN matches
MatchCount(t) == MatchesFrom(t)[1]

(* TextEncoder().encode(text).length, and len(text.encode()) of a text without *)
(* a lone surrogate, which the page's encoder replaces.                       *)
InputBytes(t) ==
    LET bytes[i \in 0 .. Len(t)] == IF i = 0 THEN 0 ELSE bytes[i - 1] + Utf8[t[i]]
    IN bytes[Len(t)]

(* What the page asks a capability for.                                       *)
Measured(t) == [assetKind |-> "TEXT", words |-> MatchCount(t),
                characters |-> Len(t), inputBytes |-> InputBytes(t)]

(* validate_asset_measurements: no capability is issued without these.        *)
ValidCapability(k) ==
    /\ k.inputBytes >= 1
    /\ IF k.assetKind = "TEXT" THEN k.words >= 1 /\ k.characters >= 1
                               ELSE k.words = 0 /\ k.characters = 0

Init ==
    /\ text \in Texts
    /\ capability \in {k \in Signed[text] : ValidCapability(k)}
    /\ index = 1
    /\ words = 0
    /\ in_word = FALSE
    /\ outcome = "counting"

(* An apostrophe at index continues the word it stands in.                    *)
ContinuesBeforeAnything ==                                       \* mutant
    text[index] = "apostrophe" /\ in_word
ContinuesAnywhere ==                                             \* mutant
    text[index] = "apostrophe" /\ Is(text, index + 1, Letters)
Continues == text[index] = "apostrophe" /\ in_word /\ Is(text, index + 1, Letters)

(* One round of the loop of count_words.                                      *)
Count ==
    /\ outcome = "counting"
    /\ index <= Len(text)
    /\ index' = index + 1
    /\ \/ /\ text[index] \in Letters
          /\ words' = IF in_word THEN words ELSE words + 1
          /\ in_word' = TRUE
       \/ /\ text[index] \notin Letters
          /\ in_word' = Continues
          /\ UNCHANGED words
    /\ UNCHANGED <<text, capability, outcome>>

(* The checks of _validated_text, in its order.                               *)
Verdict ==
    CASE capability.assetKind # "TEXT" -> "ASSET_KIND_MISMATCH"
      [] \A i \in DOMAIN text : text[i] = "space" -> "EMPTY_TEXT"
      [] \E i \in DOMAIN text : text[i] = "surrogate" -> "INVALID_UNICODE"
      [] words = 0 -> "NO_WORDS"
      [] \/ words # capability.words
         \/ Len(text) # capability.characters
         \/ InputBytes(text) # capability.inputBytes -> "MEASUREMENTS_MISMATCH"
      [] OTHER -> "ok"
Validate ==
    /\ outcome = "counting"
    /\ index = Len(text) + 1
    /\ outcome' = Verdict
    /\ UNCHANGED <<text, capability, index, words, in_word>>

Next == Count \/ Validate
Spec == Init /\ [][Next]_vars

----------------------------------------------------------------------------
(* Properties *)

(* A word starts at a letter that neither follows a letter nor an apostrophe  *)
(* that follows a letter.                                                     *)
StartsWord(t, i) ==
    /\ Is(t, i, Letters)
    /\ ~ Is(t, i - 1, Letters)
    /\ ~ (Is(t, i - 1, {"apostrophe"}) /\ Is(t, i - 2, Letters))
Starts == {i \in 1 .. index - 1 : StartsWord(text, i)}

(* At every round of the loop of count_words, the count is the number of word *)
(* starts so far: no character seen later changes a word already counted.     *)
CountIsStarts == words = Cardinality(Starts)

(* "Must match the Python workload's capability measurement checks"           *)
(* (measurements.ts:1): the workload cleans a text exactly if the capability  *)
(* is for a text of the words, characters and bytes the page measures in it,  *)
(* whatever apostrophes it has and wherever they stand; only a lone surrogate *)
(* is refused besides.                                                        *)
CleanedIfMeasured ==
    outcome # "counting" =>
        (outcome = "ok" <=> /\ capability = Measured(text)
                            /\ \A i \in DOMAIN text : text[i] # "surrogate")
=============================================================================

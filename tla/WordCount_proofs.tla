-------------------------- MODULE WordCount_proofs ---------------------------
(* The loop of count_words counts the word starts of every text, of any       *)
(* length and over any characters, and so does the expression of the page;    *)
(* hence the workload cleans exactly what the page measured.                  *)
EXTENDS WordCount, FiniteSetTheorems, WellFoundedInduction, TLAPS

(* in_word after the character before index: it was a letter, or an           *)
(* apostrophe between two letters.                                            *)
InWord ==
    \/ Is(text, index - 1, Letters)
    \/ /\ Is(text, index - 1, {"apostrophe"})
       /\ Is(text, index - 2, Letters)
       /\ Is(text, index, Letters)

LoopInv ==
    /\ TypeOK
    /\ in_word = InWord
    /\ CountIsStarts

(* The text is a sequence, and the positions counted so far are finitely many. *)
LEMMA TextFacts ==
    ASSUME TypeOK
    PROVE  /\ text \in Seq(Letters \cup Others)
           /\ Len(text) \in Nat /\ index \in Nat \ {0}
           /\ IsFiniteSet(Starts)
<1>1. text \in Seq(Letters \cup Others) /\ Len(text) \in Nat /\ index \in Nat \ {0}
  BY TextsAssumption DEF TypeOK
<1>2. IsFiniteSet(1 .. index - 1)
  BY <1>1, FS_Interval
<1>3. Starts \in SUBSET (1 .. index - 1)
  BY DEF Starts
<1> QED
  BY <1>1, <1>2, <1>3, FS_Subset

(* A letter starts a word exactly if the loop is not inside one.              *)
LEMMA LetterStarts ==
    ASSUME LoopInv, index <= Len(text), text[index] \in Letters
    PROVE  StartsWord(text, index) <=> ~in_word
<1> USE DEF LoopInv
<1>1. index \in 1 .. Len(text)
  BY TextFacts
<1>2. Is(text, index, Letters)
  BY <1>1 DEF Is
<1> QED
  BY <1>2, Zenon DEF StartsWord, InWord

(* After any character that is not a letter, the loop is inside a word exactly *)
(* if that character is an apostrophe between letters.                        *)
LEMMA OtherContinues ==
    ASSUME LoopInv, index <= Len(text), text[index] \notin Letters
    PROVE  (in_word /\ Continues) <=>
              /\ Is(text, index, {"apostrophe"})
              /\ Is(text, index - 1, Letters)
              /\ Is(text, index + 1, Letters)
<1> USE DEF LoopInv
<1>1. index \in 1 .. Len(text)
  BY TextFacts
<1>2. ~Is(text, index, Letters)
  BY <1>1 DEF Is
<1>3. in_word <=> Is(text, index - 1, Letters)
  BY <1>2 DEF InWord
<1>4. Is(text, index, {"apostrophe"}) <=> text[index] = "apostrophe"
  BY <1>1 DEF Is
<1> QED
  BY <1>3, <1>4, Zenon DEF Continues

(* The starts before the next index are those before this one, and perhaps    *)
(* this one.                                                                  *)
LEMMA StartsGrow ==
    ASSUME TypeOK, Count
    PROVE  Starts' = IF StartsWord(text, index) THEN Starts \cup {index} ELSE Starts
<1>1. text' = text /\ index' = index + 1 /\ index \in Nat \ {0}
  BY TextFacts DEF Count
<1>2. \A i : StartsWord(text, i)' = StartsWord(text, i)
  BY <1>1 DEF StartsWord, Is
<1>3. Starts' = {i \in 1 .. index : StartsWord(text, i)}
  BY <1>1, <1>2 DEF Starts
<1> QED
  BY <1>1, <1>3 DEF Starts

(* One round of the loop keeps the invariant.                                 *)
LEMMA CountStep ==
    ASSUME LoopInv, Count
    PROVE  LoopInv'
<1> USE DEF LoopInv
<1>1. /\ text' = text /\ capability' = capability /\ outcome' = outcome
      /\ index' = index + 1
      /\ index \in 1 .. Len(text)
      /\ index' - 1 = index /\ index' - 2 = index - 1
  BY TextFacts DEF Count
<1>2. Starts' = IF StartsWord(text, index) THEN Starts \cup {index} ELSE Starts
  BY StartsGrow
<1>3. Cardinality(Starts \cup {index}) = Cardinality(Starts) + 1 /\ words \in Nat
  <2>1. index \notin Starts
    BY TextFacts DEF Starts
  <2> QED
    BY <2>1, TextFacts, FS_AddElement DEF TypeOK
<1>4. InWord' <=> \/ Is(text, index, Letters)
                  \/ /\ Is(text, index, {"apostrophe"})
                     /\ Is(text, index - 1, Letters)
                     /\ Is(text, index + 1, Letters)
  BY <1>1 DEF InWord
<1>5. CASE text[index] \in Letters
  <2>1. Is(text, index, Letters)
    BY <1>1, <1>5 DEF Is
  <2>2. in_word' = TRUE /\ words' = IF in_word THEN words ELSE words + 1
    BY <1>5 DEF Count
  <2>3. StartsWord(text, index) <=> ~in_word
    BY <1>1, <1>5, LetterStarts
  <2>4. CountIsStarts'
    BY <1>2, <1>3, <2>2, <2>3 DEF CountIsStarts
  <2>5. TypeOK'
    BY <1>1, <1>3, <2>2 DEF TypeOK
  <2>6. in_word' = InWord'
    BY <1>4, <2>1, <2>2
  <2> QED
    BY <2>4, <2>5, <2>6
<1>6. CASE text[index] \notin Letters
  <2>1. ~Is(text, index, Letters)
    BY <1>6 DEF Is
  <2>2. in_word' = Continues /\ words' = words
    BY <1>6 DEF Count
  <2>3. CountIsStarts'
    BY <1>2, <2>1, <2>2 DEF CountIsStarts, StartsWord
  <2>4. TypeOK'
    BY <1>1, <1>3, <2>2 DEF TypeOK, Continues
  <2>5. in_word' = InWord'
    <3>1. InWord' \in BOOLEAN /\ in_word' \in BOOLEAN
      BY <2>4 DEF InWord, TypeOK
    <3>2. index <= Len(text)
      BY <1>1
    <3>3. InWord' <=> in_word /\ Continues
      BY <1>4, <1>6, <2>1, <3>2, OtherContinues, Zenon
    <3>4. Continues => in_word
      BY DEF Continues
    <3>5. InWord' = Continues
      <4>1. Continues \in BOOLEAN
        BY DEF Continues
      <4> QED
        BY <3>1, <3>3, <3>4, <4>1
    <3> QED
      BY <2>2, <3>5
  <2> QED
    BY <2>3, <2>4, <2>5
<1> QED
  BY <1>5, <1>6

(* Nothing is counted yet, and no word begun.                                 *)
LEMMA InitLoop == Init => LoopInv
<1> SUFFICES ASSUME Init PROVE LoopInv
  OBVIOUS
<1>1. /\ text \in Seq(Letters \cup Others) /\ Len(text) \in Nat
      /\ index = 1 /\ words = 0 /\ in_word = FALSE
  BY TextsAssumption DEF Init
<1>2. Starts = {}
  BY <1>1 DEF Starts
<1>3. CountIsStarts
  BY <1>1, <1>2, FS_EmptySet DEF CountIsStarts
<1>4. TypeOK
  <2>1. outcome \in Outcomes
    BY DEF Init, Outcomes
  <2>2. text \in Texts /\ capability \in Signed[text]
    BY Zenon DEF Init
  <2>3. capability \in Capability /\ index \in 1 .. Len(text) + 1 /\ words \in Nat
    BY <1>1, <2>2, SignedAssumption
  <2>4. in_word \in BOOLEAN
    BY <1>1
  <2> QED
    BY <2>1, <2>2, <2>3, <2>4 DEF TypeOK
<1>5. InWord = FALSE
  BY <1>1 DEF InWord, Is
<1> QED
  BY <1>1, <1>3, <1>4, <1>5 DEF LoopInv

(* Every step of a count keeps the invariant.                                 *)
LEMMA LoopStep == LoopInv /\ [Next]_vars => LoopInv'
<1> SUFFICES ASSUME LoopInv, [Next]_vars PROVE LoopInv'
  OBVIOUS
<1>1. CASE Count
  BY <1>1, CountStep
<1>2. ASSUME UNCHANGED <<text, capability, index, words, in_word>>, outcome' \in Outcomes
      PROVE  LoopInv'
  BY <1>2 DEF LoopInv, TypeOK, InWord, CountIsStarts, Starts, StartsWord
<1>3. CASE Validate
  <2>1. outcome' \in Outcomes
    BY <1>3 DEF Validate, Verdict, Outcomes
  <2> QED
    BY <1>2, <1>3, <2>1 DEF Validate
<1>4. CASE UNCHANGED vars
  BY <1>2, <1>4 DEF vars, LoopInv, TypeOK
<1> QED
  BY <1>1, <1>3, <1>4 DEF Next

(* At every round the workload's count is the number of words begun so far    *)
(* (text.py:40-57), for every text.                                           *)
THEOREM WordsAreCounted == Spec => []CountIsStarts
<1>1. LoopInv => CountIsStarts
  BY DEF LoopInv
<1> QED
  BY InitLoop, LoopStep, <1>1, PTL DEF Spec

----------------------------------------------------------------------------
(* Induction from the end of a text. The theorems on induction of the library *)
(* take a predicate as a parameter; these take the set of counterexamples.    *)

(* A set of naturals that is not empty has a least element.                   *)
LEMMA LeastExists ==
    ASSUME NEW S \in SUBSET Nat, S # {}
    PROVE  \E x \in S : \A y \in S : x <= y
<1>1. PICK R : R = OpToRel(<, Nat)
  OBVIOUS
<1>2. IsWellFoundedOn(R, Nat)
  BY <1>1, NatLessThanWellFounded, Zenon
<1>3. PICK x \in S : \A y \in S : ~ (<<y, x>> \in R)
  BY <1>2, WFMin, Zenon
<1>4. R = {ss \in Nat \X Nat : ss[1] < ss[2]}
  BY <1>1 DEF OpToRel
<1>5. \A y \in Nat, z \in Nat : y < z => <<y, z>> \in R
  BY <1>4
<1>6. \A y \in S : ~ (y < x)
  BY <1>3, <1>5, Zenon
<1> QED
  BY <1>6

(* A bounded one that is not empty has a greatest.                            *)
LEMMA GreatestExists ==
    ASSUME NEW n \in Nat, NEW S \in SUBSET (0 .. n), S # {}
    PROVE  \E x \in S : \A y \in S : y <= x
<1> DEFINE Below == {k \in 0 .. n : n - k \in S}
<1>1. Below \in SUBSET Nat
  OBVIOUS
<1>2. Below # {}
  <2>1. PICK y : y \in S
    OBVIOUS
  <2>2. n - y \in 0 .. n /\ n - (n - y) = y
    BY <2>1
  <2> QED
    BY <2>1, <2>2
<1>3. PICK k \in Below : \A l \in Below : k <= l
  BY <1>1, <1>2, LeastExists
<1>4. \A y \in S : n - y \in Below
  <2> SUFFICES ASSUME NEW y \in S PROVE n - y \in Below
    OBVIOUS
  <2>1. n - y \in 0 .. n /\ n - (n - y) = y
    OBVIOUS
  <2> QED
    BY <2>1
<1>5. k \in 0 .. n /\ n - k \in S
  OBVIOUS
<1>6. \A y \in S : y <= n - k
  <2> SUFFICES ASSUME NEW y \in S PROVE y <= n - k
    OBVIOUS
  <2>1. k <= n - y
    BY <1>3, <1>4
  <2> QED
    BY <1>5, <2>1
<1> QED
  BY <1>5, <1>6

(* The equations of a function whose value at i is that at a later position   *)
(* plus a number, or given outright.                                          *)
Solution(f, n, more, add, next, base) ==
    \A i \in 1 .. n : f[i] = IF i \in more THEN add[i] + f[next[i]] ELSE base[i]

(* They have a solution.                                                      *)
LEMMA DefinedFromEnd ==
    ASSUME NEW n \in Nat, NEW base \in [1 .. n -> Int], NEW add \in [1 .. n -> Int],
           NEW next \in [1 .. n -> 1 .. n], NEW more \in SUBSET (1 .. n),
           \A i \in more : next[i] > i
    PROVE  \E f \in [1 .. n -> Int] : Solution(f, n, more, add, next, base)
<1> DEFINE Solves(f, m) ==
              \A i \in m .. n : f[i] = IF i \in more THEN add[i] + f[next[i]] ELSE base[i]
           Unsolved == {m \in 1 .. n + 1 : ~ \E f \in [m .. n -> Int] : Solves(f, m)}
<1>1. Unsolved = {}
  <2> SUFFICES ASSUME Unsolved # {} PROVE FALSE
    OBVIOUS
  <2>1. Unsolved \in SUBSET (0 .. n + 1) /\ n + 1 \in Nat
    OBVIOUS
  <2>2. PICK m \in Unsolved : \A l \in Unsolved : l <= m
    BY <2>1, GreatestExists
  <2>3. m \in 1 .. n + 1
    OBVIOUS
  <2>4. m # n + 1
    <3> SUFFICES ASSUME m = n + 1 PROVE FALSE
      OBVIOUS
    <3>1. m .. n = {}
      OBVIOUS
    <3> DEFINE none == [i \in m .. n |-> 0]
    <3>2. none \in [m .. n -> Int]
      OBVIOUS
    <3>3. Solves(none, m)
      BY <3>1
    <3> QED
      BY <3>2, <3>3
  <2>5. m \in 1 .. n /\ m + 1 \in 1 .. n + 1 /\ m + 1 \notin Unsolved
    <3> HIDE DEF Unsolved
    <3>1. m \in 1 .. n /\ m + 1 \in 1 .. n + 1 /\ ~(m + 1 <= m)
      BY <2>3, <2>4
    <3> QED
      BY <2>2, <3>1, Zenon
  <2>6. PICK g \in [m + 1 .. n -> Int] : Solves(g, m + 1)
    BY <2>5
  <2> DEFINE value == IF m \in more THEN add[m] + g[next[m]] ELSE base[m]
             f == [i \in m .. n |-> IF i = m THEN value ELSE g[i]]
  <2>7. value \in Int
    <3>1. CASE m \in more
      <4>1. next[m] \in m + 1 .. n
        BY <2>5, <3>1
      <4>2. g[next[m]] \in Int
        BY <4>1
      <4>3. add[m] \in Int
        BY <2>5
      <4>4. add[m] + g[next[m]] \in Int
        <5>1. \A a, b \in Int : a + b \in Int
          OBVIOUS
        <5> QED
          BY <4>2, <4>3, <5>1, Zenon
      <4> QED
        BY <3>1, <4>4, Zenon
    <3>2. CASE m \notin more
      BY <2>5, <3>2
    <3> QED
      BY <3>1, <3>2
  <2> HIDE DEF value
  <2>8. f \in [m .. n -> Int]
    BY <2>5, <2>6, <2>7
  <2>9. ASSUME NEW i \in m + 1 .. n
        PROVE  f[i] = g[i] /\ (i \in more => next[i] \in m + 1 .. n /\ f[next[i]] = g[next[i]])
    <3>1. \A j \in m + 1 .. n : j \in m .. n /\ j # m
      BY <2>5
    <3>2. \A j \in m + 1 .. n : f[j] = g[j]
      BY <3>1
    <3>3. i \in more => next[i] \in m + 1 .. n
      <4> SUFFICES ASSUME i \in more PROVE next[i] \in m + 1 .. n
        OBVIOUS
      <4>1. i \in 1 .. n /\ next[i] > i /\ next[i] \in 1 .. n
        BY <2>5
      <4> QED
        BY <2>5, <4>1
    <3> QED
      BY <3>2, <3>3
  <2>10. f[m] = value /\ (m \in more => next[m] \in m + 1 .. n /\ f[next[m]] = g[next[m]])
    <3>1. m \in m .. n /\ \A j \in m + 1 .. n : j \in m .. n /\ j # m
      BY <2>5
    <3>2. f[m] = value /\ \A j \in m + 1 .. n : f[j] = g[j]
      BY <3>1
    <3>3. m \in more => next[m] \in m + 1 .. n
      BY <2>5
    <3> QED
      BY <3>2, <3>3
  <2>11. Solves(f, m)
    <3> SUFFICES ASSUME NEW i \in m .. n
                 PROVE  f[i] = IF i \in more THEN add[i] + f[next[i]] ELSE base[i]
      OBVIOUS
    <3> HIDE DEF f
    <3>1. CASE i = m
      BY <2>10, <3>1, Zenon DEF value
    <3>2. CASE i # m
      <4>1. i \in m + 1 .. n
        BY <2>5, <3>2
      <4>2. g[i] = IF i \in more THEN add[i] + g[next[i]] ELSE base[i]
        BY <2>6, <4>1
      <4> QED
        BY <2>9, <4>1, <4>2, Zenon
    <3> QED
      BY <3>1, <3>2
  <2> HIDE DEF f
  <2>12. \E h \in [m .. n -> Int] : Solves(h, m)
    BY <2>8, <2>11, Zenon
  <2> QED
    BY <2>2, <2>12
<1>2. \E f \in [1 .. n -> Int] : Solves(f, 1)
  <2>1. 1 \in 1 .. n + 1
    OBVIOUS
  <2> QED
    BY <1>1, <2>1, Zenon
<1> QED
  BY <1>2, Zenon DEF Solution

----------------------------------------------------------------------------
(* The expression of the page *)

(* Where a match continues after position i, if it does.                      *)
After(t, i) ==
    IF Is(t, i + 1, Letters) THEN i + 1
    ELSE IF Is(t, i + 1, {"apostrophe"}) /\ Is(t, i + 2, Letters) THEN i + 2
    ELSE i

(* The end of a match is that of its continuation.                            *)
LEMMA EndsDefined ==
    ASSUME NEW t, NEW n \in Nat, Len(t) = n, DOMAIN t = 1 .. n, NEW i \in 1 .. n
    PROVE  /\ After(t, i) \in i .. n
           /\ MatchEnds(t)[i] = IF After(t, i) = i THEN i ELSE MatchEnds(t)[After(t, i)]
<1> DEFINE D(f) == [j \in DOMAIN t |->
                      IF Is(t, j + 1, Letters) THEN f[j + 1]
                      ELSE IF Is(t, j + 1, {"apostrophe"}) /\ Is(t, j + 2, Letters)
                           THEN f[j + 2] ELSE j]
           base == [j \in 1 .. n |-> j]
           add == [j \in 1 .. n |-> 0]
           next == [j \in 1 .. n |-> After(t, j)]
           more == {j \in 1 .. n : After(t, j) # j}
<1>1. ASSUME NEW j \in 1 .. n
      PROVE  /\ After(t, j) \in j .. n
             /\ \A f : D(f)[j] = IF After(t, j) = j THEN j ELSE f[After(t, j)]
  <2>1. \A k \in Nat : \A S : Is(t, k, S) => k \in 1 .. n
    BY DEF Is
  <2>2. j \in Nat /\ j + 1 \in Nat /\ j + 2 \in Nat /\ j + 1 # j /\ j + 2 # j
    OBVIOUS
  <2>3. After(t, j) \in j .. n
    BY <2>1, <2>2 DEF After
  <2>4. \A f : D(f)[j] = IF After(t, j) = j THEN j ELSE f[After(t, j)]
    BY <2>2 DEF After
  <2> QED
    BY <2>3, <2>4
<1>2. \E f : f = D(f)
  <2>1. /\ base \in [1 .. n -> Int] /\ add \in [1 .. n -> Int]
        /\ next \in [1 .. n -> 1 .. n] /\ more \in SUBSET (1 .. n)
        /\ \A j \in more : next[j] > j
    BY <1>1
  <2> HIDE DEF base, add, next, more
  <2>2. PICK f \in [1 .. n -> Int] : Solution(f, n, more, add, next, base)
    BY <2>1, DefinedFromEnd, Zenon
  <2>3. ASSUME NEW j \in 1 .. n
        PROVE  f[j] = IF After(t, j) = j THEN j ELSE f[After(t, j)]
    <3>1. f[j] = IF j \in more THEN add[j] + f[next[j]] ELSE base[j]
      BY <2>2, Zenon DEF Solution
    <3>2. /\ add[j] = 0 /\ base[j] = j /\ next[j] = After(t, j)
          /\ (j \in more <=> After(t, j) # j)
      BY DEF add, base, next, more
    <3>3. f[After(t, j)] \in Int
      BY <1>1
    <3>4. 0 + f[After(t, j)] = f[After(t, j)]
      BY <3>3
    <3> QED
      BY <3>1, <3>2, <3>4
  <2>4. f = D(f)
    <3>1. f = [j \in DOMAIN t |-> f[j]]
      OBVIOUS
    <3>2. D(f) = [j \in DOMAIN t |-> D(f)[j]]
      OBVIOUS
    <3>3. \A j \in DOMAIN t : D(f)[j] = f[j]
      <4> HIDE DEF D
      <4> QED
        BY <1>1, <2>3
    <3> HIDE DEF D
    <3> QED
      BY <3>1, <3>2, <3>3
  <2> QED
    BY <2>4
<1>3. MatchEnds(t) = CHOOSE f : f = D(f)
  BY DEF MatchEnds
<1>4. MatchEnds(t) = D(MatchEnds(t))
  <2> HIDE DEF D
  <2> QED
    BY <1>2, <1>3
<1>5. MatchEnds(t)[i] = D(MatchEnds(t))[i]
  BY <1>4, Zenon
<1> HIDE DEF D
<1> QED
  BY <1>1, <1>5

(* A match that covers a letter ends at the last letter of its word: no word  *)
(* starts inside it, and what follows does not continue it.                   *)
EndsWord(t, i, e) ==
    /\ ~ Is(t, e + 1, Letters)
    /\ ~ (Is(t, e + 1, {"apostrophe"}) /\ Is(t, e + 2, Letters))
    /\ \A j \in i + 1 .. e : ~ StartsWord(t, j)

LEMMA MatchesAreWords ==
    ASSUME NEW t, NEW n \in Nat, Len(t) = n, DOMAIN t = 1 .. n,
           NEW i \in 1 .. n, Is(t, i, Letters)
    PROVE  MatchEnds(t)[i] \in i .. n /\ EndsWord(t, i, MatchEnds(t)[i])
<1> DEFINE E(j) == MatchEnds(t)[j]
           Bad == {j \in 1 .. n : Is(t, j, Letters) /\ ~(E(j) \in j .. n /\ EndsWord(t, j, E(j)))}
<1>1. Bad = {}
  <2> SUFFICES ASSUME Bad # {} PROVE FALSE
    OBVIOUS
  <2>1. Bad \in SUBSET (0 .. n)
    OBVIOUS
  <2>2. PICK m \in Bad : \A l \in Bad : l <= m
    BY <2>1, GreatestExists
  <2>3. PICK a : a = After(t, m)
    OBVIOUS
  <2>4. /\ m \in 1 .. n /\ Is(t, m, Letters)
        /\ a \in m .. n
        /\ E(m) = IF a = m THEN m ELSE E(a)
    BY <2>3, EndsDefined
  <2>5. ~(E(m) \in m .. n /\ EndsWord(t, m, E(m)))
    OBVIOUS
  <2>6. CASE a = m
    <3>1. m # m + 1 /\ m # m + 2 /\ m + 1 .. m = {} /\ m \in m .. n
      BY <2>4
    <3>2. ~ Is(t, m + 1, Letters) /\ ~ (Is(t, m + 1, {"apostrophe"}) /\ Is(t, m + 2, Letters))
      BY <2>3, <2>6, <3>1 DEF After
    <3>3. E(m) = m
      BY <2>4, <2>6
    <3> HIDE DEF E
    <3>4. EndsWord(t, m, E(m))
      BY <3>1, <3>2, <3>3 DEF EndsWord
    <3> QED
      BY <2>5, <3>1, <3>3, <3>4
  <2>7. CASE a # m
    <3>1. a \in m + 1 .. n /\ E(m) = E(a)
      BY <2>4, <2>7
    <3>2. \/ a = m + 1 /\ Is(t, a, Letters)
          \/ /\ a = m + 2 /\ Is(t, a, Letters)
             /\ Is(t, m + 1, {"apostrophe"})
      BY <2>3, <2>7 DEF After
    <3>3. E(a) \in a .. n /\ EndsWord(t, a, E(a))
      <4>1. a \in 1 .. n /\ ~(a <= m)
        BY <2>4, <3>1
      <4>2. a \notin Bad
        <5> HIDE DEF Bad
        <5> QED
          BY <2>2, <4>1
      <4> QED
        BY <3>2, <4>1, <4>2
    <3>4. \A j \in m + 1 .. a : ~ StartsWord(t, j)
      <4>1. CASE a = m + 1
        <5>1. a - 1 = m /\ \A j \in m + 1 .. a : j = a
          BY <2>4, <4>1
        <5> QED
          BY <2>4, <5>1 DEF StartsWord
      <4>2. CASE a = m + 2 /\ Is(t, m + 1, {"apostrophe"})
        <5>1. a - 1 = m + 1 /\ a - 2 = m /\ \A j \in m + 1 .. a : j = a \/ j = m + 1
          BY <2>4, <4>2
        <5>2. ~ Is(t, m + 1, Letters)
          BY <4>2, LettersAssumption DEF Is
        <5> QED
          BY <2>4, <4>2, <5>1, <5>2, Zenon DEF StartsWord
      <4> QED
        BY <3>2, <4>1, <4>2
    <3>5. PICK e : e = E(a)
      OBVIOUS
    <3> HIDE DEF E
    <3>6. e \in m .. n
      BY <2>4, <3>1, <3>3, <3>5
    <3>7. \A j \in m + 1 .. e : j \in m + 1 .. a \/ j \in a + 1 .. e
      BY <2>4, <3>1, <3>3, <3>5
    <3>8. EndsWord(t, m, e)
      BY <3>3, <3>4, <3>5, <3>7, Zenon DEF EndsWord
    <3> QED
      BY <2>5, <3>1, <3>5, <3>6, <3>8, Zenon
  <2> QED
    BY <2>6, <2>7
<1> QED
  BY <1>1

(* The matches from a position on: one more than after the match that starts  *)
(* there, or those from the next position on.                                 *)
LEMMA MatchesDefined ==
    ASSUME NEW t, NEW n \in Nat, Len(t) = n, DOMAIN t = 1 .. n, NEW i \in 1 .. n + 1
    PROVE  MatchesFrom(t)[i] =
              IF i = n + 1 THEN 0
              ELSE IF Is(t, i, Letters) THEN 1 + MatchesFrom(t)[MatchEnds(t)[i] + 1]
              ELSE MatchesFrom(t)[i + 1]
<1> DEFINE D(f) == [j \in 1 .. Len(t) + 1 |->
                      IF j > Len(t) THEN 0
                      ELSE IF Is(t, j, Letters) THEN 1 + f[MatchEnds(t)[j] + 1]
                      ELSE f[j + 1]]
           base == [j \in 1 .. n + 1 |-> 0]
           add == [j \in 1 .. n + 1 |-> IF Is(t, j, Letters) THEN 1 ELSE 0]
           next == [j \in 1 .. n + 1 |-> IF j = n + 1 THEN j
                                         ELSE IF Is(t, j, Letters) THEN MatchEnds(t)[j] + 1
                                         ELSE j + 1]
           more == 1 .. n
<1>1. ASSUME NEW j \in 1 .. n + 1
      PROVE  /\ next[j] \in 1 .. n + 1
             /\ j # n + 1 => next[j] > j
             /\ \A f : D(f)[j] = IF j = n + 1 THEN 0
                                 ELSE IF Is(t, j, Letters) THEN 1 + f[MatchEnds(t)[j] + 1]
                                 ELSE f[j + 1]
  <2>1. \A f : D(f)[j] = IF j = n + 1 THEN 0
                         ELSE IF Is(t, j, Letters) THEN 1 + f[MatchEnds(t)[j] + 1]
                         ELSE f[j + 1]
    <3>1. j > Len(t) <=> j = n + 1
      OBVIOUS
    <3>2. j \in 1 .. Len(t) + 1
      OBVIOUS
    <3> QED
      BY <3>1, <3>2, Zenon
  <2>2. CASE j # n + 1 /\ Is(t, j, Letters)
    <3>1. PICK e : e = MatchEnds(t)[j]
      OBVIOUS
    <3>2. j \in 1 .. n /\ e \in j .. n
      BY <2>2, <3>1, MatchesAreWords
    <3>3. next[j] = e + 1
      BY <2>2, <3>1
    <3> QED
      BY <2>1, <3>2, <3>3
  <2>3. CASE ~(j # n + 1 /\ Is(t, j, Letters))
    <3>1. next[j] = IF j = n + 1 THEN j ELSE j + 1
      BY <2>3
    <3> QED
      BY <2>1, <3>1
  <2> QED
    BY <2>2, <2>3
<1>2. \E f : f = D(f)
  <2>1. /\ base \in [1 .. n + 1 -> Int] /\ add \in [1 .. n + 1 -> Int]
        /\ next \in [1 .. n + 1 -> 1 .. n + 1] /\ more \in SUBSET (1 .. n + 1)
        /\ \A j \in more : next[j] > j
        /\ n + 1 \in Nat
    <3>1. next = [j \in 1 .. n + 1 |-> next[j]]
      OBVIOUS
    <3>2. \A j \in more : j \in 1 .. n + 1 /\ j # n + 1
      OBVIOUS
    <3>3. base \in [1 .. n + 1 -> Int] /\ add \in [1 .. n + 1 -> Int]
          /\ more \in SUBSET (1 .. n + 1) /\ n + 1 \in Nat
      OBVIOUS
    <3> HIDE DEF next, D, base, add, more
    <3>4. next \in [1 .. n + 1 -> 1 .. n + 1]
      BY <1>1, <3>1
    <3> QED
      BY <1>1, <3>2, <3>3, <3>4
  <2> HIDE DEF base, add, next, more
  <2>2. PICK f \in [1 .. n + 1 -> Int] : Solution(f, n + 1, more, add, next, base)
    BY <2>1, DefinedFromEnd, Zenon
  <2>3. ASSUME NEW j \in 1 .. n + 1
        PROVE  f[j] = D(f)[j]
    <3>1. f[j] = IF j \in more THEN add[j] + f[next[j]] ELSE base[j]
      BY <2>2, Zenon DEF Solution
    <3>2. j \in more <=> j # n + 1
      BY DEF more
    <3>3. add[j] = (IF Is(t, j, Letters) THEN 1 ELSE 0) /\ base[j] = 0
      BY DEF add, base
    <3>4. j # n + 1 => next[j] = IF Is(t, j, Letters) THEN MatchEnds(t)[j] + 1 ELSE j + 1
      BY DEF next
    <3>5. f[next[j]] \in Int
      BY <1>1
    <3>6. 0 + f[next[j]] = f[next[j]]
      BY <3>5
    <3>7. D(f)[j] = IF j = n + 1 THEN 0
                    ELSE IF Is(t, j, Letters) THEN 1 + f[MatchEnds(t)[j] + 1]
                    ELSE f[j + 1]
      BY <1>1
    <3> HIDE DEF D
    <3> QED
      BY <3>1, <3>2, <3>3, <3>4, <3>6, <3>7
  <2>4. f = D(f)
    <3>1. f = [j \in 1 .. n + 1 |-> f[j]]
      OBVIOUS
    <3>2. D(f) = [j \in 1 .. n + 1 |-> D(f)[j]]
      OBVIOUS
    <3> HIDE DEF D
    <3> QED
      BY <2>3, <3>1, <3>2
  <2> QED
    BY <2>4
<1>3. MatchesFrom(t) = CHOOSE f : f = D(f)
  BY DEF MatchesFrom
<1>4. MatchesFrom(t) = D(MatchesFrom(t))
  <2> HIDE DEF D
  <2> QED
    BY <1>2, <1>3
<1>5. MatchesFrom(t)[i] = D(MatchesFrom(t))[i]
  BY <1>4, Zenon
<1> HIDE DEF D
<1> QED
  BY <1>1, <1>5

(* The words of a text from a position on.                                    *)
WordsFrom(t, n, i) == {j \in i .. n : StartsWord(t, j)}

(* A match of the expression can start here only where a word starts.         *)
Clean(t, i) ==
    /\ Is(t, i, Letters) => StartsWord(t, i)
    /\ ~ (/\ Is(t, i, {"apostrophe"})
          /\ Is(t, i + 1, Letters)
          /\ Is(t, i - 1, Letters))

(* The page finds as many matches in a text as words start in it              *)
(* (measurements.ts:2-3).                                                     *)
LEMMA MatchesCountWords ==
    ASSUME NEW t, NEW n \in Nat, Len(t) = n, DOMAIN t = 1 .. n
    PROVE  MatchCount(t) = Cardinality(WordsFrom(t, n, 1))
<1> DEFINE M(i) == MatchesFrom(t)[i]
           Bad == {i \in 1 .. n + 1 : Clean(t, i) /\ M(i) # Cardinality(WordsFrom(t, n, i))}
<1>1. Bad = {}
  <2> SUFFICES ASSUME Bad # {} PROVE FALSE
    OBVIOUS
  <2>1. Bad \in SUBSET (0 .. n + 1) /\ n + 1 \in Nat
    OBVIOUS
  <2>2. PICK i \in Bad : \A l \in Bad : l <= i
    BY <2>1, GreatestExists
  <2>3. i \in 1 .. n + 1 /\ Clean(t, i) /\ M(i) # Cardinality(WordsFrom(t, n, i))
    OBVIOUS
  <2>4. \A j \in 1 .. n + 1 : j > i /\ Clean(t, j) => M(j) = Cardinality(WordsFrom(t, n, j))
    <3> SUFFICES ASSUME NEW j \in 1 .. n + 1, j > i, Clean(t, j)
                 PROVE  M(j) = Cardinality(WordsFrom(t, n, j))
      OBVIOUS
    <3>1. ~(j <= i)
      BY <2>3
    <3> QED
      BY <2>2, <3>1
  <2>5. M(i) = IF i = n + 1 THEN 0
               ELSE IF Is(t, i, Letters) THEN 1 + M(MatchEnds(t)[i] + 1)
               ELSE M(i + 1)
    BY <2>3, MatchesDefined
  <2> HIDE DEF M, Bad
  <2>6. \A j \in 1 .. n + 1 : /\ IsFiniteSet(WordsFrom(t, n, j))
                              /\ Cardinality(WordsFrom(t, n, j)) \in Nat
    <3> SUFFICES ASSUME NEW j \in 1 .. n + 1
                 PROVE  /\ IsFiniteSet(WordsFrom(t, n, j))
                        /\ Cardinality(WordsFrom(t, n, j)) \in Nat
      OBVIOUS
    <3>1. IsFiniteSet(j .. n) /\ WordsFrom(t, n, j) \in SUBSET (j .. n)
      BY FS_Interval DEF WordsFrom
    <3> QED
      BY <3>1, FS_Subset, FS_CardinalityType
  <2>7. CASE i = n + 1
    <3>1. WordsFrom(t, n, i) = {}
      BY <2>7 DEF WordsFrom
    <3> QED
      BY <2>3, <2>5, <2>7, <3>1, FS_EmptySet
  <2>8. CASE i # n + 1 /\ Is(t, i, Letters)
    <3>1. PICK e : e = MatchEnds(t)[i]
      OBVIOUS
    <3>2. i \in 1 .. n /\ e \in i .. n /\ EndsWord(t, i, e)
      BY <2>3, <2>8, <3>1, MatchesAreWords
    <3>3. /\ e + 1 \in 1 .. n + 1 /\ e + 1 > i /\ (e + 1) + 1 = e + 2
          /\ i \in i .. n /\ i \notin e + 1 .. n
          /\ \A j \in e + 1 .. n : j \in i .. n
          /\ \A j \in i .. n : j = i \/ j \in i + 1 .. e \/ j \in e + 1 .. n
      BY <3>2
    <3>4. Clean(t, e + 1)
      BY <3>2, <3>3, Zenon DEF Clean, EndsWord
    <3>5. M(e + 1) = Cardinality(WordsFrom(t, n, e + 1))
      BY <2>4, <3>3, <3>4
    <3>6. StartsWord(t, i)
      BY <2>3, <2>8 DEF Clean
    <3>7. WordsFrom(t, n, i) = WordsFrom(t, n, e + 1) \cup {i}
      <4>1. \A j \in i + 1 .. e : ~ StartsWord(t, j)
        BY <3>2 DEF EndsWord
      <4> QED
        BY <3>3, <3>6, <4>1 DEF WordsFrom
    <3>8. i \notin WordsFrom(t, n, e + 1)
      BY <3>3 DEF WordsFrom
    <3>9. Cardinality(WordsFrom(t, n, i)) = Cardinality(WordsFrom(t, n, e + 1)) + 1
      <4>1. PICK W : W = WordsFrom(t, n, e + 1)
        OBVIOUS
      <4>2. IsFiniteSet(W)
        BY <2>6, <3>3, <4>1, Zenon
      <4>3. i \notin W
        BY <3>8, <4>1, Zenon
      <4>4. Cardinality(W \cup {i}) = Cardinality(W) + 1
        BY <4>2, <4>3, FS_AddElement
      <4> QED
        BY <3>7, <4>1, <4>4, Zenon
    <3>10. M(i) = 1 + M(e + 1)
      BY <2>5, <2>8, <3>1
    <3> QED
      BY <2>3, <2>6, <3>3, <3>5, <3>9, <3>10
  <2>9. CASE i # n + 1 /\ ~ Is(t, i, Letters)
    <3>1. /\ i \in 1 .. n /\ i + 1 \in 1 .. n + 1 /\ i + 1 > i
          /\ (i + 1) - 1 = i /\ (i + 1) - 2 = i - 1
      BY <2>3, <2>9
    <3>2. Clean(t, i + 1)
      BY <2>3, <2>9, <3>1 DEF Clean, StartsWord
    <3>3. \A j \in i .. n : j = i \/ j \in i + 1 .. n
      BY <3>1
    <3>4. \A j \in i + 1 .. n : j \in i .. n
      BY <3>1
    <3>5. ~ StartsWord(t, i)
      BY <2>9 DEF StartsWord
    <3>6. WordsFrom(t, n, i) = WordsFrom(t, n, i + 1)
      BY <3>3, <3>4, <3>5, Zenon DEF WordsFrom
    <3>7. M(i) = M(i + 1)
      BY <2>5, <2>9
    <3>8. M(i + 1) = Cardinality(WordsFrom(t, n, i + 1))
      BY <2>4, <3>1, <3>2, Zenon
    <3> QED
      BY <2>3, <3>6, <3>7, <3>8, Zenon
  <2> QED
    BY <2>7, <2>8, <2>9
<1>2. Clean(t, 1)
  <2>1. \A S : ~ Is(t, 1 - 1, S) /\ ~ Is(t, 1 - 2, S)
    BY DEF Is
  <2> QED
    BY <2>1 DEF Clean, StartsWord
<1>3. 1 \in 1 .. n + 1
  OBVIOUS
<1>4. M(1) = Cardinality(WordsFrom(t, n, 1))
  BY <1>1, <1>2, <1>3
<1> QED
  BY <1>4 DEF MatchCount

(* The verdict is taken at the end of the text, once, of a capability that    *)
(* could be issued.                                                           *)
VerdictInv ==
    /\ LoopInv
    /\ capability \in Capability /\ ValidCapability(capability)
    /\ outcome # "counting" => index = Len(text) + 1 /\ outcome = Verdict

LEMMA VerdictStep ==
    ASSUME VerdictInv, [Next]_vars
    PROVE  VerdictInv'
<1>0. capability' = capability
  BY Zenon DEF Next, Count, Validate, vars
<1>1. LoopInv'
  BY LoopStep DEF VerdictInv
<1>2. CASE Count
  <2>1. outcome' = "counting"
    BY <1>2 DEF Count
  <2> QED
    BY <1>0, <1>1, <2>1, Zenon DEF VerdictInv
<1>3. CASE Validate
  <2>1. Verdict' = Verdict
    BY <1>3, Zenon DEF Validate, Verdict
  <2> QED
    BY <1>0, <1>1, <1>3, <2>1, Zenon DEF Validate, VerdictInv
<1>4. CASE UNCHANGED vars
  <2>1. Verdict' = Verdict
    BY <1>4, Zenon DEF vars, Verdict
  <2> QED
    BY <1>0, <1>1, <1>4, <2>1, Zenon DEF vars, VerdictInv
<1> QED
  BY <1>2, <1>3, <1>4 DEF Next

(* The workload cleans a text exactly if the capability is for the matches    *)
(* the page finds in it, its characters and its bytes, and for a text, for    *)
(* every text and every capability that could be issued (text.py:40-57,       *)
(* measurements.ts:2-6, app.py:207-224).                                      *)
THEOREM CleanedIffMeasured == Spec => []CleanedIfMeasured
<1>1. Init => VerdictInv
  <2> SUFFICES ASSUME Init PROVE VerdictInv
    OBVIOUS
  <2>1. text \in Texts /\ capability \in Signed[text] /\ ValidCapability(capability)
    BY Zenon DEF Init
  <2>2. Signed[text] \subseteq Capability
    BY <2>1, SignedAssumption
  <2>3. outcome = "counting"
    BY DEF Init
  <2> QED
    BY <2>1, <2>2, <2>3, InitLoop, Zenon DEF VerdictInv
<1>2. VerdictInv => CleanedIfMeasured
  <2> SUFFICES ASSUME VerdictInv, outcome # "counting"
               PROVE  outcome = "ok" <=> /\ capability = Measured(text)
                                         /\ \A i \in DOMAIN text : text[i] # "surrogate"
    BY DEF CleanedIfMeasured
  <2>1. PICK n : n = Len(text)
    OBVIOUS
  <2>2. /\ text \in Seq(Letters \cup Others) /\ n \in Nat
        /\ DOMAIN text = 1 .. n /\ index - 1 = n
    BY <2>1, TextFacts DEF VerdictInv, LoopInv
  <2>3. Starts = WordsFrom(text, n, 1)
    BY <2>2 DEF Starts, WordsFrom
  <2>4. words = MatchCount(text)
    BY <2>1, <2>2, <2>3, MatchesCountWords DEF VerdictInv, LoopInv, CountIsStarts
  <2>5. (\A i \in DOMAIN text : text[i] = "space") => words = 0
    <3> SUFFICES ASSUME \A i \in DOMAIN text : text[i] = "space" PROVE words = 0
      OBVIOUS
    <3>1. \A i : ~ Is(text, i, Letters)
      BY <2>1, <2>2, LettersAssumption DEF Is
    <3>2. Starts = {}
      BY <3>1, Zenon DEF Starts, StartsWord
    <3> QED
      BY <3>2, FS_EmptySet DEF VerdictInv, LoopInv, CountIsStarts
  <2> DEFINE Same == /\ capability.assetKind = "TEXT"
                     /\ words = capability.words
                     /\ Len(text) = capability.characters
                     /\ InputBytes(text) = capability.inputBytes
  <2>6. Same <=> capability = Measured(text)
    BY <2>4, SMT DEF VerdictInv, Capability, Measured
  <2>7. Same => words # 0
    BY SMT DEF VerdictInv, Capability, ValidCapability
  <2>8. outcome = Verdict
    BY DEF VerdictInv
  <2>9. Verdict = "ok" <=> /\ ~ \A i \in DOMAIN text : text[i] = "space"
                           /\ ~ \E i \in DOMAIN text : text[i] = "surrogate"
                           /\ words # 0 /\ Same
    BY Zenon DEF Verdict
  <2> HIDE DEF Same
  <2> QED
    BY <2>5, <2>6, <2>7, <2>8, <2>9
<1>3. VerdictInv /\ [Next]_vars => VerdictInv'
  BY VerdictStep
<1> QED
  BY <1>1, <1>2, <1>3, PTL DEF Spec
==============================================================================

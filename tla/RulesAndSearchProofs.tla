------------------------ MODULE RulesAndSearchProofs ------------------------
(***************************************************************************)
(* What the functions of RulesAndSearch compute for every version, rule    *)
(* set, catalogue, request and row there may be.                           *)
(*                                                                         *)
(* The argument.  There is one step, which picks an input, so that what    *)
(* holds of every input holds always (InputAlways).  What a recursion over *)
(* a sequence computes is shown by a fact about its first n elements,      *)
(* looking at the least n for which it fails; that the function defined by *)
(* the recursion exists at all is shown in the same way.                   *)
(***************************************************************************)
EXTENDS RulesAndSearch, FiniteSetTheorems, SequenceTheorems, WellFoundedInduction, TLAPS

-----------------------------------------------------------------------------
(* Least numbers.                                                          *)

\* A set of numbers that is not empty has a least element.
LEMMA LeastNumber ==
    ASSUME NEW T \in SUBSET Nat, T # {}
    PROVE  \E n \in T : \A m \in T : n <= m
<1> DEFINE Less == OpToRel(<, Nat)
<1>1. IsWellFoundedOn(Less, Nat)
  BY NatLessThanWellFounded
<1>2. \A m, n \in Nat : <<m, n>> \in Less <=> m < n
  BY DEF OpToRel
<1> HIDE DEF Less
<1>3. PICK n \in T : \A m \in T : ~(<<m, n>> \in Less)
  BY <1>1, WFMin
<1>4. \A m \in T : ~(m < n)
  BY <1>2, <1>3
<1> QED BY <1>4

-----------------------------------------------------------------------------
(* Sequences arranged by an order of their places.                         *)

\* R puts the elements of K in a line.
Orders(K, R) ==
    /\ \A i \in K : <<i, i>> \notin R
    /\ \A i, j \in K : i # j => (<<i, j>> \in R \/ <<j, i>> \in R)
    /\ \A i, j, k \in K : <<i, j>> \in R /\ <<j, k>> \in R => <<i, k>> \in R

\* How many elements of K come before i.
Rank(K, R, i) == Cardinality({j \in K : <<j, i>> \in R})

\* The ranks grow along the line.
LEMMA RankGrows ==
    ASSUME NEW K, IsFiniteSet(K), NEW R, Orders(K, R),
           NEW i \in K, NEW j \in K, <<i, j>> \in R
    PROVE  Rank(K, R, i) < Rank(K, R, j)
<1> DEFINE A == {k \in K : <<k, i>> \in R}
           B == {k \in K : <<k, j>> \in R}
<1>1. A \subseteq B
  BY DEF Orders
<1>2. i \in B /\ i \notin A
  BY DEF Orders
<1>3. IsFiniteSet(A) /\ IsFiniteSet(B)
  BY FS_Subset
<1>4. Cardinality(A) \in Nat /\ Cardinality(B) \in Nat
  BY <1>3, FS_CardinalityType
<1>5. Cardinality(A) <= Cardinality(B) /\ Cardinality(A) # Cardinality(B)
  BY <1>1, <1>2, <1>3, FS_Subset
<1> QED BY <1>4, <1>5 DEF Rank

\* Every number under the size of K is the rank of an element.
LEMMA RankFacts ==
    ASSUME NEW K, IsFiniteSet(K), NEW R, Orders(K, R)
    PROVE  /\ Cardinality(K) \in Nat
           /\ \A i \in K : Rank(K, R, i) \in 0 .. Cardinality(K) - 1
           /\ \A n \in 1 .. Cardinality(K) : \E i \in K : Rank(K, R, i) = n - 1
<1> DEFINE c == Cardinality(K)
           f == [i \in K |-> Rank(K, R, i) + 1]
<1>1. c \in Nat
  BY FS_CardinalityType
<1>2. ASSUME NEW i \in K PROVE Rank(K, R, i) \in 0 .. c - 1
  <2> DEFINE A == {k \in K : <<k, i>> \in R}
  <2>1. IsFiniteSet(A) /\ Cardinality(A) <= c /\ (c = Cardinality(A) => K = A)
    BY FS_Subset
  <2>2. i \notin A
    BY DEF Orders
  <2>3. Cardinality(A) \in Nat
    BY <2>1, FS_CardinalityType
  <2>4. Cardinality(A) \in 0 .. c - 1
    <3> HIDE DEF A, c
    <3> QED BY <1>1, <2>1, <2>2, <2>3
  <2> QED BY <2>4 DEF Rank
<1>3. \A i, j \in K : Rank(K, R, i) = Rank(K, R, j) => i = j
  <2> SUFFICES ASSUME NEW i \in K, NEW j \in K, Rank(K, R, i) = Rank(K, R, j), i # j PROVE FALSE
    OBVIOUS
  <2>1. <<i, j>> \in R \/ <<j, i>> \in R
    BY DEF Orders
  <2>2. Rank(K, R, i) < Rank(K, R, j) \/ Rank(K, R, j) < Rank(K, R, i)
    BY <2>1, RankGrows
  <2>3. Rank(K, R, i) \in Int /\ Rank(K, R, j) \in Int
    BY <1>2
  <2> QED BY <2>2, <2>3
<1>4. f \in Injection(K, 1 .. c)
  <2>1. \A i \in K : f[i] \in 1 .. c
    <3> HIDE DEF c
    <3> QED BY <1>1, <1>2
  <2>2. ASSUME NEW i \in K, NEW j \in K, f[i] = f[j] PROVE i = j
    <3>1. Rank(K, R, i) \in Int /\ Rank(K, R, j) \in Int
      BY <1>2
    <3>2. Rank(K, R, i) = Rank(K, R, j)
      BY <2>2, <3>1
    <3> QED BY <1>3, <3>2
  <2> HIDE DEF f, c
  <2>3. f \in [K -> 1 .. c]
    <3>1. f = [i \in K |-> f[i]]
      BY DEF f
    <3> QED BY <2>1, <3>1
  <2> QED BY <2>2, <2>3 DEF Injection, IsInjective
<1>5. IsFiniteSet(1 .. c) /\ Cardinality(1 .. c) = c
  <2> HIDE DEF c
  <2>1. IsFiniteSet(1 .. c) /\ Cardinality(1 .. c) = IF 1 > c THEN 0 ELSE c - 1 + 1
    BY <1>1, FS_Interval
  <2> QED BY <1>1, <2>1
<1>6. f \in Surjection(K, 1 .. c)
  <2> HIDE DEF f
  <2> QED BY <1>4, <1>5, FS_Injection
<1>7. ASSUME NEW n \in 1 .. c PROVE \E i \in K : Rank(K, R, i) = n - 1
  <2>1. PICK i \in K : f[i] = n
    <3> HIDE DEF f, c
    <3> QED BY <1>6 DEF Surjection
  <2>2. Rank(K, R, i) \in Int /\ n \in Int /\ Rank(K, R, i) + 1 = n
    BY <1>2, <2>1
  <2> QED BY <2>2
<1> QED BY <1>1, <1>2, <1>7

\* p numbers the elements of K along the line.
Numbers(p, K, R) ==
    /\ p \in [1 .. Cardinality(K) -> K]
    /\ \A i \in K : \E n \in 1 .. Cardinality(K) : p[n] = i
    /\ \A m, n \in 1 .. Cardinality(K) : m < n => <<p[m], p[n]>> \in R
    /\ \A m, n \in 1 .. Cardinality(K) : p[m] = p[n] => m = n

\* Arranged takes every element once, in their order.
LEMMA ArrangedFacts ==
    ASSUME NEW s, NEW K, IsFiniteSet(K), NEW R, Orders(K, R)
    PROVE  \E p : /\ Numbers(p, K, R)
                  /\ Arranged(s, K, R) = [n \in 1 .. Cardinality(K) |-> s[p[n]]]
<1> DEFINE c == Cardinality(K)
           p == [n \in 1 .. c |-> CHOOSE i \in K : Rank(K, R, i) = n - 1]
<1>1. c \in Nat
  BY FS_CardinalityType
<1>2. \A n \in 1 .. c : p[n] \in K /\ Rank(K, R, p[n]) = n - 1
  <2> TAKE n \in 1 .. c
  <2>1. \E i \in K : Rank(K, R, i) = n - 1
    BY RankFacts
  <2> QED BY <2>1
<1>3. Arranged(s, K, R) = [n \in 1 .. c |-> s[p[n]]]
  BY DEF Arranged, Rank
<1> HIDE DEF p, c
<1>4. p \in [1 .. c -> K]
  <2>1. p = [n \in 1 .. c |-> p[n]]
    BY DEF p
  <2> QED BY <1>2, <2>1
<1>5. ASSUME NEW m \in 1 .. c, NEW n \in 1 .. c, p[m] = p[n] PROVE m = n
  BY <1>1, <1>2, <1>5
<1>6. ASSUME NEW m \in 1 .. c, NEW n \in 1 .. c, m < n PROVE <<p[m], p[n]>> \in R
  <2> SUFFICES ASSUME <<p[m], p[n]>> \notin R PROVE FALSE
    OBVIOUS
  <2>1. p[m] # p[n]
    BY <1>1, <1>5, <1>6
  <2>2. <<p[n], p[m]>> \in R
    BY <1>2, <2>1 DEF Orders
  <2>3. Rank(K, R, p[n]) < Rank(K, R, p[m])
    BY <1>2, <2>2, RankGrows
  <2> QED BY <1>1, <1>2, <1>6, <2>3
<1>7. ASSUME NEW i \in K PROVE \E n \in 1 .. c : p[n] = i
  <2> DEFINE n == Rank(K, R, i) + 1
  <2>1. n \in 1 .. c /\ Rank(K, R, i) = n - 1
    <3>1. Rank(K, R, i) \in 0 .. c - 1
      BY RankFacts DEF c
    <3> QED BY <1>1, <3>1
  <2>2. p[n] \in K /\ Rank(K, R, p[n]) = Rank(K, R, i)
    BY <1>2, <2>1
  <2>3. p[n] = i
    <3> SUFFICES ASSUME p[n] # i PROVE FALSE
      OBVIOUS
    <3>1. <<p[n], i>> \in R \/ <<i, p[n]>> \in R
      BY <2>2 DEF Orders
    <3>2. Rank(K, R, p[n]) < Rank(K, R, i) \/ Rank(K, R, i) < Rank(K, R, p[n])
      BY <2>2, <3>1, RankGrows
    <3>3. Rank(K, R, i) \in Int
      BY <2>1, RankFacts DEF c
    <3> QED BY <2>2, <3>2, <3>3
  <2> QED BY <2>1, <2>3
<1>8. Numbers(p, K, R)
  BY <1>4, <1>5, <1>6, <1>7 DEF Numbers, c
<1> QED BY <1>3, <1>8 DEF c

-----------------------------------------------------------------------------
(* Folds over a sequence: they take the places from the last one down.     *)

\* The largest of some places, as Max chooses it.
LEMMA MaxPlace ==
    ASSUME NEW m \in Nat, NEW s \in SUBSET (1 .. m), s # {}
    PROVE  Max(s) \in 1 .. m /\ s \ {Max(s)} \in SUBSET (1 .. Max(s) - 1)
<1> DEFINE T == {m - n : n \in s}
<1>0. \A n \in s : m - n \in Nat
  OBVIOUS
<1>1. T \in SUBSET Nat /\ T # {}
  BY <1>0
<1>2. PICK t \in T : \A u \in T : t <= u
  BY <1>1, LeastNumber
<1>3. PICK n \in s : t = m - n
  OBVIOUS
<1>4. \A k \in s : n >= k
  <2> TAKE k \in s
  <2>1. m - k \in T
    OBVIOUS
  <2> QED BY <1>2, <1>3, <2>1
<1>5. Max(s) \in s /\ \A k \in s : Max(s) >= k
  BY <1>4 DEF Max
<1> DEFINE x == Max(s)
<1>6. x \in s /\ \A k \in s : x >= k
  BY <1>5
<1> HIDE DEF x
<1>7. x \in 1 .. m /\ \A k \in s : k \in Nat /\ k >= 1
  BY <1>6
<1>8. \A k \in s \ {x} : k \in 1 .. x - 1
  BY <1>6, <1>7
<1>9. x \in 1 .. m /\ s \ {x} \in SUBSET (1 .. x - 1)
  BY <1>7, <1>8
<1> QED BY <1>9 DEF x

\* The places up to m are m and those before.
LEMMA MaxPrefix ==
    ASSUME NEW m \in Nat \ {0}
    PROVE  /\ Max(1 .. m) = m
           /\ (1 .. m) \ {m} = 1 .. m - 1
           /\ 1 .. m # {}
<1>1. m \in 1 .. m
  OBVIOUS
<1>2. Max(1 .. m) \in 1 .. m /\ (1 .. m) \ {Max(1 .. m)} \in SUBSET (1 .. Max(1 .. m) - 1)
  BY <1>1, MaxPlace
<1>3. Max(1 .. m) = m
  <2> SUFFICES ASSUME Max(1 .. m) # m PROVE FALSE
    OBVIOUS
  <2>1. m \in 1 .. Max(1 .. m) - 1
    BY <1>1, <1>2
  <2> QED BY <1>2, <2>1
<1> QED BY <1>1, <1>3

-----------------------------------------------------------------------------
(* The loop over the rules.                                                *)

\* What the rules at some places come to.
Running(rules, before, g, n) ==
    g = [s \in SUBSET (1 .. n) |->
            IF s = {} THEN NothingYet ELSE RunRule(rules, before, g[s \ {Max(s)}], Max(s))]

\* There is a function of that recursion.
LEMMA RunningExists ==
    ASSUME NEW rules, NEW before, NEW n \in Nat
    PROVE  \E g : Running(rules, before, g, n)
<1> DEFINE Bad == {m \in Nat : ~\E g : Running(rules, before, g, m)}
<1> SUFFICES ASSUME Bad # {} PROVE FALSE
  OBVIOUS
<1>1. PICK m \in Bad : \A j \in Bad : m <= j
  BY LeastNumber
<1>2. m \in Nat /\ ~\E g : Running(rules, before, g, m)
  OBVIOUS
<1>3. CASE m = 0
  <2> DEFINE g == [s \in SUBSET (1 .. 0) |-> NothingYet]
  <2>1. \A s \in SUBSET (1 .. 0) : s = {}
    OBVIOUS
  <2>2. Running(rules, before, g, 0)
    <3> DEFINE h == [s \in SUBSET (1 .. 0) |->
                       IF s = {} THEN NothingYet
                       ELSE RunRule(rules, before, g[s \ {Max(s)}], Max(s))]
    <3>1. g = h
      BY <2>1
    <3> QED BY <3>1 DEF Running
  <2> QED BY <1>2, <1>3, <2>2
<1>4. CASE m # 0
  <2>1. m - 1 \in Nat /\ m - 1 \notin Bad
    BY <1>1, <1>4
  <2>2. PICK f : Running(rules, before, f, m - 1)
    BY <2>1
  <2> DEFINE g == [s \in SUBSET (1 .. m) |->
                     IF s = {} THEN NothingYet
                     ELSE RunRule(rules, before, f[s \ {Max(s)}], Max(s))]
             h == [s \in SUBSET (1 .. m) |->
                     IF s = {} THEN NothingYet
                     ELSE RunRule(rules, before, g[s \ {Max(s)}], Max(s))]
  <2>3. \A s \in SUBSET (1 .. m - 1) : f[s] = g[s]
    <3> TAKE s \in SUBSET (1 .. m - 1)
    <3>1. s \in SUBSET (1 .. m)
      BY <2>1
    <3>2. f[s] = IF s = {} THEN NothingYet
                 ELSE RunRule(rules, before, f[s \ {Max(s)}], Max(s))
      BY <2>2 DEF Running
    <3> QED BY <3>1, <3>2
  <2>4. ASSUME NEW s \in SUBSET (1 .. m) PROVE g[s] = h[s]
    <3>1. CASE s = {}
      BY <3>1
    <3>2. CASE s # {}
      <4>1. s \ {Max(s)} \in SUBSET (1 .. m - 1)
        <5>1. Max(s) \in 1 .. m /\ s \ {Max(s)} \in SUBSET (1 .. Max(s) - 1)
          BY <1>2, <3>2, MaxPlace
        <5>2. 1 .. Max(s) - 1 \subseteq 1 .. m - 1
          BY <1>2, <5>1
        <5> QED BY <5>1, <5>2
      <4>2. f[s \ {Max(s)}] = g[s \ {Max(s)}]
        BY <2>3, <4>1
      <4> HIDE DEF g
      <4>3. g[s] = RunRule(rules, before, f[s \ {Max(s)}], Max(s))
        BY <3>2 DEF g
      <4> QED BY <3>2, <4>2, <4>3
    <3> QED BY <3>1, <3>2
  <2>5. g = h
    BY <2>4
  <2>6. Running(rules, before, g, m)
    BY <2>5 DEF Running
  <2> QED BY <1>2, <2>6
<1> QED BY <1>3, <1>4

\* RunRules is the value for all places of such a function.
LEMMA RunRulesIs ==
    ASSUME NEW rules, NEW before, NEW n \in Nat, DOMAIN rules = 1 .. n
    PROVE  \E g : Running(rules, before, g, n) /\ RunRules(rules, before) = g[1 .. n]
<1> DEFINE places == [i \in DOMAIN rules |-> i]
           iter[s \in SUBSET DOMAIN places] ==
               IF s = {} THEN NothingYet
               ELSE RunRule(rules, before, iter[s \ {Max(s)}], places[Max(s)])
<1>1. RunRules(rules, before) = iter[DOMAIN places]
  BY DEF RunRules, FoldLeft, MapThenFoldSet
<1>2. DOMAIN places = 1 .. n
  OBVIOUS
<1>3. PICK g : Running(rules, before, g, n)
  BY RunningExists
<1>4. g = [s \in SUBSET DOMAIN places |->
              IF s = {} THEN NothingYet
              ELSE RunRule(rules, before, g[s \ {Max(s)}], places[Max(s)])]
  <2> DEFINE h == [s \in SUBSET DOMAIN places |->
              IF s = {} THEN NothingYet
              ELSE RunRule(rules, before, g[s \ {Max(s)}], places[Max(s)])]
             k == [s \in SUBSET (1 .. n) |->
              IF s = {} THEN NothingYet
              ELSE RunRule(rules, before, g[s \ {Max(s)}], Max(s))]
  <2>1. ASSUME NEW s \in SUBSET (1 .. n), s # {} PROVE places[Max(s)] = Max(s)
    BY <2>1, MaxPlace
  <2>2. g = k
    BY <1>3 DEF Running
  <2>3. ASSUME NEW s \in SUBSET (1 .. n) PROVE h[s] = k[s]
    <3>1. CASE s = {}
      <4> HIDE DEF places
      <4> QED BY <1>2, <3>1
    <3>2. CASE s # {}
      <4> HIDE DEF places
      <4> QED BY <1>2, <2>1, <3>2
    <3> QED BY <3>1, <3>2
  <2>4. h = k
    <3> HIDE DEF places
    <3> QED BY <1>2, <2>3
  <2> QED BY <2>2, <2>4
<1>5. \E f : f = [s \in SUBSET DOMAIN places |->
              IF s = {} THEN NothingYet
              ELSE RunRule(rules, before, f[s \ {Max(s)}], places[Max(s)])]
  <2> HIDE DEF iter, places
  <2> QED BY <1>4
<1>6. iter = [s \in SUBSET DOMAIN places |->
                IF s = {} THEN NothingYet
                ELSE RunRule(rules, before, iter[s \ {Max(s)}], places[Max(s)])]
  BY <1>5
<1> HIDE DEF iter
<1>7. Running(rules, before, iter, n)
  <2> DEFINE h == [s \in SUBSET DOMAIN places |->
              IF s = {} THEN NothingYet
              ELSE RunRule(rules, before, iter[s \ {Max(s)}], places[Max(s)])]
             k == [s \in SUBSET (1 .. n) |->
              IF s = {} THEN NothingYet
              ELSE RunRule(rules, before, iter[s \ {Max(s)}], Max(s))]
  <2>1. ASSUME NEW s \in SUBSET (1 .. n), s # {} PROVE places[Max(s)] = Max(s)
    BY <2>1, MaxPlace
  <2>2. ASSUME NEW s \in SUBSET (1 .. n) PROVE h[s] = k[s]
    <3>1. CASE s = {}
      <4> HIDE DEF places
      <4> QED BY <1>2, <3>1
    <3>2. CASE s # {}
      <4> HIDE DEF places
      <4> QED BY <1>2, <2>1, <3>2
    <3> QED BY <3>1, <3>2
  <2>3. h = k
    <3> HIDE DEF places
    <3> QED BY <1>2, <2>2
  <2>4. iter = h
    BY <1>6
  <2> QED BY <2>3, <2>4 DEF Running
<1> QED BY <1>1, <1>2, <1>7

\* How far the loop has come after the first m rules: where nothing has ended it, it has
\* the rules that fail on the answers, and else those up to the first that ends it.
RunSoFar(rules, before, sofar, m) ==
    LET failing == Failing(rules, before)
        ending == Ending(rules, before)
    IN  /\ sofar.stopped <=> ending \cap (1 .. m) # {}
        /\ ~sofar.stopped => sofar.errors = failing \cap (1 .. m)
        /\ sofar.stopped => \E e \in ending \cap (1 .. m) :
                                /\ \A i \in ending : e <= i
                                /\ sofar.errors = failing \cap (1 .. e)

\* One more rule keeps that.
LEMMA RunRuleFacts ==
    ASSUME NEW rules, NEW before, NEW n \in Nat, DOMAIN rules = 1 .. n,
           NEW m \in 1 .. n, NEW sofar, RunSoFar(rules, before, sofar, m - 1)
    PROVE  RunSoFar(rules, before, RunRule(rules, before, sofar, m), m)
<1> DEFINE failing == Failing(rules, before)
           ending == Ending(rules, before)
           next == RunRule(rules, before, sofar, m)
           fails == rules[m].operation # "drop" /\ ApplyOperation(rules[m], before).error
<1>1. failing \subseteq 1 .. n /\ ending \subseteq 1 .. n
  BY DEF Failing, Ending
<1>2. m \in failing <=> fails
  BY DEF Failing
<1>3. m \in ending <=> /\ rules[m].is_required
                       /\ rules[m].operation # "drop"
                       /\ \E j \in failing : j <= m
  BY DEF Ending
<1>4. /\ sofar.stopped <=> ending \cap (1 .. m - 1) # {}
      /\ ~sofar.stopped => sofar.errors = failing \cap (1 .. m - 1)
      /\ sofar.stopped => \E e \in ending \cap (1 .. m - 1) :
                              /\ \A i \in ending : e <= i
                              /\ sofar.errors = failing \cap (1 .. e)
  BY DEF RunSoFar
<1>5. 1 .. m = (1 .. m - 1) \cup {m}
  OBVIOUS
<1>6. CASE sofar.stopped
  <2>1. next = sofar
    BY <1>6 DEF RunRule
  <2> HIDE DEF next, failing, ending
  <2>2. PICK e \in ending \cap (1 .. m - 1) :
            (\A i \in ending : e <= i) /\ sofar.errors = failing \cap (1 .. e)
    BY <1>4, <1>6
  <2>3. e \in ending \cap (1 .. m)
    BY <1>5
  <2>4. RunSoFar(rules, before, next, m)
    BY <1>6, <2>1, <2>2, <2>3 DEF RunSoFar, failing, ending
  <2> QED BY <2>4 DEF next
<1>7. CASE ~sofar.stopped /\ rules[m].operation = "drop"
  <2>1. next = sofar
    BY <1>7 DEF RunRule
  <2>2. m \notin failing /\ m \notin ending
    BY <1>2, <1>3, <1>7
  <2> HIDE DEF next, failing, ending
  <2>3. failing \cap (1 .. m) = failing \cap (1 .. m - 1)
    BY <1>5, <2>2
  <2>4. ending \cap (1 .. m) = ending \cap (1 .. m - 1)
    BY <1>5, <2>2
  <2>5. RunSoFar(rules, before, next, m)
    BY <1>4, <1>7, <2>1, <2>3, <2>4 DEF RunSoFar, failing, ending
  <2> QED BY <2>5 DEF next
<1>8. CASE ~sofar.stopped /\ rules[m].operation # "drop"
  <2> DEFINE errors == sofar.errors \cup (IF ApplyOperation(rules[m], before).error THEN {m} ELSE {})
  <2>1. next.errors = errors /\ (next.stopped <=> rules[m].is_required /\ errors # {})
    BY <1>8 DEF RunRule
  <2>2. errors = failing \cap (1 .. m)
    <3>1. sofar.errors = failing \cap (1 .. m - 1)
      BY <1>4, <1>8
    <3>2. m \in failing <=> ApplyOperation(rules[m], before).error
      BY <1>2, <1>8
    <3> HIDE DEF failing
    <3>3. CASE ApplyOperation(rules[m], before).error
      BY <1>5, <3>1, <3>2, <3>3
    <3>4. CASE ~ApplyOperation(rules[m], before).error
      BY <1>5, <3>1, <3>2, <3>4
    <3> QED BY <3>3, <3>4
  <2> HIDE DEF next, failing, ending, errors
  <2>3. ending \cap (1 .. m - 1) = {}
    BY <1>4, <1>8
  <2>4. next.stopped <=> m \in ending
    <3>1. errors # {} <=> \E j \in failing : j <= m
      BY <1>1, <2>2
    <3> QED BY <1>3, <1>8, <2>1, <3>1
  <2>5. next.stopped <=> ending \cap (1 .. m) # {}
    BY <1>5, <2>3, <2>4
  <2>6. next.stopped => \A i \in ending : m <= i
    BY <1>1, <2>3
  <2>7. m \in 1 .. m
    OBVIOUS
  <2>8. RunSoFar(rules, before, next, m)
    BY <2>1, <2>2, <2>4, <2>5, <2>6, <2>7 DEF RunSoFar, failing, ending
  <2> QED BY <2>8 DEF next
<1> QED BY <1>6, <1>7, <1>8

\* So that is how far it comes.
LEMMA RunFacts ==
    ASSUME NEW rules, NEW before, NEW n \in Nat, DOMAIN rules = 1 .. n
    PROVE  RunSoFar(rules, before, RunRules(rules, before), n)
<1>1. PICK g : Running(rules, before, g, n) /\ RunRules(rules, before) = g[1 .. n]
  BY RunRulesIs
<1>2. \A s \in SUBSET (1 .. n) :
          g[s] = IF s = {} THEN NothingYet ELSE RunRule(rules, before, g[s \ {Max(s)}], Max(s))
  BY <1>1 DEF Running
<1> DEFINE Bad == {m \in Nat : m <= n /\ ~RunSoFar(rules, before, g[1 .. m], m)}
<1>3. ASSUME Bad # {} PROVE FALSE
  <2>1. PICK m \in Bad : \A j \in Bad : m <= j
    BY <1>3, LeastNumber
  <2>2. m \in Nat /\ m <= n /\ ~RunSoFar(rules, before, g[1 .. m], m)
    OBVIOUS
  <2>3. 1 .. m \in SUBSET (1 .. n)
    BY <2>2
  <2>4. CASE m = 0
    <3>0. 1 .. m = {}
      BY <2>4
    <3>1. 1 .. m = {} /\ g[1 .. m] = NothingYet
      BY <1>2, <2>3, <3>0
    <3>2. RunSoFar(rules, before, NothingYet, m)
      BY <3>1 DEF RunSoFar, NothingYet
    <3> QED BY <2>2, <3>1, <3>2
  <2>5. CASE m # 0
    <3>1. m - 1 \in Nat /\ m - 1 <= n /\ m \in 1 .. n /\ m - 1 \notin Bad
      BY <2>1, <2>2, <2>5
    <3>2. RunSoFar(rules, before, g[1 .. m - 1], m - 1)
      BY <3>1
    <3>3. Max(1 .. m) = m /\ (1 .. m) \ {m} = 1 .. m - 1 /\ 1 .. m # {}
      BY <2>2, <2>5, MaxPrefix
    <3>4. g[1 .. m] = RunRule(rules, before, g[1 .. m - 1], m)
      BY <1>2, <2>3, <3>3
    <3>5. RunSoFar(rules, before, RunRule(rules, before, g[1 .. m - 1], m), m)
      BY <3>1, <3>2, RunRuleFacts
    <3> QED BY <2>2, <3>4, <3>5
  <2> QED BY <2>4, <2>5
<1>4. n \notin Bad
  BY <1>3
<1> QED BY <1>1, <1>4

-----------------------------------------------------------------------------
(* The inputs.                                                             *)

\* What is known of an input.
InputSound ==
    /\ input.of = "versions" =>
           /\ input.source \in Versions /\ input.target \in Versions
           /\ input.before \in AnswerSets(input.source)
    /\ input.of = "rules" => \E n \in Nat : DOMAIN input.rules = 1 .. n
    /\ input.of = "form" => input.version \in Versions
    /\ input.of = "filters" => \E n \in Nat : DOMAIN input.filters = 1 .. n
    /\ input.of = "search" => input.request \in Requests

\* The inputs are those that the five kinds of call are made with.
THEOREM InputAlways == Spec => []InputSound
<1>1. Init => InputSound
  BY DEF Init, Nothing, InputSound
<1>2. ASSUME InputSound, [Next]_input PROVE InputSound'
  <2>1. CASE Migrate
    BY <2>1 DEF Migrate, InputSound
  <2>2. CASE Run
    BY <2>2, InputsOK DEF Run, InputSound
  <2>3. CASE Validate
    BY <2>3 DEF Validate, InputSound
  <2>4. CASE Catalogue
    BY <2>4, InputsOK DEF Catalogue, InputSound
  <2>5. CASE Query
    BY <2>5 DEF Query, InputSound
  <2>6. CASE UNCHANGED input
    BY <1>2, <2>6 DEF InputSound
  <2> QED BY <1>2, <2>1, <2>2, <2>3, <2>4, <2>5, <2>6 DEF Next
<1> QED BY <1>1, <1>2, PTL DEF Spec

\* A required rule that fails has the migration refused, unless the loop ends before it.
LEMMA RefusalHolds == InputSound => RequiredFailureBlocksUnlessEnded
<1> SUFFICES ASSUME InputSound, input.of = "rules" PROVE RequiredFailureBlocksUnlessEnded
  BY DEF RequiredFailureBlocksUnlessEnded
<1> DEFINE rules == input.rules
           before == input.before
           run == RunRules(rules, before)
           failing == Failing(rules, before)
           ending == Ending(rules, before)
           blocks(i) == rules[i].is_required /\ \A j \in ending \ failing : i < j
<1>1. PICK n \in Nat : DOMAIN rules = 1 .. n
  BY DEF InputSound
<1>2. RunSoFar(rules, before, run, n)
  BY <1>1, RunFacts
<1>3. failing \subseteq 1 .. n /\ ending \subseteq 1 .. n
  BY <1>1 DEF Failing, Ending
<1>4. \A i \in failing : rules[i].is_required => i \in ending
  BY <1>1, <1>3 DEF Failing, Ending
<1>5. \A i \in ending : rules[i].is_required
  BY DEF Ending
<1>6. RequiredFailure(rules, run.errors) <=> \E i \in run.errors : rules[i].is_required
  BY DEF RequiredFailure
<1>7. RequiredFailure(rules, run.errors) <=> \E i \in failing : blocks(i)
  <2>1. CASE ~run.stopped
    <3>1. run.errors = failing /\ ending = {}
      <4>1. ending \cap (1 .. n) = {} /\ run.errors = failing \cap (1 .. n)
        BY <1>2, <2>1 DEF RunSoFar
      <4> HIDE DEF failing, ending, run
      <4> QED BY <1>3, <4>1
    <3> HIDE DEF failing, ending, run
    <3> QED BY <1>6, <3>1
  <2>2. CASE run.stopped
    <3>1. PICK e \in ending : /\ \A i \in ending : e <= i
                              /\ run.errors = failing \cap (1 .. e)
      BY <1>2, <2>2 DEF RunSoFar
    <3> HIDE DEF failing, ending, run
    <3>2. \A i \in run.errors : rules[i].is_required => i = e
      BY <1>3, <1>4, <3>1
    <3>3. RequiredFailure(rules, run.errors) <=> e \in failing
      BY <1>3, <1>5, <1>6, <3>1, <3>2
    <3>4. ASSUME e \in failing PROVE blocks(e)
      <4>1. ASSUME NEW j \in ending \ failing PROVE e < j
        <5>1. e <= j /\ e # j
          BY <3>1, <3>4, <4>1
        <5> QED BY <1>3, <5>1
      <4> QED BY <1>5, <4>1
    <3>5. ASSUME NEW i \in failing, blocks(i) PROVE e \in failing
      <4>1. i \in ending
        BY <1>4, <3>5
      <4>2. e <= i /\ ~(i < e)
        BY <1>3, <3>1, <4>1
      <4> QED BY <3>5, <4>2
    <3> HIDE DEF blocks
    <3> QED BY <3>3, <3>4, <3>5
  <2> QED BY <2>1, <2>2
<1> QED BY <1>7 DEF RequiredFailureBlocksUnlessEnded

\* For every rule set and all answers: a migration is refused exactly if a required rule
\* fails that no other required rule, one that does not fail itself, keeps from running.
THEOREM Refusal == Spec => []RequiredFailureBlocksUnlessEnded
<1> QED BY InputAlways, RefusalHolds, PTL

-----------------------------------------------------------------------------
(* Answers and forms.                                                      *)

\* If a version has as many keys as questions, every question stands for its key.
LEMMA NoKeyTwice ==
    ASSUME NEW version, NEW n \in Nat, DOMAIN version = 1 .. n,
           Cardinality(Keys(version)) = n
    PROVE  \A i \in DOMAIN version : StandsFor(version, i)
<1> DEFINE f == [i \in 1 .. n |-> version[i].key]
<1>1. f \in Surjection(1 .. n, Keys(version))
  BY DEF Surjection, Keys
<1>2. IsFiniteSet(1 .. n) /\ Cardinality(1 .. n) = n
  <2>1. IsFiniteSet(1 .. n) /\ Cardinality(1 .. n) = IF 1 > n THEN 0 ELSE n - 1 + 1
    BY FS_Interval
  <2> QED BY <2>1
<1>3. f \in Injection(1 .. n, Keys(version))
  <2> HIDE DEF f
  <2> QED BY <1>1, <1>2, FS_Surjection
<1>4. \A i, j \in 1 .. n : version[i].key = version[j].key => i = j
  <2>1. \A i, j \in 1 .. n : f[i] = f[j] => i = j
    <3> HIDE DEF f
    <3> QED BY <1>3 DEF Injection, IsInjective
  <2> QED BY <2>1
<1> QED BY <1>4 DEF StandsFor

\* A question is as visible by all the texts as by those of the questions, if it depends
\* on a question.
LEMMA SameVisibility ==
    ASSUME NEW q, NEW texts, NEW keys, q.depends_on \in keys \cup {None}
    PROVE  IsVisible(q, texts) <=>
               IsVisible(q, [key \in DOMAIN texts \cap keys |-> texts[key]])
<1> DEFINE own == [key \in DOMAIN texts \cap keys |-> texts[key]]
<1>1. ASSUME q.depends_on # None PROVE AnswerTo(texts, q.depends_on) = AnswerTo(own, q.depends_on)
  BY <1>1 DEF AnswerTo
<1> HIDE DEF own
<1>2. IsVisible(q, texts) <=> IsVisible(q, own)
  BY <1>1 DEF IsVisible
<1> QED BY <1>2 DEF own

\* Forms are judged as answers are.
LEMMA FormsHold == InputSound => FormsLikeAnswers
<1> DEFINE version == input.version
           keys == Keys(version)
           texts == [key \in DOMAIN input.form |-> CoerceAnswerValue(input.form[key])]
<1> SUFFICES ASSUME InputSound, input.of = "form", Cardinality(keys) = Len(version),
                    \A i \in DOMAIN version : version[i].depends_on \in keys \cup {None}
             PROVE  FormErrors(version, input.form) = AnswerErrors(version, texts)
  BY DEF FormsLikeAnswers
<1>1. Len(version) \in Nat /\ DOMAIN version = 1 .. Len(version)
  <2>1. version \in Seq(Range(version))
    BY InputsOK DEF InputSound
  <2> HIDE DEF version
  <2> QED BY <2>1
<1>2. \A i \in DOMAIN version : StandsFor(version, i)
  <2> HIDE DEF version
  <2> QED BY <1>1, NoKeyTwice
<1> DEFINE own == [key \in DOMAIN texts \cap keys |-> texts[key]]
           raw == [i \in DOMAIN version |-> AnswerTo(texts, version[i].key)]
           held == [i \in DOMAIN version |->
                       IF StandsFor(version, i) THEN AnswerTo(texts, version[i].key) ELSE None]
<1>3. FormErrors(version, input.form) = ErrorsIn(version, texts, raw)
  BY DEF FormErrors
<1>4. AnswerErrors(version, texts) = ErrorsIn(version, own, held)
  BY DEF AnswerErrors
<1> HIDE DEF version, keys, texts
<1>5. raw = held
  BY <1>2
<1>6. \A i \in DOMAIN version : IsVisible(version[i], texts) <=> IsVisible(version[i], own)
  BY SameVisibility
<1> HIDE DEF raw, held, own
<1>7. ErrorsIn(version, texts, raw) = ErrorsIn(version, own, held)
  BY <1>5, <1>6 DEF ErrorsIn
<1> QED BY <1>3, <1>4, <1>7

\* For every version and every form, with keys that are no question's as well: form_data
\* has the errors that the same values have as answers, as long as no key is used twice
\* and what a question depends on is a question of the version.
THEOREM Forms == Spec => []FormsLikeAnswers
<1> QED BY InputAlways, FormsHold, PTL

-----------------------------------------------------------------------------
(* Sequences put together.                                                 *)

\* The first sequences together, as FlattenSeq goes through them.
Flattening(seqs, f, n) ==
    f = [i \in 1 .. n |-> IF i = 1 THEN seqs[i] ELSE f[i - 1] \o seqs[i]]

\* There is a function of that recursion.
LEMMA FlatteningExists ==
    ASSUME NEW seqs, NEW n \in Nat
    PROVE  \E f : Flattening(seqs, f, n)
<1> DEFINE Bad == {m \in Nat : ~\E f : Flattening(seqs, f, m)}
<1> SUFFICES ASSUME Bad # {} PROVE FALSE
  OBVIOUS
<1>1. PICK m \in Bad : \A j \in Bad : m <= j
  BY LeastNumber
<1>2. m \in Nat /\ ~\E f : Flattening(seqs, f, m)
  OBVIOUS
<1>3. CASE m = 0
  <2> DEFINE g == [i \in 1 .. 0 |-> seqs[i]]
             h == [i \in 1 .. 0 |-> IF i = 1 THEN seqs[i] ELSE g[i - 1] \o seqs[i]]
  <2>1. g = h
    OBVIOUS
  <2>2. Flattening(seqs, g, 0)
    BY <2>1 DEF Flattening
  <2> QED BY <1>2, <1>3, <2>2
<1>4. CASE m # 0
  <2>1. m - 1 \in Nat /\ m - 1 \notin Bad
    BY <1>1, <1>4
  <2>2. PICK f : Flattening(seqs, f, m - 1)
    BY <2>1
  <2> DEFINE g == [i \in 1 .. m |-> IF i = 1 THEN seqs[i] ELSE f[i - 1] \o seqs[i]]
             h == [i \in 1 .. m |-> IF i = 1 THEN seqs[i] ELSE g[i - 1] \o seqs[i]]
  <2>3. \A i \in 1 .. m - 1 : f[i] = g[i]
    <3> TAKE i \in 1 .. m - 1
    <3>1. i \in 1 .. m
      BY <2>1
    <3>2. f[i] = IF i = 1 THEN seqs[i] ELSE f[i - 1] \o seqs[i]
      BY <2>2 DEF Flattening
    <3> QED BY <3>1, <3>2
  <2>4. ASSUME NEW i \in 1 .. m PROVE g[i] = h[i]
    <3>1. CASE i = 1
      BY <3>1
    <3>2. CASE i # 1
      <4>1. i - 1 \in 1 .. m - 1
        BY <1>2, <3>2
      <4>2. f[i - 1] = g[i - 1]
        BY <2>3, <4>1
      <4> HIDE DEF g
      <4>3. g[i] = f[i - 1] \o seqs[i]
        BY <3>2 DEF g
      <4> QED BY <3>2, <4>2, <4>3
    <3> QED BY <3>1, <3>2
  <2>5. g = h
    BY <2>4
  <2>6. Flattening(seqs, g, m)
    BY <2>5 DEF Flattening
  <2> QED BY <1>2, <2>6
<1> QED BY <1>3, <1>4

\* FlattenSeq is the last value of such a function.
LEMMA FlattenIs ==
    ASSUME NEW seqs, NEW n \in Nat \ {0}, Len(seqs) = n
    PROVE  \E f : Flattening(seqs, f, n) /\ FlattenSeq(seqs) = f[n]
<1> DEFINE flatten[i \in 1 .. Len(seqs)] ==
               IF i = 1 THEN seqs[i] ELSE flatten[i - 1] \o seqs[i]
<1>1. FlattenSeq(seqs) = flatten[Len(seqs)]
  BY DEF FlattenSeq
<1>2. \E f : f = [i \in 1 .. Len(seqs) |-> IF i = 1 THEN seqs[i] ELSE f[i - 1] \o seqs[i]]
  <2> HIDE DEF flatten
  <2>1. PICK f : Flattening(seqs, f, Len(seqs))
    BY FlatteningExists
  <2> QED BY <2>1 DEF Flattening
<1>3. flatten = [i \in 1 .. Len(seqs) |->
                    IF i = 1 THEN seqs[i] ELSE flatten[i - 1] \o seqs[i]]
  BY <1>2
<1> HIDE DEF flatten
<1>4. Flattening(seqs, flatten, Len(seqs))
  BY <1>3 DEF Flattening
<1> QED BY <1>1, <1>4

-----------------------------------------------------------------------------
(* The catalogue.                                                          *)

\* What the filters at some places come to.
Cataloguing(filters, g, n) ==
    g = [s \in SUBSET (1 .. n) |->
            IF s = {} THEN <<>> ELSE AddFilter(g[s \ {Max(s)}], filters[Max(s)])]

\* There is a function of that recursion.
LEMMA CataloguingExists ==
    ASSUME NEW filters, NEW n \in Nat
    PROVE  \E g : Cataloguing(filters, g, n)
<1> DEFINE Bad == {m \in Nat : ~\E g : Cataloguing(filters, g, m)}
<1> SUFFICES ASSUME Bad # {} PROVE FALSE
  OBVIOUS
<1>1. PICK m \in Bad : \A j \in Bad : m <= j
  BY LeastNumber
<1>2. m \in Nat /\ ~\E g : Cataloguing(filters, g, m)
  OBVIOUS
<1>3. CASE m = 0
  <2> DEFINE g == [s \in SUBSET (1 .. 0) |-> <<>>]
  <2>1. \A s \in SUBSET (1 .. 0) : s = {}
    OBVIOUS
  <2>2. Cataloguing(filters, g, 0)
    <3> DEFINE h == [s \in SUBSET (1 .. 0) |->
                       IF s = {} THEN <<>>
                       ELSE AddFilter(g[s \ {Max(s)}], filters[Max(s)])]
    <3>1. g = h
      BY <2>1
    <3> QED BY <3>1 DEF Cataloguing
  <2> QED BY <1>2, <1>3, <2>2
<1>4. CASE m # 0
  <2>1. m - 1 \in Nat /\ m - 1 \notin Bad
    BY <1>1, <1>4
  <2>2. PICK f : Cataloguing(filters, f, m - 1)
    BY <2>1
  <2> DEFINE g == [s \in SUBSET (1 .. m) |->
                     IF s = {} THEN <<>>
                     ELSE AddFilter(f[s \ {Max(s)}], filters[Max(s)])]
             h == [s \in SUBSET (1 .. m) |->
                     IF s = {} THEN <<>>
                     ELSE AddFilter(g[s \ {Max(s)}], filters[Max(s)])]
  <2>3. \A s \in SUBSET (1 .. m - 1) : f[s] = g[s]
    <3> TAKE s \in SUBSET (1 .. m - 1)
    <3>1. s \in SUBSET (1 .. m)
      BY <2>1
    <3>2. f[s] = IF s = {} THEN <<>>
                 ELSE AddFilter(f[s \ {Max(s)}], filters[Max(s)])
      BY <2>2 DEF Cataloguing
    <3> QED BY <3>1, <3>2
  <2>4. ASSUME NEW s \in SUBSET (1 .. m) PROVE g[s] = h[s]
    <3>1. CASE s = {}
      BY <3>1
    <3>2. CASE s # {}
      <4>1. s \ {Max(s)} \in SUBSET (1 .. m - 1)
        <5>1. Max(s) \in 1 .. m /\ s \ {Max(s)} \in SUBSET (1 .. Max(s) - 1)
          BY <1>2, <3>2, MaxPlace
        <5>2. 1 .. Max(s) - 1 \subseteq 1 .. m - 1
          BY <1>2, <5>1
        <5> QED BY <5>1, <5>2
      <4>2. f[s \ {Max(s)}] = g[s \ {Max(s)}]
        BY <2>3, <4>1
      <4> HIDE DEF g
      <4>3. g[s] = AddFilter(f[s \ {Max(s)}], filters[Max(s)])
        BY <3>2 DEF g
      <4> QED BY <3>2, <4>2, <4>3
    <3> QED BY <3>1, <3>2
  <2>5. g = h
    BY <2>4
  <2>6. Cataloguing(filters, g, m)
    BY <2>5 DEF Cataloguing
  <2> QED BY <1>2, <2>6
<1> QED BY <1>3, <1>4

\* The filters of one template are the filters of all, and the catalogue is the value for
\* all places of such a function.
LEMMA SearchConfigIs ==
    ASSUME NEW filters, NEW n \in Nat, DOMAIN filters = 1 .. n
    PROVE  \E g : Cataloguing(filters, g, n) /\ SearchConfig(<<filters>>) = g[1 .. n]
<1>1. FlattenSeq(<<filters>>) = filters
  <2> DEFINE seqs == <<filters>>
  <2>1. 1 \in Nat \ {0} /\ Len(seqs) = 1 /\ seqs[1] = filters
    OBVIOUS
  <2> HIDE DEF seqs
  <2>2. PICK f : Flattening(seqs, f, 1) /\ FlattenSeq(seqs) = f[1]
    BY <2>1, FlattenIs, Zenon
  <2>3. FlattenSeq(seqs) = filters
    BY <2>1, <2>2 DEF Flattening
  <2> QED BY <2>3 DEF seqs
<1> DEFINE iter[s \in SUBSET DOMAIN filters] ==
               IF s = {} THEN <<>> ELSE AddFilter(iter[s \ {Max(s)}], filters[Max(s)])
<1>2. SearchConfig(<<filters>>) = iter[DOMAIN filters]
  <2>1. SearchConfig(<<filters>>) = FoldLeft(AddFilter, <<>>, filters)
    BY <1>1 DEF SearchConfig
  <2> QED BY <2>1 DEF FoldLeft, MapThenFoldSet
<1>3. \E g : g = [s \in SUBSET DOMAIN filters |->
                    IF s = {} THEN <<>> ELSE AddFilter(g[s \ {Max(s)}], filters[Max(s)])]
  <2> HIDE DEF iter
  <2>1. PICK g : Cataloguing(filters, g, n)
    BY CataloguingExists
  <2>2. g = [s \in SUBSET (1 .. n) |->
               IF s = {} THEN <<>> ELSE AddFilter(g[s \ {Max(s)}], filters[Max(s)])]
    BY <2>1 DEF Cataloguing
  <2>3. SUBSET DOMAIN filters = SUBSET (1 .. n)
    OBVIOUS
  <2>4. g = [s \in SUBSET DOMAIN filters |->
               IF s = {} THEN <<>> ELSE AddFilter(g[s \ {Max(s)}], filters[Max(s)])]
    BY <2>2, <2>3, Zenon
  <2> QED BY <2>4
<1>4. iter = [s \in SUBSET (1 .. n) |->
                IF s = {} THEN <<>> ELSE AddFilter(iter[s \ {Max(s)}], filters[Max(s)])]
  BY <1>3
<1> HIDE DEF iter
<1> QED BY <1>2, <1>4 DEF Cataloguing

\* The places of the filters offered for a key among the first m.
Offering(filters, key, m) ==
    {i \in 1 .. m : Wellformed(filters[i]) /\ filters[i].key = key}

ItemFields == {"key", "source", "path", "operators", "about", "ambiguous"}

\* An entry of the catalogue after the first m filters means what one of those offered
\* means, is ambiguous if another means something else, and has the operators of all
\* that mean the same.
ItemSoFar(filters, key, item, m) ==
    LET offering == Offering(filters, key, m)
        same(i) == Signature(Normalized(filters[i])) = Signature(item)
    IN  /\ DOMAIN item = ItemFields
        /\ item.ambiguous \in BOOLEAN
        /\ \E i \in offering : same(i)
        /\ item.ambiguous <=> \E i \in offering : ~same(i)
        /\ \A op : op \in item.operators <=>
               \E i \in offering : same(i) /\ op \in Normalized(filters[i]).operators

CatalogueSoFar(filters, catalog, m) ==
    /\ DOMAIN catalog = {key \in DOMAIN catalog : Offering(filters, key, m) # {}}
    /\ \A i \in 1 .. m : Wellformed(filters[i]) => filters[i].key \in DOMAIN catalog
    /\ \A key \in DOMAIN catalog : ItemSoFar(filters, key, catalog[key], m)

\* One more filter for a key.
LEMMA MergeFiltersFacts ==
    ASSUME NEW filters, NEW m \in Nat \ {0}, Wellformed(filters[m]),
           NEW item, ItemSoFar(filters, filters[m].key, item, m - 1)
    PROVE  ItemSoFar(filters, filters[m].key, MergeFilters(item, Normalized(filters[m])), m)
<1> DEFINE key == filters[m].key
           incoming == Normalized(filters[m])
           merged == MergeFilters(item, incoming)
           before == Offering(filters, key, m - 1)
           offering == Offering(filters, key, m)
           same(i) == Signature(Normalized(filters[i])) = Signature(item)
<1>1. offering = before \cup {m}
  BY DEF Offering
<1>2. /\ DOMAIN item = ItemFields
      /\ item.ambiguous \in BOOLEAN
      /\ \E i \in before : same(i)
      /\ item.ambiguous <=> \E i \in before : ~same(i)
      /\ \A op : op \in item.operators <=>
             \E i \in before : same(i) /\ op \in Normalized(filters[i]).operators
  BY DEF ItemSoFar
<1>3. /\ DOMAIN merged = ItemFields
      /\ Signature(merged) = Signature(item)
      /\ merged.ambiguous = (item.ambiguous \/ ~same(m))
      /\ ~same(m) => merged.operators = item.operators
      /\ same(m) => merged.operators = item.operators \cup incoming.operators
  <2>1. CASE same(m)
    <3>1. merged = [item EXCEPT !.operators = item.operators \cup incoming.operators]
      BY <2>1 DEF MergeFilters
    <3> HIDE DEF incoming, merged
    <3>2. /\ DOMAIN merged = ItemFields
          /\ merged.source = item.source /\ merged.path = item.path
          /\ merged.about = item.about /\ merged.ambiguous = item.ambiguous
          /\ merged.operators = item.operators \cup incoming.operators
      BY <1>2, <3>1 DEF ItemFields
    <3> QED BY <1>2, <2>1, <3>2 DEF Signature
  <2>2. CASE ~same(m)
    <3>1. merged = [item EXCEPT !.ambiguous = TRUE]
      BY <2>2 DEF MergeFilters
    <3> HIDE DEF incoming, merged
    <3>2. /\ DOMAIN merged = ItemFields
          /\ merged.source = item.source /\ merged.path = item.path
          /\ merged.about = item.about /\ merged.ambiguous = TRUE
          /\ merged.operators = item.operators
      BY <1>2, <3>1 DEF ItemFields
    <3> QED BY <1>2, <2>2, <3>2 DEF Signature
  <2> QED BY <2>1, <2>2
<1> HIDE DEF merged, before, offering
<1>4. \A op : op \in merged.operators <=>
          \E i \in offering : same(i) /\ op \in Normalized(filters[i]).operators
  BY <1>1, <1>2, <1>3
<1>5. merged.ambiguous <=> \E i \in offering : ~same(i)
  BY <1>1, <1>2, <1>3
<1>6. \E i \in offering : same(i)
  BY <1>1, <1>2
<1>7. ItemSoFar(filters, key, merged, m)
  BY <1>2, <1>3, <1>4, <1>5, <1>6 DEF ItemSoFar, offering
<1> QED BY <1>7 DEF merged

\* One more filter of a catalogue.
LEMMA AddFilterFacts ==
    ASSUME NEW filters, NEW m \in Nat \ {0},
           NEW catalog, CatalogueSoFar(filters, catalog, m - 1)
    PROVE  CatalogueSoFar(filters, AddFilter(catalog, filters[m]), m)
<1> DEFINE raw == filters[m]
           item == Normalized(raw)
           next == AddFilter(catalog, raw)
<1>1. \A key : Offering(filters, key, m) =
          IF Wellformed(raw) /\ raw.key = key THEN Offering(filters, key, m - 1) \cup {m}
          ELSE Offering(filters, key, m - 1)
  BY DEF Offering
<1>2. ASSUME NEW key, ~(Wellformed(raw) /\ raw.key = key), NEW old,
             ItemSoFar(filters, key, old, m - 1)
      PROVE  ItemSoFar(filters, key, old, m)
  BY <1>1, <1>2 DEF ItemSoFar
<1>3. 1 .. m = (1 .. m - 1) \cup {m}
  OBVIOUS
<1>4. item.key = raw.key
  BY DEF Normalized
<1>5. CASE ~Wellformed(raw)
  <2>1. next = catalog
    BY <1>5 DEF AddFilter
  <2> HIDE DEF next
  <2> QED BY <1>1, <1>2, <1>3, <1>5, <2>1 DEF CatalogueSoFar, next
<1>6. CASE Wellformed(raw) /\ raw.key \in DOMAIN catalog
  <2>1. next = [catalog EXCEPT ![raw.key] = MergeFilters(catalog[raw.key], item)]
    BY <1>4, <1>6 DEF AddFilter
  <2>2. ItemSoFar(filters, raw.key, MergeFilters(catalog[raw.key], item), m)
    BY <1>6, MergeFiltersFacts DEF CatalogueSoFar
  <2> HIDE DEF next, item
  <2>3. /\ DOMAIN next = DOMAIN catalog
        /\ next[raw.key] = MergeFilters(catalog[raw.key], item)
        /\ \A key \in DOMAIN catalog : key # raw.key => next[key] = catalog[key]
    BY <1>6, <2>1
  <2>4. \A key \in DOMAIN next : ItemSoFar(filters, key, next[key], m)
    BY <1>2, <2>2, <2>3 DEF CatalogueSoFar
  <2>5. \A key \in DOMAIN next : Offering(filters, key, m) # {}
    BY <1>1, <2>3 DEF CatalogueSoFar
  <2>6. \A i \in 1 .. m : Wellformed(filters[i]) => filters[i].key \in DOMAIN next
    BY <1>3, <1>6, <2>3 DEF CatalogueSoFar
  <2>7. CatalogueSoFar(filters, next, m)
    BY <2>4, <2>5, <2>6 DEF CatalogueSoFar
  <2> QED BY <2>7 DEF next
<1>7. CASE Wellformed(raw) /\ raw.key \notin DOMAIN catalog
  <2>1. next = Put(catalog, raw.key, item)
    BY <1>4, <1>7 DEF AddFilter
  <2>2. /\ DOMAIN next = DOMAIN catalog \cup {raw.key}
        /\ next[raw.key] = item
        /\ \A key \in DOMAIN catalog : next[key] = catalog[key]
    <3> HIDE DEF item, next
    <3> QED BY <1>7, <2>1 DEF Put
  <2>3. Offering(filters, raw.key, m) = {m}
    <3>1. Offering(filters, raw.key, m - 1) = {}
      BY <1>7 DEF CatalogueSoFar, Offering
    <3> QED BY <1>1, <1>7, <3>1
  <2>4. DOMAIN item = ItemFields /\ item.ambiguous = FALSE
    BY DEF Normalized, ItemFields
  <2>5. ItemSoFar(filters, raw.key, item, m)
    <3> HIDE DEF next
    <3> QED BY <2>3, <2>4 DEF ItemSoFar
  <2> HIDE DEF next, item
  <2>6. \A key \in DOMAIN next : ItemSoFar(filters, key, next[key], m)
    BY <1>2, <1>7, <2>2, <2>5 DEF CatalogueSoFar
  <2>7. \A key \in DOMAIN next : Offering(filters, key, m) # {}
    BY <1>1, <2>2, <2>3 DEF CatalogueSoFar
  <2>8. \A i \in 1 .. m : Wellformed(filters[i]) => filters[i].key \in DOMAIN next
    BY <1>3, <2>2 DEF CatalogueSoFar
  <2>9. CatalogueSoFar(filters, next, m)
    BY <2>6, <2>7, <2>8 DEF CatalogueSoFar
  <2> QED BY <2>9 DEF next
<1> QED BY <1>5, <1>6, <1>7

\* So that is the catalogue.
LEMMA CatalogueFacts ==
    ASSUME NEW filters, NEW n \in Nat, DOMAIN filters = 1 .. n
    PROVE  CatalogueSoFar(filters, SearchConfig(<<filters>>), n)
<1>1. PICK g : Cataloguing(filters, g, n) /\ SearchConfig(<<filters>>) = g[1 .. n]
  BY SearchConfigIs
<1>2. \A s \in SUBSET (1 .. n) :
          g[s] = IF s = {} THEN <<>> ELSE AddFilter(g[s \ {Max(s)}], filters[Max(s)])
  BY <1>1 DEF Cataloguing
<1> DEFINE Bad == {m \in Nat : m <= n /\ ~CatalogueSoFar(filters, g[1 .. m], m)}
<1>3. ASSUME Bad # {} PROVE FALSE
  <2>1. PICK m \in Bad : \A j \in Bad : m <= j
    BY <1>3, LeastNumber
  <2>2. m \in Nat /\ m <= n /\ ~CatalogueSoFar(filters, g[1 .. m], m)
    OBVIOUS
  <2>3. 1 .. m \in SUBSET (1 .. n)
    BY <2>2
  <2>4. CASE m = 0
    <3>1. 1 .. m = {}
      BY <2>4
    <3>2. g[1 .. m] = <<>>
      BY <1>2, <2>3, <3>1
    <3>3. CatalogueSoFar(filters, <<>>, m)
      BY <3>1 DEF CatalogueSoFar
    <3> QED BY <2>2, <3>2, <3>3
  <2>5. CASE m # 0
    <3>1. m - 1 \in Nat /\ m - 1 <= n /\ m \in Nat \ {0} /\ m - 1 \notin Bad
      BY <2>1, <2>2, <2>5
    <3>2. CatalogueSoFar(filters, g[1 .. m - 1], m - 1)
      BY <3>1
    <3>3. Max(1 .. m) = m /\ (1 .. m) \ {m} = 1 .. m - 1 /\ 1 .. m # {}
      BY <2>2, <2>5, MaxPrefix
    <3>4. g[1 .. m] = AddFilter(g[1 .. m - 1], filters[m])
      BY <1>2, <2>3, <3>3
    <3>5. CatalogueSoFar(filters, AddFilter(g[1 .. m - 1], filters[m]), m)
      BY <3>1, <3>2, AddFilterFacts
    <3> QED BY <2>2, <3>4, <3>5
  <2> QED BY <2>4, <2>5
<1>4. n \notin Bad
  BY <1>3
<1> QED BY <1>1, <1>4

\* The catalogue does not depend on the order of the filters.
LEMMA CatalogueHolds == InputSound => CatalogueIsOrderFree
<1> DEFINE filters == input.filters
           catalog == SearchConfig(<<filters>>)
           offered(key) == {Normalized(filters[i]) : i \in
                               {j \in DOMAIN filters :
                                   Wellformed(filters[j]) /\ filters[j].key = key}}
<1> SUFFICES ASSUME InputSound, input.of = "filters"
             PROVE  /\ DOMAIN catalog = {f.key : f \in {g \in Range(filters) : Wellformed(g)}}
                    /\ \A key \in DOMAIN catalog :
                          /\ catalog[key].ambiguous
                                <=> \E f, g \in offered(key) : Signature(f) # Signature(g)
                          /\ ~catalog[key].ambiguous =>
                                catalog[key].operators = UNION {f.operators : f \in offered(key)}
  BY DEF CatalogueIsOrderFree
<1>1. PICK n \in Nat : DOMAIN filters = 1 .. n
  BY DEF InputSound
<1>2. CatalogueSoFar(filters, catalog, n)
  BY <1>1, CatalogueFacts
<1> HIDE DEF catalog, filters
<1>3. DOMAIN catalog = {f.key : f \in {g \in Range(filters) : Wellformed(g)}}
  <2>1. \A key \in DOMAIN catalog : Offering(filters, key, n) # {}
    BY <1>2 DEF CatalogueSoFar
  <2>2. \A i \in 1 .. n : Wellformed(filters[i]) => filters[i].key \in DOMAIN catalog
    BY <1>2 DEF CatalogueSoFar
  <2>3. \A key : key \in DOMAIN catalog <=>
                     \E i \in 1 .. n : Wellformed(filters[i]) /\ filters[i].key = key
    BY <2>1, <2>2 DEF Offering
  <2> QED BY <1>1, <2>3 DEF Range
<1>4. ASSUME NEW key \in DOMAIN catalog
      PROVE  /\ catalog[key].ambiguous
                    <=> \E f, g \in offered(key) : Signature(f) # Signature(g)
             /\ ~catalog[key].ambiguous =>
                    catalog[key].operators = UNION {f.operators : f \in offered(key)}
  <2> DEFINE item == catalog[key]
             offering == Offering(filters, key, n)
             same(i) == Signature(Normalized(filters[i])) = Signature(item)
  <2>1. /\ item.ambiguous \in BOOLEAN
        /\ \E i \in offering : same(i)
        /\ item.ambiguous <=> \E i \in offering : ~same(i)
        /\ \A op : op \in item.operators <=>
               \E i \in offering : same(i) /\ op \in Normalized(filters[i]).operators
    BY <1>2 DEF CatalogueSoFar, ItemSoFar
  <2>2. offered(key) = {Normalized(filters[i]) : i \in offering}
    BY <1>1 DEF Offering
  <2> HIDE DEF item, offering
  <2>3. item.ambiguous <=> \E i, j \in offering :
            Signature(Normalized(filters[i])) # Signature(Normalized(filters[j]))
    BY <2>1
  <2>4. item.ambiguous <=> \E f, g \in offered(key) : Signature(f) # Signature(g)
    BY <2>2, <2>3
  <2>5. ASSUME ~item.ambiguous
        PROVE  item.operators = UNION {f.operators : f \in offered(key)}
    <3>1. \A op : op \in item.operators <=>
                 \E i \in offering : op \in Normalized(filters[i]).operators
      BY <2>1, <2>5
    <3>2. UNION {f.operators : f \in offered(key)}
              = UNION {Normalized(filters[i]).operators : i \in offering}
      BY <2>2
    <3> QED BY <3>1, <3>2
  <2> QED BY <2>4, <2>5 DEF item
<1> QED BY <1>3, <1>4

\* For every list of filters, in whatever order: a key is in the catalogue exactly if a
\* wellformed filter has it, is ambiguous exactly if two of these mean different things,
\* and otherwise has the operators of all of them.
THEOREM Catalogued == Spec => []CatalogueIsOrderFree
<1> QED BY InputAlways, CatalogueHolds, PTL

-----------------------------------------------------------------------------
(* The search.                                                             *)

\* The places of a sequence are in a line.
LEMMA PlacesInLine ==
    ASSUME NEW n \in Nat, NEW K \in SUBSET (1 .. n)
    PROVE  /\ Orders(K, {p \in K \X K : p[1] < p[2]})
           /\ IsFiniteSet(K) /\ Cardinality(K) \in Nat /\ Cardinality(K) <= n
<1> DEFINE R == {p \in K \X K : p[1] < p[2]}
<1>1. \A i, j \in K : <<i, j>> \in R <=> i < j
  OBVIOUS
<1>2. \A i \in K : i \in Nat
  OBVIOUS
<1> HIDE DEF R
<1>3. Orders(K, R)
  BY <1>1, <1>2 DEF Orders
<1>4. IsFiniteSet(1 .. n) /\ Cardinality(1 .. n) = n
  <2>1. IsFiniteSet(1 .. n) /\ Cardinality(1 .. n) = IF 1 > n THEN 0 ELSE n - 1 + 1
    BY FS_Interval
  <2> QED BY <2>1
<1>5. IsFiniteSet(K) /\ Cardinality(K) <= n
  BY <1>4, FS_Subset
<1>6. Cardinality(K) \in Nat
  BY <1>5, FS_CardinalityType
<1> QED BY <1>3, <1>5, <1>6 DEF R

\* Arranged elements of a sequence are a sequence of elements of it, no longer than it,
\* with nothing twice if it has nothing twice.
LEMMA ArrangedSeq ==
    ASSUME NEW S, NEW s \in Seq(S), NEW K \in SUBSET (1 .. Len(s)), NEW R, Orders(K, R)
    PROVE  /\ Arranged(s, K, R) \in Seq(S)
           /\ Len(Arranged(s, K, R)) <= Len(s)
           /\ IsInjective(s) => IsInjective(Arranged(s, K, R))
           /\ \A n \in DOMAIN Arranged(s, K, R) : \E i \in K : Arranged(s, K, R)[n] = s[i]
<1> DEFINE a == Arranged(s, K, R)
           c == Cardinality(K)
<1>1. Len(s) \in Nat /\ DOMAIN s = 1 .. Len(s) /\ \A i \in 1 .. Len(s) : s[i] \in S
  OBVIOUS
<1>2. IsFiniteSet(K) /\ c \in Nat /\ c <= Len(s)
  BY <1>1, PlacesInLine
<1>3. PICK p : Numbers(p, K, R) /\ a = [n \in 1 .. c |-> s[p[n]]]
  BY <1>2, ArrangedFacts
<1>4. /\ \A n \in 1 .. c : p[n] \in K
      /\ \A m, n \in 1 .. c : p[m] = p[n] => m = n
  BY <1>3 DEF Numbers
<1> HIDE DEF a, c
<1>5. \A n \in 1 .. c : a[n] = s[p[n]] /\ a[n] \in S
  BY <1>1, <1>3, <1>4
<1>6. a \in Seq(S) /\ Len(a) = c /\ DOMAIN a = 1 .. c
  BY <1>2, <1>3, <1>5
<1>7. ASSUME IsInjective(s) PROVE IsInjective(a)
  <2>1. \A i, j \in 1 .. Len(s) : s[i] = s[j] => i = j
    BY <1>1, <1>7 DEF IsInjective
  <2>2. ASSUME NEW m \in 1 .. c, NEW n \in 1 .. c, a[m] = a[n] PROVE m = n
    <3>1. p[m] \in 1 .. Len(s) /\ p[n] \in 1 .. Len(s)
      BY <1>4
    <3>2. s[p[m]] = s[p[n]]
      BY <1>5, <2>2
    <3> QED BY <1>4, <2>1, <3>1, <3>2
  <2> QED BY <1>6, <2>2 DEF IsInjective
<1> QED BY <1>2, <1>4, <1>5, <1>6, <1>7 DEF a

\* What is picked from a sequence.
LEMMA PickedSeq ==
    ASSUME NEW S, NEW s \in Seq(S), NEW K \in SUBSET (1 .. Len(s))
    PROVE  /\ Picked(s, K) \in Seq(S)
           /\ Len(Picked(s, K)) <= Len(s)
           /\ IsInjective(s) => IsInjective(Picked(s, K))
           /\ \A n \in DOMAIN Picked(s, K) : \E i \in K : Picked(s, K)[n] = s[i]
<1>1. Len(s) \in Nat
  OBVIOUS
<1> DEFINE R == {p \in K \X K : p[1] < p[2]}
<1>2. Orders(K, R)
  BY <1>1, PlacesInLine
<1>3. Picked(s, K) = Arranged(s, K, R)
  BY DEF Picked
<1> HIDE DEF R
<1> QED BY <1>2, <1>3, ArrangedSeq

\* So they are by a time each of them has, and where it is the same as before.
LEMMA TimesInLine ==
    ASSUME NEW K \in SUBSET Int, NEW at \in [K -> Int], NEW R,
           \A i, j \in K : <<i, j>> \in R <=> at[i] < at[j] \/ (~(at[j] < at[i]) /\ i < j)
    PROVE  Orders(K, R)
<1>1. \A i \in K : <<i, i>> \notin R
  OBVIOUS
<1>2. ASSUME NEW i \in K, NEW j \in K, i # j PROVE <<i, j>> \in R \/ <<j, i>> \in R
  BY <1>2
<1>3. ASSUME NEW i \in K, NEW j \in K, NEW k \in K, <<i, j>> \in R, <<j, k>> \in R
      PROVE  <<i, k>> \in R
  BY <1>3
<1> QED BY <1>1, <1>2, <1>3 DEF Orders

\* What is sorted by the time of creation.
LEMMA SortedSeq ==
    ASSUME NEW S, \A x \in S : x.created_at \in Int, NEW s \in Seq(S), NEW order
    PROVE  /\ Sorted(s, order) \in Seq(S)
           /\ Len(Sorted(s, order)) <= Len(s)
           /\ IsInjective(s) => IsInjective(Sorted(s, order))
           /\ \A n \in DOMAIN Sorted(s, order) : \E i \in DOMAIN s : Sorted(s, order)[n] = s[i]
<1> DEFINE K == DOMAIN s
           earlier(i, j) == IF order = "asc" THEN s[i].created_at < s[j].created_at
                            ELSE s[i].created_at > s[j].created_at
           R == {p \in K \X K : earlier(p[1], p[2]) \/ (~earlier(p[2], p[1]) /\ p[1] < p[2])}
<1>1. Len(s) \in Nat /\ K = 1 .. Len(s) /\ \A i \in K : s[i].created_at \in Int
  OBVIOUS
<1>2. Sorted(s, order) = Arranged(s, K, R)
  BY DEF Sorted
<1>3. \A i, j \in K : <<i, j>> \in R <=> earlier(i, j) \/ (~earlier(j, i) /\ i < j)
  OBVIOUS
<1> HIDE DEF R, K
<1>4. Orders(K, R)
  <2> DEFINE at == [i \in K |-> IF order = "asc" THEN s[i].created_at ELSE -s[i].created_at]
  <2>1. \A i \in K : at[i] \in Int
    BY <1>1
  <2>2. at \in [K -> Int]
    <3>1. at = [i \in K |-> at[i]]
      OBVIOUS
    <3> HIDE DEF at
    <3> QED BY <2>1, <3>1
  <2>3. ASSUME NEW i \in K, NEW j \in K PROVE earlier(i, j) <=> at[i] < at[j]
    BY <1>1
  <2> HIDE DEF at, earlier
  <2>4. \A i, j \in K : <<i, j>> \in R <=> at[i] < at[j] \/ (~(at[j] < at[i]) /\ i < j)
    BY <1>3, <2>3
  <2>5. K \in SUBSET Int
    BY <1>1
  <2> QED BY <2>2, <2>4, <2>5, TimesInLine
<1>5. K \in SUBSET (1 .. Len(s))
  BY <1>1
<1> QED BY <1>2, <1>4, <1>5, ArrangedSeq DEF K

\* The rows that a request finds, of which Search gives a page.
FoundRows(user, catalog, request, rows) ==
    LET listed == Listing(user, request, rows)
    IN  Picked(listed, {i \in DOMAIN listed : Found(catalog, request, listed[i])})

\* They are rows, none of them twice, that the query selects.
LEMMA FoundRowsFacts ==
    ASSUME NEW user, NEW catalog, NEW request
    PROVE  LET found == FoundRows(user, catalog, request, Rows)
           IN  /\ found \in Seq(Range(Rows))
               /\ Len(found) <= Len(Rows)
               /\ IsInjective(found)
               /\ \A n \in DOMAIN found : Selected(user, request.roles, request.filters, found[n])
<1> DEFINE S == Range(Rows)
           K == {i \in DOMAIN Rows : Selected(user, request.roles, request.filters, Rows[i])}
           selected == Picked(Rows, K)
           listed == Sorted(selected, request.order)
           L == {i \in DOMAIN listed : Found(catalog, request, listed[i])}
           found == Picked(listed, L)
<1>1. Rows \in Seq(S) /\ IsInjective(Rows) /\ \A x \in S : x.created_at \in Int
  BY InputsOK DEF Range
<1>2. K \in SUBSET (1 .. Len(Rows)) /\ Len(Rows) \in Nat
  BY <1>1
<1> HIDE DEF K
<1>3. /\ selected \in Seq(S) /\ Len(selected) <= Len(Rows) /\ IsInjective(selected)
      /\ \A n \in DOMAIN selected : \E i \in K : selected[n] = Rows[i]
  BY <1>1, <1>2, PickedSeq
<1> HIDE DEF selected
<1>4. /\ listed \in Seq(S) /\ Len(listed) <= Len(selected) /\ IsInjective(listed)
      /\ \A n \in DOMAIN listed : \E i \in DOMAIN selected : listed[n] = selected[i]
  BY <1>1, <1>3, SortedSeq
<1> HIDE DEF listed
<1>5. L \in SUBSET (1 .. Len(listed))
  BY <1>4
<1>6. L \subseteq DOMAIN listed
  OBVIOUS
<1> HIDE DEF L
<1>7. /\ found \in Seq(S) /\ Len(found) <= Len(listed) /\ IsInjective(found)
      /\ \A n \in DOMAIN found : \E i \in L : found[n] = listed[i]
  BY <1>4, <1>5, PickedSeq
<1>8. FoundRows(user, catalog, request, Rows) = found
  BY DEF FoundRows, Listing, K, selected, listed, L
<1> HIDE DEF found, S
<1>9. Len(found) <= Len(Rows)
  <2>1. Len(found) \in Nat /\ Len(listed) \in Nat /\ Len(selected) \in Nat /\ Len(Rows) \in Nat
    BY <1>1, <1>3, <1>4, <1>7
  <2> QED BY <1>3, <1>4, <1>7, <2>1
<1>10. ASSUME NEW n \in DOMAIN found PROVE \E i \in K : found[n] = Rows[i]
  <2>1. PICK i \in L : found[n] = listed[i]
    BY <1>7
  <2>2. PICK j \in DOMAIN selected : listed[i] = selected[j]
    BY <1>4, <1>6
  <2>3. PICK k \in K : selected[j] = Rows[k]
    BY <1>3
  <2> QED BY <2>1, <2>2, <2>3
<1>11. \A n \in DOMAIN found : Selected(user, request.roles, request.filters, found[n])
  BY <1>10 DEF K
<1> QED BY <1>7, <1>8, <1>9, <1>11 DEF S

\* Which rows are found is not up to the page.
LEMMA SearchIsAPage ==
    ASSUME NEW user, NEW catalog, NEW request, NEW r,
           r.roles = request.roles, r.filters = request.filters, r.order = request.order,
           r.criteria = request.criteria,
           r.verification_status = request.verification_status
    PROVE  Search(user, catalog, r, Rows)
               = Page(FoundRows(user, catalog, request, Rows), r.skip, r.limit)
<1>1. \A s : Found(catalog, r, s) <=> Found(catalog, request, s)
  BY DEF Found
<1> DEFINE listed == Listing(user, request, Rows)
<1>2. Listing(user, r, Rows) = listed
  BY DEF Listing
<1> HIDE DEF listed
<1>3. {i \in DOMAIN listed : Found(catalog, r, listed[i])}
          = {i \in DOMAIN listed : Found(catalog, request, listed[i])}
  BY <1>1
<1> QED BY <1>2, <1>3 DEF Search, FoundRows, listed

\* What is left of a number after the pages in it.
LEMMA Quotient ==
    ASSUME NEW l \in Nat \ {0}, NEW a \in Nat
    PROVE  a \div l \in Nat /\ a = l * (a \div l) + (a % l)
OBVIOUS

\* Multiples of a page.
LEMMA Multiples ==
    ASSUME NEW l \in Nat \ {0}
    PROVE  /\ \A k \in Nat : (l * k) % l = 0 /\ l * k \in Nat /\ l * k + l = l * (k + 1)
           /\ \A k, j \in Nat : l * j <= l * k /\ l * k - l * j < l => k = j
<1>2. ASSUME NEW k \in Nat PROVE (l * k) % l = 0 /\ l * k \in Nat /\ l * k + l = l * (k + 1)
  OBVIOUS
<1>3. ASSUME NEW k \in Nat, NEW j \in Nat, l * j <= l * k, l * k - l * j < l PROVE k = j
  <2>1. l * k - l * j = l * (k - j)
    OBVIOUS
  <2>2. CASE k - j >= 1
    <3>1. l * (k - j) >= l
      BY <2>2
    <3> QED BY <1>3, <2>1, <3>1
  <2>3. CASE j - k >= 1
    <3>1. l * (j - k) >= l /\ l * j - l * k = l * (j - k)
      BY <2>3
    <3> QED BY <1>2, <1>3, <3>1
  <2> QED BY <2>2, <2>3
<1> QED BY <1>2, <1>3

\* The first n elements, or all of them.
UpTo(s, n) == SubSeq(s, 1, IF n < Len(s) THEN n ELSE Len(s))

\* They are a sequence, the first page, and at last all of them.
LEMMA UpToSeq ==
    ASSUME NEW S, NEW s \in Seq(S), NEW n \in Nat
    PROVE  /\ UpTo(s, n) \in Seq(S)
           /\ Len(s) <= n => UpTo(s, n) = s
<1> DEFINE upto == IF n < Len(s) THEN n ELSE Len(s)
<1>1. Len(s) \in Nat /\ \A i \in 1 .. Len(s) : s[i] \in S
  OBVIOUS
<1>2. upto \in Nat /\ \A i \in 1 .. upto : s[i] \in S
  BY <1>1
<1>3. SubSeq(s, 1, upto) \in Seq(S)
  <2> HIDE DEF upto
  <2> QED BY <1>2, SubSeqProperties
<1>4. ASSUME Len(s) <= n PROVE UpTo(s, n) = s
  <2>1. UpTo(s, n) = SubSeq(s, 1, Len(s))
    BY <1>1, <1>4 DEF UpTo
  <2> QED BY <2>1, SubSeqFull
<1> QED BY <1>3, <1>4 DEF UpTo

\* With those of one more page they are those up to its end.
LEMMA OnePageMore ==
    ASSUME NEW S, NEW s \in Seq(S), NEW n \in Nat, NEW l \in Nat \ {0}
    PROVE  UpTo(s, n) \o Page(s, n, l) = UpTo(s, n + l)
<1> DEFINE c == Len(s)
           last == IF n + l < c THEN n + l ELSE c
           upto == IF n < c THEN n ELSE c
<1>1. c \in Nat /\ \A i \in 1 .. c : s[i] \in S
  OBVIOUS
<1>2. last \in Nat /\ upto \in Nat /\ last <= c /\ upto <= c
  BY <1>1
<1>3. SubSeq(s, 1, upto) \in Seq(S)
  BY UpToSeq DEF UpTo
<1>4. SubSeq(s, 1, upto) \o SubSeq(s, n + 1, last) = SubSeq(s, 1, last)
  <2>1. CASE n < c
    <3>1. upto = n /\ 1 \in 1 .. Len(s) + 1 /\ n \in 1 - 1 .. Len(s) /\ last \in n .. Len(s)
      BY <1>1, <2>1
    <3> HIDE DEF upto, last
    <3> QED BY <3>1, ConcatAdjacentSubSeq
  <2>2. CASE ~(n < c)
    <3>1. upto = c /\ last = c /\ last < n + 1
      BY <1>1, <2>2
    <3> HIDE DEF upto, last
    <3>2. SubSeq(s, n + 1, last) = <<>>
      BY <1>2, <3>1, SubSeqEmpty
    <3> QED BY <1>3, <3>1, <3>2, ConcatEmptySeq
  <2> QED BY <2>1, <2>2
<1> QED BY <1>4 DEF Page, UpTo

\* Page by page everything is read.
LEMMA PagesFlatten ==
    ASSUME NEW S, NEW s \in Seq(S), NEW l \in Nat \ {0}, NEW n \in Nat, Len(s) <= n,
           NEW pages, pages = [i \in 1 .. n |->
                                  IF (i - 1) % l = 0 THEN Page(s, i - 1, l) ELSE <<>>]
    PROVE  FlattenSeq(pages) = s
<1>1. Len(s) \in Nat /\ Len(pages) = n
  OBVIOUS
<1>2. CASE n = 0
  <2>1. s = <<>>
    BY <1>1, <1>2
  <2>2. FlattenSeq(pages) = pages
    BY <1>1, <1>2 DEF FlattenSeq
  <2>3. pages = <<>>
    BY <1>1, <1>2
  <2> QED BY <2>1, <2>2, <2>3
<1>3. CASE n # 0
  <2>0. n \in Nat \ {0}
    BY <1>3
  <2>1. PICK f : Flattening(pages, f, n) /\ FlattenSeq(pages) = f[n]
    BY <1>1, <2>0, FlattenIs, Zenon
  <2>2. \A i \in 1 .. n : f[i] = IF i = 1 THEN pages[i] ELSE f[i - 1] \o pages[i]
    BY <2>1 DEF Flattening
  <2>3. \A i \in 1 .. n : pages[i] = IF (i - 1) % l = 0 THEN Page(s, i - 1, l) ELSE <<>>
    OBVIOUS
  <2> DEFINE Good(i) == \E k \in Nat : i <= l * k /\ l * k - i < l /\ f[i] = UpTo(s, l * k)
             Bad == {i \in Nat : i \in 1 .. n /\ ~Good(i)}
  <2> HIDE DEF Good
  <2>4. ASSUME Bad # {} PROVE FALSE
    <3>1. PICK i \in Bad : \A j \in Bad : i <= j
      BY <2>4, LeastNumber
    <3>2. i \in Nat /\ i \in 1 .. n /\ ~Good(i)
      OBVIOUS
    <3>3. CASE i = 1
      <4>1. (1 - 1) % l = 0
        OBVIOUS
      <4>2. f[1] = UpTo(s, l)
        <5>1. f[1] = pages[1]
          BY <2>2, <3>2, <3>3
        <5>2. pages[1] = Page(s, 1 - 1, l)
          <6>1. 1 \in 1 .. n
            BY <3>2, <3>3
          <6> QED BY <2>3, <4>1, <6>1
        <5>3. 1 - 1 = 0 /\ 0 + 1 = 1 /\ 0 + l = l
          OBVIOUS
        <5>4. Page(s, 1 - 1, l) = UpTo(s, l)
          BY <5>3 DEF Page, UpTo
        <5> QED BY <5>1, <5>2, <5>4
      <4>3. l * 1 = l
        OBVIOUS
      <4>4. 1 \in Nat /\ i <= l * 1 /\ l * 1 - i < l /\ f[i] = UpTo(s, l * 1)
        BY <3>3, <4>2, <4>3
      <4>5. Good(i)
        BY <4>4 DEF Good
      <4> QED BY <3>2, <4>5
    <3>4. CASE i # 1
      <4>1. i - 1 \in Nat /\ i - 1 \in 1 .. n /\ i - 1 \notin Bad
        BY <3>1, <3>2, <3>4
      <4>2. PICK k \in Nat : i - 1 <= l * k /\ l * k - (i - 1) < l /\ f[i - 1] = UpTo(s, l * k)
        BY <4>1 DEF Good
      <4>3. f[i] = f[i - 1] \o pages[i]
        BY <2>2, <3>2, <3>4
      <4>4. l * k \in Nat /\ (l * k) % l = 0 /\ l * k + l = l * (k + 1) /\ k + 1 \in Nat
        BY Multiples
      <4>5. CASE (i - 1) % l = 0
        <5> DEFINE q == (i - 1) \div l
        <5>1. q \in Nat /\ i - 1 = l * q + ((i - 1) % l)
          BY <4>1, Quotient
        <5>2. i - 1 = l * q
          <6>1. l * q \in Nat
            BY <5>1, Multiples
          <6> QED BY <4>5, <5>1, <6>1
        <5> HIDE DEF q
        <5>3. l * q <= l * k /\ l * k - l * q < l
          BY <4>2, <5>2
        <5>4. k = q
          BY <5>1, <5>3, Multiples
        <5>5. i - 1 = l * k
          BY <5>2, <5>4
        <5>6. pages[i] = Page(s, l * k, l)
          BY <2>3, <3>2, <4>5, <5>5
        <5>7. PICK m \in Nat : m = l * k
          BY <4>4
        <5>71. m + l = l * (k + 1) /\ i - 1 = m
          BY <4>4, <5>5, <5>7
        <5>8. f[i] = UpTo(s, m + l)
          <6>1. f[i - 1] = UpTo(s, m) /\ pages[i] = Page(s, m, l)
            BY <4>2, <5>6, <5>7
          <6>2. UpTo(s, m) \o Page(s, m, l) = UpTo(s, m + l)
            BY OnePageMore
          <6> QED BY <4>3, <6>1, <6>2
        <5>9. i <= m + l /\ m + l - i < l
          BY <3>2, <5>71
        <5>10. /\ k + 1 \in Nat /\ i <= l * (k + 1) /\ l * (k + 1) - i < l
               /\ f[i] = UpTo(s, l * (k + 1))
          BY <5>71, <5>8, <5>9
        <5>11. Good(i)
          BY <5>10 DEF Good
        <5> QED BY <3>2, <5>11
      <4>6. CASE (i - 1) % l # 0
        <5> DEFINE m == l * k
        <5>1. m \in Nat /\ m # i - 1 /\ m = l * k
          BY <4>4, <4>6
        <5> HIDE DEF m
        <5>2. pages[i] = <<>>
          BY <2>3, <3>2, <4>6
        <5>3. UpTo(s, m) \in Seq(S)
          BY <5>1, UpToSeq
        <5>4. f[i] = UpTo(s, m)
          BY <4>2, <4>3, <5>1, <5>2, <5>3, ConcatEmptySeq
        <5>5. i <= m /\ m - i < l
          BY <3>2, <4>2, <5>1
        <5>6. Good(i)
          BY <5>1, <5>4, <5>5 DEF Good
        <5> QED BY <3>2, <5>6
      <4> QED BY <4>5, <4>6
    <3> QED BY <3>3, <3>4
  <2>5. n \in 1 .. n /\ n \notin Bad
    BY <2>0, <2>4
  <2>6. PICK k \in Nat : n <= l * k /\ f[n] = UpTo(s, l * k)
    BY <2>5 DEF Good
  <2> DEFINE m == l * k
  <2>7. m \in Nat /\ n <= m /\ f[n] = UpTo(s, m)
    BY <2>6, Multiples
  <2> HIDE DEF m
  <2>8. Len(s) <= m
    BY <1>1, <2>7
  <2> QED BY <2>1, <2>7, <2>8, UpToSeq
<1> QED BY <1>2, <1>3

\* The pages of a search join.
LEMMA PagesHold == InputSound => PagesJoin
<1> DEFINE request == input.request
           catalog == SearchConfig(<<request.filters_offered>>)
           page(n) == Search(request.user, catalog, [request EXCEPT !.skip = n], Rows)
           whole == Search(request.user, catalog,
                           [request EXCEPT !.skip = 0, !.limit = Len(Rows)], Rows)
           pages == [n \in 1 .. Len(Rows) |->
                        IF (n - 1) % request.limit = 0 THEN page(n - 1) ELSE <<>>]
           found == FoundRows(request.user, catalog, request, Rows)
           S == Range(Rows)
           l == request.limit
<1> SUFFICES ASSUME InputSound, input.of = "search"
             PROVE  /\ FlattenSeq(pages) = whole
                    /\ \A n \in 1 .. Len(pages) - 1 :
                           pages[n] # <<>> /\ Len(pages[n]) < request.limit =>
                               Len(whole) <= n - 1 + request.limit
                    /\ IsInjective(whole)
                    /\ MakerOnly(request.roles) =>
                           \A s \in Range(whole) :
                               MayAccess(request.user, request.roles, FALSE, s)
  BY DEF PagesJoin
<1>1. {"skip", "limit"} \subseteq DOMAIN request /\ l \in Nat \ {0}
  BY InputsOK DEF InputSound
<1>2. Len(Rows) \in Nat
  BY InputsOK
<1> HIDE DEF catalog
<1>3. /\ found \in Seq(S) /\ Len(found) <= Len(Rows) /\ IsInjective(found)
      /\ \A n \in DOMAIN found : Selected(request.user, request.roles, request.filters, found[n])
  BY FoundRowsFacts
<1>4. ASSUME NEW n PROVE page(n) = Page(found, n, l)
  <2> DEFINE r == [request EXCEPT !.skip = n]
  <2>1. /\ r.skip = n /\ r.limit = l
        /\ r.roles = request.roles /\ r.filters = request.filters /\ r.order = request.order
        /\ r.criteria = request.criteria
        /\ r.verification_status = request.verification_status
    BY <1>1
  <2> HIDE DEF r
  <2>2. Search(request.user, catalog, r, Rows) = Page(found, r.skip, r.limit)
    BY <2>1, SearchIsAPage
  <2> QED BY <2>1, <2>2 DEF r
<1>5. whole = found
  <2>1. whole = Page(found, 0, Len(Rows))
    <3> DEFINE r == [request EXCEPT !.skip = 0, !.limit = Len(Rows)]
    <3>1. /\ r.skip = 0 /\ r.limit = Len(Rows)
          /\ r.roles = request.roles /\ r.filters = request.filters /\ r.order = request.order
          /\ r.criteria = request.criteria
          /\ r.verification_status = request.verification_status
      BY <1>1
    <3> HIDE DEF r
    <3>2. Search(request.user, catalog, r, Rows) = Page(found, r.skip, r.limit)
      BY <3>1, SearchIsAPage
    <3> QED BY <3>1, <3>2 DEF r
  <2> HIDE DEF whole, found, S
  <2>2. Len(found) \in Nat
    BY <1>3
  <2>3. Page(found, 0, Len(Rows)) = SubSeq(found, 1, Len(found))
    BY <1>2, <1>3, <2>2 DEF Page
  <2> QED BY <1>3, <2>1, <2>3, SubSeqFull
<1>6. pages = [n \in 1 .. Len(Rows) |->
                  IF (n - 1) % l = 0 THEN Page(found, n - 1, l) ELSE <<>>]
  BY <1>4
<1> HIDE DEF page, whole, pages, found, S, l
<1>7. FlattenSeq(pages) = whole
  BY <1>1, <1>2, <1>3, <1>5, <1>6, PagesFlatten
<1>8. ASSUME NEW n \in 1 .. Len(pages) - 1, pages[n] # <<>>, Len(pages[n]) < l
      PROVE  Len(whole) <= n - 1 + l
  <2>1. Len(pages) = Len(Rows)
    BY <1>2, <1>6
  <2>2. n \in 1 .. Len(Rows)
    BY <1>2, <2>1
  <2>3. pages[n] = Page(found, n - 1, l)
    BY <1>6, <1>8, <2>2
  <2> DEFINE last == IF n - 1 + l < Len(found) THEN n - 1 + l ELSE Len(found)
  <2>4. Len(found) \in Nat /\ n \in Nat /\ n >= 1 /\ last \in Int /\ last <= Len(found)
    BY <1>1, <1>2, <1>3, <2>2
  <2>5. pages[n] = SubSeq(found, n, last)
    BY <2>3, <2>4 DEF Page
  <2>6. Len(SubSeq(found, n, last)) = IF n <= last THEN last - n + 1 ELSE 0
    <3>1. \A i \in n .. last : found[i] \in S
      BY <1>3, <2>4
    <3> HIDE DEF last
    <3> QED BY <2>4, <3>1, SubSeqProperties
  <2>7. SUFFICES ASSUME ~(Len(found) <= n - 1 + l) PROVE FALSE
    BY <1>5
  <2>8. last = n - 1 + l
    BY <1>1, <2>4, <2>7
  <2> QED BY <1>1, <1>8, <2>4, <2>5, <2>6, <2>8
<1>9. ASSUME MakerOnly(request.roles), NEW s \in Range(whole)
      PROVE  MayAccess(request.user, request.roles, FALSE, s)
  <2>1. PICK n \in DOMAIN found : s = found[n]
    BY <1>5 DEF Range
  <2>2. Selected(request.user, request.roles, request.filters, s)
    BY <1>3, <2>1
  <2> QED BY <1>9, <2>2 DEF Selected, MayAccess
<1> QED BY <1>3, <1>5, <1>7, <1>8, <1>9 DEF l

\* For all rows, every request and whatever is asked for: the pages of a search put
\* together are the whole of it, a page that is not full is the last, nothing is found
\* twice, and who is a maker only finds what is the maker's own.
THEOREM Paged == Spec => []PagesJoin
<1> QED BY InputAlways, PagesHold, PTL

-----------------------------------------------------------------------------
(* The questions of a version.                                             *)

\* For every key there is a question that stands for it.
LEMMA QuestionMapFacts ==
    ASSUME NEW version, NEW n \in Nat, DOMAIN version = 1 .. n
    PROVE  /\ DOMAIN QuestionMap(version) = Keys(version)
           /\ \A key \in Keys(version) :
                  /\ QuestionMap(version)[key].key = key
                  /\ \E i \in DOMAIN version : QuestionMap(version)[key] = version[i]
<1>1. DOMAIN QuestionMap(version) = Keys(version)
  BY DEF QuestionMap
<1>2. ASSUME NEW key \in Keys(version)
      PROVE  /\ QuestionMap(version)[key].key = key
             /\ \E i \in DOMAIN version : QuestionMap(version)[key] = version[i]
  <2> DEFINE having == {i \in 1 .. n : version[i].key = key}
             T == {n - i : i \in having}
  <2>1. having # {}
    BY DEF Keys
  <2>2. \A i \in having : i \in Nat /\ n - i \in Nat
    OBVIOUS
  <2>3. T \in SUBSET Nat /\ T # {}
    BY <2>1, <2>2
  <2>4. PICK t \in T : \A u \in T : t <= u
    BY <2>3, LeastNumber
  <2>5. PICK i \in having : t = n - i
    OBVIOUS
  <2>6. \A j \in having : j <= i
    <3> TAKE j \in having
    <3>1. n - j \in T
      OBVIOUS
    <3>2. n - i <= n - j
      BY <2>4, <2>5, <3>1
    <3>3. i \in Nat /\ j \in Nat
      BY <2>2
    <3> HIDE DEF having, T
    <3> QED BY <3>2, <3>3
  <2>7. i \in DOMAIN version /\ version[i].key = key /\ StandsFor(version, i)
    BY <2>6 DEF StandsFor
  <2> DEFINE c == CHOOSE k \in DOMAIN version : version[k].key = key /\ StandsFor(version, k)
  <2>8. c \in DOMAIN version /\ version[c].key = key
    BY <2>7
  <2>9. QuestionMap(version)[key] = version[c]
    BY DEF QuestionMap
  <2> HIDE DEF c
  <2> QED BY <2>8, <2>9
<1> QED BY <1>1, <1>2

\* p numbers the places in K from the first to the last.
Places(p, K) ==
    /\ Cardinality(K) \in Nat
    /\ \A k \in 1 .. Cardinality(K) : p[k] \in K
    /\ \A i \in K : \E k \in 1 .. Cardinality(K) : p[k] = i
    /\ \A j, k \in 1 .. Cardinality(K) : j < k => p[j] < p[k]
    /\ \A j, k \in 1 .. Cardinality(K) : p[j] = p[k] => j = k

\* list has the elements of s at those places.
Takes(list, s, K, p) ==
    /\ Places(p, K)
    /\ DOMAIN list = 1 .. Cardinality(K) /\ Len(list) = Cardinality(K)
    /\ \A k \in 1 .. Cardinality(K) : list[k] = s[p[k]]

\* What is picked are the elements at the places.
LEMMA PickedPlaces ==
    ASSUME NEW s, NEW K, K \subseteq Nat, IsFiniteSet(K)
    PROVE  \E p : Takes(Picked(s, K), s, K, p)
<1> DEFINE R == {q \in K \X K : q[1] < q[2]}
<1>0. Cardinality(K) \in Nat
  BY FS_CardinalityType
<1>1. IsFiniteSet(K) /\ Orders(K, R)
  <2>1. \A i, j \in K : <<i, j>> \in R <=> i < j
    OBVIOUS
  <2>2. \A i \in K : i \in Nat
    OBVIOUS
  <2> HIDE DEF R
  <2> QED BY <2>1, <2>2 DEF Orders
<1>2. \A i, j \in K : <<i, j>> \in R => i < j
  OBVIOUS
<1>3. Picked(s, K) = Arranged(s, K, R)
  BY DEF Picked
<1> HIDE DEF R
<1>4. \E p : /\ Numbers(p, K, R)
             /\ Arranged(s, K, R) = [n \in 1 .. Cardinality(K) |-> s[p[n]]]
  BY <1>1, ArrangedFacts
<1>5. PICK p : /\ Numbers(p, K, R)
               /\ Arranged(s, K, R) = [n \in 1 .. Cardinality(K) |-> s[p[n]]]
  BY <1>4
<1>6. Places(p, K)
  BY <1>0, <1>2, <1>5 DEF Places, Numbers
<1>7. /\ DOMAIN Picked(s, K) = 1 .. Cardinality(K)
      /\ \A k \in 1 .. Cardinality(K) : Picked(s, K)[k] = s[p[k]]
  BY <1>3, <1>5
<1>8. Len(Picked(s, K)) = Cardinality(K)
  BY <1>0, <1>3, <1>5
<1>9. Takes(Picked(s, K), s, K, p)
  BY <1>6, <1>7, <1>8 DEF Takes
<1> QED BY <1>9

\* The list of questions has one for every key.
Lists(list, version) ==
    /\ DOMAIN list = 1 .. Len(list) /\ Len(list) \in Nat
    /\ \A i \in DOMAIN list :
           list[i].key \in Keys(version) /\ list[i] = QuestionMap(version)[list[i].key]
    /\ \A key \in Keys(version) : \E i \in DOMAIN list : list[i] = QuestionMap(version)[key]
    /\ \A i, j \in DOMAIN list : list[i].key = list[j].key => i = j

\* The dictionary's list is such a list.
LEMMA ListedFacts ==
    ASSUME NEW version, NEW n \in Nat, DOMAIN version = 1 .. n
    PROVE  Lists(Listed(version), version)
<1> DEFINE firsts == {i \in DOMAIN version : \A j \in 1 .. i - 1 : version[j].key # version[i].key}
           all == [i \in DOMAIN version |-> QuestionMap(version)[version[i].key]]
           c == Cardinality(firsts)
           list == Listed(version)
<1>1. firsts \in SUBSET (1 .. n)
  OBVIOUS
<1>2. list = Picked(all, firsts)
  BY DEF Listed
<1>3. \A i \in firsts : i \in 1 .. n /\ \A j \in firsts : version[i].key = version[j].key => i = j
  <2> TAKE i \in firsts
  <2>1. ASSUME NEW j \in firsts, version[i].key = version[j].key PROVE i = j
    <3>1. ~(i < j) /\ ~(j < i)
      BY <2>1
    <3> QED BY <3>1
  <2> QED BY <2>1
<1>4. ASSUME NEW key \in Keys(version) PROVE \E i \in firsts : version[i].key = key
  <2> DEFINE having == {i \in 1 .. n : version[i].key = key}
  <2>1. having \in SUBSET Nat /\ having # {}
    BY DEF Keys
  <2>2. PICK i \in having : \A j \in having : i <= j
    BY <2>1, LeastNumber
  <2>3. ASSUME NEW j \in 1 .. i - 1 PROVE version[j].key # version[i].key
    <3>1. j \in 1 .. n /\ ~(i <= j)
      OBVIOUS
    <3> QED BY <2>2, <3>1
  <2> QED BY <2>3
<1> HIDE DEF firsts, all
<1>5. \E p : Takes(Picked(all, firsts), all, firsts, p)
  <2>1. IsFiniteSet(firsts)
    <3>1. IsFiniteSet(1 .. n)
      BY FS_Interval
    <3> QED BY <1>1, <3>1, FS_Subset
  <2>2. firsts \subseteq Nat
    BY <1>1
  <2> QED BY <2>1, <2>2, PickedPlaces, Zenon
<1>6. PICK p : Takes(list, all, firsts, p)
  BY <1>2, <1>5
<1> HIDE DEF list, c
<1>7. /\ c \in Nat
      /\ \A k \in 1 .. c : p[k] \in firsts
      /\ \A i \in firsts : \E k \in 1 .. c : p[k] = i
      /\ \A j, k \in 1 .. c : p[j] = p[k] => j = k
  BY <1>6 DEF Takes, Places, c
<1>8. /\ DOMAIN list = 1 .. c /\ Len(list) = c
      /\ \A k \in 1 .. c : list[k] = all[p[k]]
  BY <1>6 DEF Takes, c
<1>9. ASSUME NEW k \in 1 .. c
      PROVE  /\ version[p[k]].key \in Keys(version)
             /\ list[k] = QuestionMap(version)[version[p[k]].key]
             /\ list[k].key = version[p[k]].key
  <2>1. p[k] \in DOMAIN version
    BY <1>3, <1>7
  <2>2. version[p[k]].key \in Keys(version)
    BY <2>1 DEF Keys
  <2>3. list[k] = QuestionMap(version)[version[p[k]].key]
    BY <1>8, <2>1 DEF all
  <2> QED BY <2>2, <2>3, QuestionMapFacts
<1>10. ASSUME NEW key \in Keys(version)
       PROVE  \E k \in DOMAIN list : list[k] = QuestionMap(version)[key]
  <2>1. PICK i \in firsts : version[i].key = key
    BY <1>4
  <2>2. PICK k \in 1 .. c : p[k] = i
    BY <1>7
  <2> QED BY <1>8, <1>9, <2>1, <2>2
<1>11. ASSUME NEW i \in DOMAIN list, NEW j \in DOMAIN list, list[i].key = list[j].key
       PROVE  i = j
  <2>1. version[p[i]].key = version[p[j]].key
    BY <1>8, <1>9, <1>11
  <2>2. p[i] = p[j]
    BY <1>3, <1>7, <1>8, <2>1
  <2> QED BY <1>7, <1>8, <2>2
<1>12. Lists(list, version)
  BY <1>7, <1>8, <1>9, <1>10, <1>11 DEF Lists
<1> QED BY <1>12 DEF list

-----------------------------------------------------------------------------
(* The hints of a version.                                                 *)

\* One more question with a hint, or without.
Hinted(renamed, q) ==
    IF q.renamed_from = None THEN renamed ELSE Put(renamed, q.renamed_from, q.key)

\* What the hints of the questions at some places come to.
Renaming(questions, g, n) ==
    g = [s \in SUBSET (1 .. n) |->
            IF s = {} THEN <<>> ELSE Hinted(g[s \ {Max(s)}], questions[Max(s)])]

\* There is a function of that recursion.
LEMMA RenamingExists ==
    ASSUME NEW questions, NEW n \in Nat
    PROVE  \E g : Renaming(questions, g, n)
<1> DEFINE Bad == {m \in Nat : ~\E g : Renaming(questions, g, m)}
<1> SUFFICES ASSUME Bad # {} PROVE FALSE
  OBVIOUS
<1>1. PICK m \in Bad : \A j \in Bad : m <= j
  BY LeastNumber
<1>2. m \in Nat /\ ~\E g : Renaming(questions, g, m)
  OBVIOUS
<1>3. CASE m = 0
  <2> DEFINE g == [s \in SUBSET (1 .. 0) |-> <<>>]
  <2>1. \A s \in SUBSET (1 .. 0) : s = {}
    OBVIOUS
  <2>2. Renaming(questions, g, 0)
    <3> DEFINE h == [s \in SUBSET (1 .. 0) |->
                       IF s = {} THEN <<>>
                       ELSE Hinted(g[s \ {Max(s)}], questions[Max(s)])]
    <3>1. g = h
      BY <2>1
    <3> QED BY <3>1 DEF Renaming
  <2> QED BY <1>2, <1>3, <2>2
<1>4. CASE m # 0
  <2>1. m - 1 \in Nat /\ m - 1 \notin Bad
    BY <1>1, <1>4
  <2>2. PICK f : Renaming(questions, f, m - 1)
    BY <2>1
  <2> DEFINE g == [s \in SUBSET (1 .. m) |->
                     IF s = {} THEN <<>>
                     ELSE Hinted(f[s \ {Max(s)}], questions[Max(s)])]
             h == [s \in SUBSET (1 .. m) |->
                     IF s = {} THEN <<>>
                     ELSE Hinted(g[s \ {Max(s)}], questions[Max(s)])]
  <2>3. \A s \in SUBSET (1 .. m - 1) : f[s] = g[s]
    <3> TAKE s \in SUBSET (1 .. m - 1)
    <3>1. s \in SUBSET (1 .. m)
      BY <2>1
    <3>2. f[s] = IF s = {} THEN <<>>
                 ELSE Hinted(f[s \ {Max(s)}], questions[Max(s)])
      BY <2>2 DEF Renaming
    <3> QED BY <3>1, <3>2
  <2>4. ASSUME NEW s \in SUBSET (1 .. m) PROVE g[s] = h[s]
    <3>1. CASE s = {}
      BY <3>1
    <3>2. CASE s # {}
      <4>1. s \ {Max(s)} \in SUBSET (1 .. m - 1)
        <5>1. Max(s) \in 1 .. m /\ s \ {Max(s)} \in SUBSET (1 .. Max(s) - 1)
          BY <1>2, <3>2, MaxPlace
        <5>2. 1 .. Max(s) - 1 \subseteq 1 .. m - 1
          BY <1>2, <5>1
        <5> QED BY <5>1, <5>2
      <4>2. f[s \ {Max(s)}] = g[s \ {Max(s)}]
        BY <2>3, <4>1
      <4> HIDE DEF g
      <4>3. g[s] = Hinted(f[s \ {Max(s)}], questions[Max(s)])
        BY <3>2 DEF g
      <4> QED BY <3>2, <4>2, <4>3
    <3> QED BY <3>1, <3>2
  <2>5. g = h
    BY <2>4
  <2>6. Renaming(questions, g, m)
    BY <2>5 DEF Renaming
  <2> QED BY <1>2, <2>6
<1> QED BY <1>3, <1>4

\* RenamedFrom is the value for all places of such a function.
LEMMA RenamedFromIs ==
    ASSUME NEW version, NEW n \in Nat, DOMAIN Listed(version) = 1 .. n
    PROVE  \E g : Renaming(Listed(version), g, n) /\ RenamedFrom(version) = g[1 .. n]
<1> DEFINE questions == Listed(version)
           iter[s \in SUBSET DOMAIN questions] ==
               IF s = {} THEN <<>> ELSE Hinted(iter[s \ {Max(s)}], questions[Max(s)])
<1>1. RenamedFrom(version) = iter[DOMAIN questions]
  BY DEF RenamedFrom, FoldLeft, MapThenFoldSet, Hinted
<1> HIDE DEF questions
<1>2. DOMAIN questions = 1 .. n
  BY DEF questions
<1>3. \E g : g = [s \in SUBSET DOMAIN questions |->
                    IF s = {} THEN <<>> ELSE Hinted(g[s \ {Max(s)}], questions[Max(s)])]
  <2> HIDE DEF iter
  <2>1. PICK g : Renaming(questions, g, n)
    BY RenamingExists
  <2>2. g = [s \in SUBSET (1 .. n) |->
               IF s = {} THEN <<>> ELSE Hinted(g[s \ {Max(s)}], questions[Max(s)])]
    BY <2>1 DEF Renaming
  <2>3. SUBSET DOMAIN questions = SUBSET (1 .. n)
    BY <1>2
  <2>4. g = [s \in SUBSET DOMAIN questions |->
               IF s = {} THEN <<>> ELSE Hinted(g[s \ {Max(s)}], questions[Max(s)])]
    BY <2>2, <2>3, Zenon
  <2> QED BY <2>4
<1>4. iter = [s \in SUBSET DOMAIN questions |->
                IF s = {} THEN <<>> ELSE Hinted(iter[s \ {Max(s)}], questions[Max(s)])]
  BY <1>3
<1> HIDE DEF iter
<1>5. Renaming(questions, iter, n)
  <2>1. SUBSET DOMAIN questions = SUBSET (1 .. n)
    BY <1>2
  <2>2. iter = [s \in SUBSET (1 .. n) |->
                  IF s = {} THEN <<>> ELSE Hinted(iter[s \ {Max(s)}], questions[Max(s)])]
    BY <1>4, <2>1, Zenon
  <2> QED BY <2>2 DEF Renaming
<1> QED BY <1>1, <1>2, <1>5 DEF questions

\* The keys that the first m questions rename, and what to, if no two rename the same.
RenamedSoFar(questions, renamed, m) ==
    /\ DOMAIN renamed = {questions[i].renamed_from : i \in
                            {j \in 1 .. m : questions[j].renamed_from # None}}
    /\ \A i \in 1 .. m : questions[i].renamed_from # None =>
           renamed[questions[i].renamed_from] = questions[i].key

\* One more question keeps that.
LEMMA HintedFacts ==
    ASSUME NEW questions, NEW m \in Nat \ {0}, NEW renamed,
           RenamedSoFar(questions, renamed, m - 1),
           \A i, j \in 1 .. m : questions[i].renamed_from # None
                /\ questions[i].renamed_from = questions[j].renamed_from => i = j
    PROVE  RenamedSoFar(questions, Hinted(renamed, questions[m]), m)
<1> DEFINE from == questions[m].renamed_from
           next == Hinted(renamed, questions[m])
<1>1. 1 .. m = (1 .. m - 1) \cup {m} /\ m \in 1 .. m /\ m \notin 1 .. m - 1
  OBVIOUS
<1>2. CASE from = None
  <2>1. next = renamed
    BY <1>2 DEF Hinted
  <2> HIDE DEF next
  <2>2. RenamedSoFar(questions, next, m)
    BY <1>1, <1>2, <2>1 DEF RenamedSoFar
  <2> QED BY <2>2 DEF next
<1>3. CASE from # None
  <2>1. next = Put(renamed, from, questions[m].key)
    BY <1>3 DEF Hinted
  <2> HIDE DEF next
  <2>2. DOMAIN next = DOMAIN renamed \cup {from}
    BY <2>1 DEF Put
  <2>3. next[from] = questions[m].key
    BY <2>1 DEF Put
  <2>4. \A x \in DOMAIN renamed : x # from => next[x] = renamed[x]
    BY <2>1 DEF Put
  <2>5. DOMAIN next = {questions[i].renamed_from : i \in
                          {j \in 1 .. m : questions[j].renamed_from # None}}
    BY <1>1, <1>3, <2>2 DEF RenamedSoFar
  <2>6. ASSUME NEW i \in 1 .. m, questions[i].renamed_from # None
        PROVE  next[questions[i].renamed_from] = questions[i].key
    <3>1. CASE i = m
      BY <2>3, <3>1
    <3>2. CASE i # m
      <4>1. i \in 1 .. m - 1 /\ questions[i].renamed_from # from
        BY <1>1, <2>6, <3>2
      <4>2. questions[i].renamed_from \in DOMAIN renamed
        BY <2>6, <4>1 DEF RenamedSoFar
      <4>3. renamed[questions[i].renamed_from] = questions[i].key
        BY <2>6, <4>1 DEF RenamedSoFar
      <4> QED BY <2>4, <4>1, <4>2, <4>3
    <3> QED BY <3>1, <3>2
  <2>7. RenamedSoFar(questions, next, m)
    BY <2>5, <2>6 DEF RenamedSoFar
  <2> QED BY <2>7 DEF next
<1> QED BY <1>2, <1>3

\* So those are the keys that a version renames.
LEMMA RenamedFacts ==
    ASSUME NEW version, NEW n \in Nat, DOMAIN Listed(version) = 1 .. n,
           \A i, j \in 1 .. n : Listed(version)[i].renamed_from # None
                /\ Listed(version)[i].renamed_from = Listed(version)[j].renamed_from => i = j
    PROVE  RenamedSoFar(Listed(version), RenamedFrom(version), n)
<1> DEFINE questions == Listed(version)
<1>1. PICK g : Renaming(questions, g, n) /\ RenamedFrom(version) = g[1 .. n]
  BY RenamedFromIs
<1>2. \A s \in SUBSET (1 .. n) :
          g[s] = IF s = {} THEN <<>> ELSE Hinted(g[s \ {Max(s)}], questions[Max(s)])
  BY <1>1 DEF Renaming
<1> HIDE DEF questions
<1> DEFINE Bad == {m \in Nat : m <= n /\ ~RenamedSoFar(questions, g[1 .. m], m)}
<1>3. ASSUME Bad # {} PROVE FALSE
  <2>1. PICK m \in Bad : \A j \in Bad : m <= j
    BY <1>3, LeastNumber
  <2>2. m \in Nat /\ m <= n /\ ~RenamedSoFar(questions, g[1 .. m], m)
    OBVIOUS
  <2>3. 1 .. m \in SUBSET (1 .. n)
    BY <2>2
  <2>4. CASE m = 0
    <3>1. 1 .. m = {}
      BY <2>4
    <3>2. g[1 .. m] = <<>>
      BY <1>2, <2>3, <3>1
    <3>3. RenamedSoFar(questions, <<>>, m)
      BY <3>1 DEF RenamedSoFar
    <3> QED BY <2>2, <3>2, <3>3
  <2>5. CASE m # 0
    <3>1. m - 1 \in Nat /\ m - 1 <= n /\ m \in Nat \ {0} /\ m - 1 \notin Bad
      BY <2>1, <2>2, <2>5
    <3>2. RenamedSoFar(questions, g[1 .. m - 1], m - 1)
      BY <3>1
    <3>3. Max(1 .. m) = m /\ (1 .. m) \ {m} = 1 .. m - 1 /\ 1 .. m # {}
      BY <2>2, <2>5, MaxPrefix
    <3>4. g[1 .. m] = Hinted(g[1 .. m - 1], questions[m])
      BY <1>2, <2>3, <3>3
    <3>5. \A i, j \in 1 .. m : questions[i].renamed_from # None
              /\ questions[i].renamed_from = questions[j].renamed_from => i = j
      BY <2>3 DEF questions
    <3>6. RenamedSoFar(questions, Hinted(g[1 .. m - 1], questions[m]), m)
      BY <3>1, <3>2, <3>5, HintedFacts
    <3> QED BY <2>2, <3>4, <3>6
  <2> QED BY <2>4, <2>5
<1>4. n \notin Bad
  BY <1>3
<1> QED BY <1>1, <1>4 DEF questions

-----------------------------------------------------------------------------
(* What the loop makes of rules that nothing ends and that do not get in   *)
(* each other's way.                                                       *)

\* What the first m rules have left: the value of each, under its target.
AfterSoFar(rules, before, sofar, m) ==
    /\ sofar.stopped = FALSE
    /\ \A i \in 1 .. m : rules[i].operation # "drop" =>
           /\ rules[i].target \in DOMAIN sofar.after
           /\ sofar.after[rules[i].target] = ApplyOperation(rules[i], before).value

\* No rule is required, and no two write to one target.
Apart(rules, n) ==
    /\ \A i \in 1 .. n : rules[i].is_required = FALSE
    /\ \A i, j \in 1 .. n :
           rules[i].operation # "drop" /\ rules[j].operation # "drop"
               /\ rules[i].target = rules[j].target => i = j

\* One more rule keeps that.
LEMMA RunRuleAfter ==
    ASSUME NEW rules, NEW before, NEW n \in Nat, Apart(rules, n),
           NEW m \in 1 .. n, NEW sofar, AfterSoFar(rules, before, sofar, m - 1)
    PROVE  AfterSoFar(rules, before, RunRule(rules, before, sofar, m), m)
<1> DEFINE next == RunRule(rules, before, sofar, m)
           target == rules[m].target
           value == ApplyOperation(rules[m], before).value
<1>1. 1 .. m = (1 .. m - 1) \cup {m} /\ m \notin 1 .. m - 1 /\ 1 .. m \subseteq 1 .. n
  OBVIOUS
<1>2. sofar.stopped = FALSE /\ rules[m].is_required = FALSE
  BY DEF AfterSoFar, Apart
<1>3. CASE rules[m].operation = "drop"
  <2>1. next = sofar
    BY <1>3 DEF RunRule
  <2> HIDE DEF next
  <2>2. AfterSoFar(rules, before, next, m)
    BY <1>1, <1>3, <2>1 DEF AfterSoFar
  <2> QED BY <2>2 DEF next
<1>4. CASE rules[m].operation # "drop"
  <2>1. next.stopped = FALSE /\ next.after = Put(sofar.after, target, value)
    BY <1>2, <1>4 DEF RunRule
  <2> HIDE DEF next
  <2>2. DOMAIN next.after = DOMAIN sofar.after \cup {target} /\ next.after[target] = value
    BY <2>1 DEF Put
  <2>3. \A x \in DOMAIN sofar.after : x # target => next.after[x] = sofar.after[x]
    BY <2>1 DEF Put
  <2>4. ASSUME NEW i \in 1 .. m, rules[i].operation # "drop"
        PROVE  /\ rules[i].target \in DOMAIN next.after
               /\ next.after[rules[i].target] = ApplyOperation(rules[i], before).value
    <3>1. CASE i = m
      BY <2>2, <3>1
    <3>2. CASE i # m
      <4>1. i \in 1 .. m - 1
        BY <1>1, <3>2
      <4>2. /\ rules[i].target \in DOMAIN sofar.after
            /\ sofar.after[rules[i].target] = ApplyOperation(rules[i], before).value
        BY <2>4, <4>1 DEF AfterSoFar
      <4>3. rules[i].target # target
        BY <1>1, <1>4, <2>4, <3>2 DEF Apart
      <4> QED BY <2>2, <2>3, <4>2, <4>3
    <3> QED BY <3>1, <3>2
  <2>5. AfterSoFar(rules, before, next, m)
    BY <2>1, <2>4 DEF AfterSoFar
  <2> QED BY <2>5 DEF next
<1> QED BY <1>3, <1>4

\* So every rule that is not a drop leaves its value under its target.
LEMMA RunAfter ==
    ASSUME NEW rules, NEW before, NEW n \in Nat, DOMAIN rules = 1 .. n, Apart(rules, n)
    PROVE  AfterSoFar(rules, before, RunRules(rules, before), n)
<1>1. PICK g : Running(rules, before, g, n) /\ RunRules(rules, before) = g[1 .. n]
  BY RunRulesIs
<1>2. \A s \in SUBSET (1 .. n) :
          g[s] = IF s = {} THEN NothingYet
                 ELSE RunRule(rules, before, g[s \ {Max(s)}], Max(s))
  BY <1>1 DEF Running
<1> DEFINE Bad == {m \in Nat : m <= n /\ ~AfterSoFar(rules, before, g[1 .. m], m)}
<1>3. ASSUME Bad # {} PROVE FALSE
  <2>1. PICK m \in Bad : \A j \in Bad : m <= j
    BY <1>3, LeastNumber
  <2>2. m \in Nat /\ m <= n /\ ~AfterSoFar(rules, before, g[1 .. m], m)
    OBVIOUS
  <2>3. 1 .. m \in SUBSET (1 .. n)
    BY <2>2
  <2>4. CASE m = 0
    <3>1. 1 .. m = {}
      BY <2>4
    <3>2. g[1 .. m] = NothingYet
      BY <1>2, <2>3, <3>1
    <3>3. AfterSoFar(rules, before, NothingYet, m)
      BY <3>1 DEF AfterSoFar, NothingYet
    <3> QED BY <2>2, <3>2, <3>3
  <2>5. CASE m # 0
    <3>1. m - 1 \in Nat /\ m - 1 <= n /\ m \in 1 .. n /\ m - 1 \notin Bad
      BY <2>1, <2>2, <2>5
    <3>2. AfterSoFar(rules, before, g[1 .. m - 1], m - 1)
      BY <3>1
    <3>3. Max(1 .. m) = m /\ (1 .. m) \ {m} = 1 .. m - 1 /\ 1 .. m # {}
      BY <2>2, <2>5, MaxPrefix
    <3>4. g[1 .. m] = RunRule(rules, before, g[1 .. m - 1], m)
      BY <1>2, <2>3, <3>3
    <3>5. AfterSoFar(rules, before, RunRule(rules, before, g[1 .. m - 1], m), m)
      BY <3>1, <3>2, RunRuleAfter
    <3> QED BY <2>2, <3>4, <3>5
  <2> QED BY <2>4, <2>5
<1>4. n \notin Bad
  BY <1>3
<1> QED BY <1>1, <1>4

-----------------------------------------------------------------------------
(* What the rules that are suggested make of an answer.                    *)

\* A rule that renames takes the answer as it is.
LEMMA RenameValue ==
    ASSUME NEW source, NEW target, NEW before, source # None, source \in DOMAIN before
    PROVE  ApplyOperation(Rule(source, target, "rename", <<>>), before).value = before[source]
<1> DEFINE rule == Rule(source, target, "rename", <<>>)
<1>1. rule.source = source /\ rule.operation = "rename"
  BY DEF Rule
<1> HIDE DEF rule
<1>2. ApplyOperation(rule, before) = Gives(before[source])
  BY <1>1 DEF ApplyOperation, AnswerTo
<1>3. ApplyOperation(rule, before).value = before[source]
  BY <1>2 DEF Gives
<1> QED BY <1>3 DEF rule

\* The value of the rule for a fresh key is None.
LEMMA DefaultValue ==
    ASSUME NEW target, NEW before
    PROVE  ApplyOperation(Rule(None, target, "default_value", [value |-> None]), before).value
               = None
<1> DEFINE rule == Rule(None, target, "default_value", [value |-> None])
<1>1. rule.operation = "default_value" /\ rule.params = [value |-> None]
  BY DEF Rule
<1>2. Param(rule, "value", None) = None
  BY <1>1 DEF Param
<1> HIDE DEF rule
<1>3. ApplyOperation(rule, before) = Gives(None)
  BY <1>1, <1>2 DEF ApplyOperation
<1>4. ApplyOperation(rule, before).value = None
  BY <1>3 DEF Gives
<1> QED BY <1>4 DEF rule

\* What is picked first is at the least of the places.
LEMMA PickedFirst ==
    ASSUME NEW s, NEW K, K \subseteq Nat, IsFiniteSet(K)
    PROVE  /\ Picked(s, K) = <<>> <=> K = {}
           /\ K # {} => Picked(s, K)[1] = s[Min(K)]
<1> DEFINE list == Picked(s, K)
           c == Cardinality(K)
<1>1. PICK p : Takes(list, s, K, p)
  BY PickedPlaces, Zenon
<1>2. /\ c \in Nat
      /\ \A k \in 1 .. c : p[k] \in K
      /\ \A i \in K : \E k \in 1 .. c : p[k] = i
      /\ \A j, k \in 1 .. c : j < k => p[j] < p[k]
  BY <1>1 DEF Takes, Places
<1>3. DOMAIN list = 1 .. c /\ Len(list) = c /\ \A k \in 1 .. c : list[k] = s[p[k]]
  BY <1>1 DEF Takes
<1>4. c = 0 <=> K = {}
  BY FS_EmptySet
<1>5. list = [n \in DOMAIN list |-> list[n]]
  <2> DEFINE R == {q \in K \X K : q[1] < q[2]}
             at(n) == s[CHOOSE i \in K : Cardinality({j \in K : <<j, i>> \in R}) = n - 1]
  <2>1. list = [n \in 1 .. c |-> at(n)]
    BY DEF Picked, Arranged
  <2> HIDE DEF list, at, c
  <2> QED BY <2>1
<1> HIDE DEF list, c
<1>6. list = <<>> => c = 0
  BY <1>2, <1>3
<1>7. c = 0 => list = <<>>
  BY <1>3, <1>5
<1>8. ASSUME K # {} PROVE list[1] = s[Min(K)]
  <2>0. c # 0
    BY <1>4, <1>8
  <2>1. 1 \in 1 .. c
    BY <1>2, <2>0
  <2>2. ASSUME NEW i \in K PROVE p[1] <= i
    <3>1. PICK k \in 1 .. c : p[k] = i
      BY <1>2
    <3>2. k = 1 \/ 1 < k
      BY <1>2
    <3>3. p[1] \in Nat /\ i \in Nat
      BY <1>2, <2>1
    <3> QED BY <1>2, <2>1, <3>1, <3>2, <3>3
  <2>3. p[1] \in K /\ \A i \in K : i \in Nat
    BY <1>2, <2>1
  <2>4. ASSUME NEW x \in K, \A y \in K : x <= y PROVE x = p[1]
    <3>1. x <= p[1] /\ p[1] <= x
      BY <2>2, <2>3, <2>4
    <3>2. x \in Nat /\ p[1] \in Nat
      BY <2>3
    <3> QED BY <3>1, <3>2
  <2>5. Min(K) \in K /\ \A y \in K : Min(K) <= y
    BY <2>2, <2>3 DEF Min
  <2>6. Min(K) = p[1]
    BY <2>4, <2>5
  <2> QED BY <1>3, <2>1, <2>6
<1> QED BY <1>4, <1>6, <1>7, <1>8 DEF list

\* A change to a date is read by the first format that reads it, and any other change
\* of type leaves the answer.
LEMMA CoercedValue ==
    ASSUME NEW q, NEW r, NEW raw
    PROVE  CoerceType(SharedRule(q, r), raw).value = Converted(q, r, raw)
<1> DEFINE rule == SharedRule(q, r)
           formats == TriedFormats(rule)
           K == {i \in DOMAIN formats : Reads(formats[i], raw)}
           reading == Picked(formats, K)
<1>1. rule.params = CoerceParams(q.field_type, r.field_type)
  BY DEF SharedRule, Rule
<1>2. Param(rule, "to_type", "text") = r.field_type
  BY <1>1 DEF Param, CoerceParams
<1>3. DOMAIN formats = 1 .. 4
  BY DEF TriedFormats
<1>4. K \subseteq Nat /\ IsFiniteSet(K)
  <2>1. IsFiniteSet(1 .. 4)
    <3>1. \A a, b \in Int : IsFiniteSet(a .. b)
      BY FS_Interval
    <3>2. 1 \in Int /\ 4 \in Int
      OBVIOUS
    <3> QED BY <3>1, <3>2, Zenon
  <2>2. K \subseteq 1 .. 4
    BY <1>3
  <2> HIDE DEF K
  <2>3. IsFiniteSet(K)
    BY <2>1, <2>2, FS_Subset
  <2> QED BY <2>2, <2>3
<1>5. CoerceType(rule, raw) =
          IF raw = None THEN Gives(None)
          ELSE IF r.field_type # "date" THEN Gives(raw)
          ELSE IF reading = <<>> THEN Fails
          ELSE Gives(<<DateFormats[reading[1]][raw[1]]>>)
  <2> HIDE DEF rule
  <2> QED BY <1>2 DEF CoerceType
<1>6. Converted(q, r, raw) =
          IF raw = None \/ r.field_type # "date" THEN raw
          ELSE IF K = {} THEN None
          ELSE <<DateFormats[formats[Min(K)]][raw[1]]>>
  <2> HIDE DEF rule
  <2> QED BY DEF Converted, rule
<1> HIDE DEF rule, formats, K
<1>7. (reading = <<>> <=> K = {}) /\ (K # {} => reading[1] = formats[Min(K)])
  BY <1>4, PickedFirst, Zenon
<1> HIDE DEF reading
<1>8. CoerceType(rule, raw).value = Converted(q, r, raw)
  BY <1>5, <1>6, <1>7 DEF Gives, Fails
<1> QED BY <1>8 DEF rule

\* So the rule for two questions with one key converts the answer.
LEMMA SharedValue ==
    ASSUME NEW q, NEW r, NEW before, q.key # None, q.key \in DOMAIN before
    PROVE  /\ SharedRule(q, r).source = q.key /\ SharedRule(q, r).target = q.key
           /\ SharedRule(q, r).operation # "drop"
           /\ SharedRule(q, r).is_required = FALSE
           /\ ApplyOperation(SharedRule(q, r), before).value = Converted(q, r, before[q.key])
<1> DEFINE rule == SharedRule(q, r)
           raw == before[q.key]
<1>1. rule.source = q.key /\ rule.target = q.key /\ rule.is_required = FALSE
  BY DEF SharedRule, Rule
<1>2. rule.operation = "coerce_type"
  BY DEF SharedRule, Rule
<1> HIDE DEF rule
<1>3. ApplyOperation(rule, before) = CoerceType(rule, raw)
  BY <1>1, <1>2 DEF ApplyOperation, AnswerTo
<1>4. CoerceType(rule, raw).value = Converted(q, r, raw)
  BY CoercedValue DEF rule
<1> QED BY <1>1, <1>2, <1>3, <1>4 DEF rule

-----------------------------------------------------------------------------
(* The rules that are suggested.                                           *)

\* Two lists, one after the other.
Joins(r, s, t, a, b) ==
    /\ DOMAIN r = 1 .. a + b
    /\ \A i \in 1 .. a : r[i] = s[i]
    /\ \A i \in 1 .. b : r[a + i] = t[i]

\* That is what \o makes of two sequences.
LEMMA ConcatJoins ==
    ASSUME NEW s, NEW t, NEW a \in Nat, NEW b \in Nat,
           s = [i \in 1 .. a |-> s[i]], t = [i \in 1 .. b |-> t[i]]
    PROVE  Joins(s \o t, s, t, a, b)
<1> DEFINE S == {s[i] : i \in 1 .. a} \cup {t[i] : i \in 1 .. b}
<1>1. /\ \A i \in 1 .. a : s[i] \in S
      /\ \A i \in 1 .. b : t[i] \in S
  OBVIOUS
<1> HIDE DEF S
<1>2. s \in Seq(S) /\ Len(s) = a
  BY <1>1
<1>3. t \in Seq(S) /\ Len(t) = b
  BY <1>1
<1> DEFINE r == s \o t
<1>4. /\ r \in Seq(S) /\ Len(r) = Len(s) + Len(t)
      /\ \A i \in 1 .. Len(s) + Len(t) : r[i] = IF i <= Len(s) THEN s[i] ELSE t[i - Len(s)]
  BY <1>2, <1>3, ConcatProperties
<1> HIDE DEF r
<1>5. DOMAIN r = 1 .. a + b
  BY <1>2, <1>3, <1>4
<1>6. ASSUME NEW i \in 1 .. a PROVE r[i] = s[i]
  <2>1. i \in 1 .. a + b /\ i <= a
    OBVIOUS
  <2> QED BY <1>2, <1>3, <1>4, <2>1
<1>7. ASSUME NEW i \in 1 .. b PROVE r[a + i] = t[i]
  <2>1. a + i \in 1 .. a + b /\ ~(a + i <= a) /\ a + i - a = i
    OBVIOUS
  <2> QED BY <1>2, <1>3, <1>4, <2>1
<1> QED BY <1>5, <1>6, <1>7 DEF Joins, r

\* The keys of the target that nothing in the source answers, and the rule they get.
Fresh(source, target) == Keys(target) \ (Keys(source) \cup Range(RenamedFrom(target)))
DefaultRule(key) == Rule(None, key, "default_value", [value |-> None])

\* There is a rule for every key of the source, a default for every fresh one, each
\* once, and no other rule.
Suggests(rules, source, target) ==
    /\ \E n \in Nat : DOMAIN rules = 1 .. n
    /\ \A i \in DOMAIN rules :
           \/ \E key \in Keys(source) : rules[i] = SourceRule(QuestionMap(source)[key], target)
           \/ \E key \in Fresh(source, target) : rules[i] = DefaultRule(key)
    /\ \A key \in Keys(source) :
           \E i \in DOMAIN rules : rules[i] = SourceRule(QuestionMap(source)[key], target)
    /\ \A key \in Fresh(source, target) : \E i \in DOMAIN rules : rules[i] = DefaultRule(key)
    /\ \A i, j \in DOMAIN rules :
           rules[i].source = rules[j].source /\ rules[i].target = rules[j].target => i = j

\* The source of a rule is the key of its question.
LEMMA SourceRuleSource ==
    ASSUME NEW q, NEW target
    PROVE  SourceRule(q, target).source = q.key
BY DEF SourceRule, SharedRule, Rule

\* That is what generate_rule_set suggests, if it does not fail.
LEMMA GeneratedFacts ==
    ASSUME NEW source, NEW m \in Nat, DOMAIN source = 1 .. m, None \notin Keys(source),
           NEW target, NEW n \in Nat, DOMAIN target = 1 .. n,
           ~OptionsLookedAt(source, target)
    PROVE  Suggests(GeneratedRules(source, target), source, target)
<1> DEFINE old == Listed(source)
           new == Listed(target)
           fresh == Fresh(source, target)
           K == {i \in DOMAIN new :
                    new[i].key \notin Keys(source) \cup Range(RenamedFrom(target))}
           added == Picked(new, K)
           olds == [i \in DOMAIN old |-> SourceRule(old[i], target)]
           defaults == [i \in DOMAIN added |-> DefaultRule(added[i].key)]
           rules == GeneratedRules(source, target)
           a == Len(old)
           b == Cardinality(K)
<1>1. rules = olds \o defaults
  BY DEF GeneratedRules, DefaultRule
<1>2. Lists(old, source)
  BY ListedFacts
<1>3. Lists(new, target)
  BY ListedFacts
<1>4. K \subseteq DOMAIN new /\ \A i \in K : new[i].key \in fresh
  BY <1>3 DEF Lists, Fresh
<1>5. \A key \in fresh : \E i \in K : new[i].key = key
  <2> SUFFICES ASSUME NEW key \in fresh PROVE \E i \in K : new[i].key = key
    OBVIOUS
  <2>1. key \in Keys(target) /\ key \notin Keys(source) \cup Range(RenamedFrom(target))
    BY DEF Fresh
  <2>2. PICK i \in DOMAIN new : new[i] = QuestionMap(target)[key]
    BY <1>3, <2>1 DEF Lists
  <2>3. new[i].key = key
    BY <2>1, <2>2, QuestionMapFacts
  <2> QED BY <2>1, <2>3
<1> HIDE DEF old, new, K, fresh, rules
<1>6. K \subseteq Nat /\ IsFiniteSet(K)
  <2>1. Len(new) \in Nat /\ DOMAIN new = 1 .. Len(new)
    BY <1>3 DEF Lists
  <2>2. IsFiniteSet(1 .. Len(new))
    BY <2>1, FS_Interval
  <2> QED BY <1>4, <2>1, <2>2, FS_Subset
<1>7. PICK p : Takes(added, new, K, p)
  BY <1>6, PickedPlaces, Zenon
<1> HIDE DEF added
<1>8. /\ b \in Nat /\ DOMAIN added = 1 .. b
      /\ \A k \in 1 .. b : added[k] = new[p[k]] /\ p[k] \in K
      /\ \A i \in K : \E k \in 1 .. b : p[k] = i
      /\ \A j, k \in 1 .. b : p[j] = p[k] => j = k
  BY <1>7 DEF Takes, Places
<1>9. /\ a \in Nat /\ DOMAIN old = 1 .. a
      /\ \A i \in 1 .. a : old[i].key \in Keys(source)
                           /\ old[i] = QuestionMap(source)[old[i].key]
      /\ \A key \in Keys(source) : \E i \in 1 .. a : old[i] = QuestionMap(source)[key]
      /\ \A i, j \in 1 .. a : old[i].key = old[j].key => i = j
  BY <1>2 DEF Lists
<1> HIDE DEF a, b
<1>10. /\ olds = [i \in 1 .. a |-> olds[i]]
       /\ \A i \in 1 .. a : olds[i] = SourceRule(old[i], target)
  BY <1>9
<1>11. /\ defaults = [i \in 1 .. b |-> defaults[i]]
       /\ \A i \in 1 .. b : defaults[i] = DefaultRule(added[i].key)
  BY <1>8
<1> HIDE DEF olds, defaults
<1>12. Joins(rules, olds, defaults, a, b)
  BY <1>1, <1>8, <1>9, <1>10, <1>11, ConcatJoins
<1>13. /\ DOMAIN rules = 1 .. a + b
       /\ \A i \in 1 .. a : rules[i] = SourceRule(old[i], target)
       /\ \A i \in 1 .. b : rules[a + i] = DefaultRule(added[i].key)
  BY <1>10, <1>11, <1>12 DEF Joins
<1>14. ASSUME NEW i \in 1 .. a + b
       PROVE  i \in 1 .. a \/ \E k \in 1 .. b : i = a + k
  <2>1. CASE i <= a
    BY <1>8, <1>9, <2>1
  <2>2. CASE ~(i <= a)
    <3>1. i - a \in 1 .. b /\ i = a + (i - a)
      BY <1>8, <1>9, <2>2
    <3> QED BY <3>1
  <2> QED BY <2>1, <2>2
<1>15. ASSUME NEW k \in 1 .. b PROVE added[k].key \in fresh
  BY <1>4, <1>8
<1>16. \E l \in Nat : DOMAIN rules = 1 .. l
  <2>1. a + b \in Nat
    BY <1>8, <1>9
  <2> QED BY <1>13, <2>1
<1>17. ASSUME NEW i \in DOMAIN rules
       PROVE  \/ \E key \in Keys(source) : rules[i] = SourceRule(QuestionMap(source)[key], target)
              \/ \E key \in fresh : rules[i] = DefaultRule(key)
  <2>1. CASE i \in 1 .. a
    <3>1. rules[i] = SourceRule(QuestionMap(source)[old[i].key], target)
      BY <1>9, <1>13, <2>1
    <3> QED BY <1>9, <2>1, <3>1
  <2>2. ASSUME NEW k \in 1 .. b, i = a + k
        PROVE  \E key \in fresh : rules[i] = DefaultRule(key)
    BY <1>13, <1>15, <2>2
  <2> QED BY <1>13, <1>14, <2>1, <2>2
<1>18. ASSUME NEW key \in Keys(source)
       PROVE  \E i \in DOMAIN rules : rules[i] = SourceRule(QuestionMap(source)[key], target)
  <2>1. PICK i \in 1 .. a : old[i] = QuestionMap(source)[key]
    BY <1>9
  <2>2. i \in 1 .. a + b
    BY <1>8, <1>9
  <2> QED BY <1>13, <2>1, <2>2
<1>19. ASSUME NEW key \in fresh
       PROVE  \E i \in DOMAIN rules : rules[i] = DefaultRule(key)
  <2>1. PICK i \in K : new[i].key = key
    BY <1>5
  <2>2. PICK k \in 1 .. b : p[k] = i
    BY <1>8
  <2>3. a + k \in 1 .. a + b
    BY <1>8, <1>9
  <2>4. rules[a + k] = DefaultRule(key)
    BY <1>8, <1>13, <2>1, <2>2
  <2> QED BY <1>13, <2>3, <2>4
<1>20. \A i \in 1 .. a : rules[i].source = old[i].key /\ rules[i].source # None
  BY <1>9, <1>13, SourceRuleSource
<1>21. \A k \in 1 .. b : rules[a + k].source = None /\ rules[a + k].target = added[k].key
  <2>1. \A key : DefaultRule(key).source = None /\ DefaultRule(key).target = key
    BY DEF DefaultRule, Rule
  <2> QED BY <1>13, <2>1
<1>22. ASSUME NEW i \in DOMAIN rules, NEW j \in DOMAIN rules,
              rules[i].source = rules[j].source, rules[i].target = rules[j].target
       PROVE  i = j
  <2>1. CASE i \in 1 .. a /\ j \in 1 .. a
    BY <1>9, <1>20, <1>22, <2>1
  <2>2. CASE i \notin 1 .. a /\ j \notin 1 .. a
    <3>1. PICK k \in 1 .. b : i = a + k
      BY <1>13, <1>14, <2>2
    <3>2. PICK l \in 1 .. b : j = a + l
      BY <1>13, <1>14, <2>2
    <3>3. new[p[k]].key = new[p[l]].key
      BY <1>8, <1>21, <1>22, <3>1, <3>2
    <3>4. p[k] = p[l]
      BY <1>3, <1>4, <1>8, <3>3 DEF Lists
    <3> QED BY <1>8, <3>1, <3>2, <3>4
  <2>3. CASE i \in 1 .. a /\ j \notin 1 .. a
    <3>1. PICK l \in 1 .. b : j = a + l
      BY <1>13, <1>14, <2>3
    <3> QED BY <1>20, <1>21, <1>22, <2>3, <3>1
  <2>4. CASE i \notin 1 .. a /\ j \in 1 .. a
    <3>1. PICK k \in 1 .. b : i = a + k
      BY <1>13, <1>14, <2>4
    <3> QED BY <1>20, <1>21, <1>22, <2>4, <3>1
  <2> QED BY <2>1, <2>2, <2>3, <2>4
<1>23. Suggests(rules, source, target)
  BY <1>16, <1>17, <1>18, <1>19, <1>22 DEF Suggests, fresh
<1> QED BY <1>23 DEF rules

-----------------------------------------------------------------------------
(* The hints between two versions.                                         *)

\* What the hints come to where they are sane: they rename questions that are gone to
\* ones that are new, one to one.
Renames(source, target) ==
    LET renamed == RenamedFrom(target)
        new == QuestionMap(target)
    IN  /\ DOMAIN renamed \subseteq Keys(source) \ Keys(target)
        /\ \A x \in DOMAIN renamed :
               /\ renamed[x] \in Keys(target) \ Keys(source)
               /\ new[renamed[x]].renamed_from = x
        /\ \A key \in Keys(target) : new[key].renamed_from # None =>
               /\ new[key].renamed_from \in DOMAIN renamed
               /\ renamed[new[key].renamed_from] = key

\* Sane hints come to that.
LEMMA HintsRename ==
    ASSUME NEW source, NEW target, NEW n \in Nat, DOMAIN target = 1 .. n,
           None \notin Keys(source), HintsSane(source, target)
    PROVE  Renames(source, target)
<1> DEFINE list == Listed(target)
           renamed == RenamedFrom(target)
           l == Len(list)
           new == QuestionMap(target)
<1>1. Lists(list, target)
  BY ListedFacts
<1>2. /\ l \in Nat /\ DOMAIN list = 1 .. l
      /\ \A i \in 1 .. l : list[i].key \in Keys(target) /\ list[i] = new[list[i].key]
      /\ \A key \in Keys(target) : \E i \in 1 .. l : list[i] = new[key]
      /\ \A i, j \in 1 .. l : list[i].key = list[j].key => i = j
  BY <1>1 DEF Lists
<1>3. \A key \in Keys(target) :
          new[key].key = key /\ \E i \in DOMAIN target : new[key] = target[i]
  BY QuestionMapFacts
<1>4. \A i \in DOMAIN target : target[i].renamed_from # None =>
          /\ target[i].renamed_from \in Keys(source) \ Keys(target)
          /\ target[i].key \notin Keys(source)
  BY DEF HintsSane
<1>5. \A i, j \in DOMAIN target :
          target[i].renamed_from # None /\ target[i].renamed_from = target[j].renamed_from
              => i = j
  BY DEF HintsSane
<1> HIDE DEF list, l, new
<1>6. \A i \in 1 .. l : \E j \in DOMAIN target : list[i] = target[j]
  BY <1>2, <1>3
<1>7. ASSUME NEW i \in 1 .. l, NEW j \in 1 .. l, list[i].renamed_from # None,
             list[i].renamed_from = list[j].renamed_from
      PROVE  i = j
  <2>1. PICK x \in DOMAIN target : list[i] = target[x]
    BY <1>6
  <2>2. PICK y \in DOMAIN target : list[j] = target[y]
    BY <1>6
  <2>3. x = y
    BY <1>5, <1>7, <2>1, <2>2
  <2> QED BY <1>2, <2>1, <2>2, <2>3
<1>8. RenamedSoFar(list, renamed, l)
  BY <1>2, <1>7, RenamedFacts DEF list
<1> HIDE DEF renamed
<1>9. /\ DOMAIN renamed = {list[i].renamed_from : i \in
                              {j \in 1 .. l : list[j].renamed_from # None}}
      /\ \A i \in 1 .. l : list[i].renamed_from # None =>
             renamed[list[i].renamed_from] = list[i].key
  BY <1>8 DEF RenamedSoFar
<1>10. ASSUME NEW x \in DOMAIN renamed
       PROVE  /\ x \in Keys(source) \ Keys(target)
              /\ renamed[x] \in Keys(target) \ Keys(source)
              /\ new[renamed[x]].renamed_from = x
  <2>1. PICK i \in 1 .. l : list[i].renamed_from # None /\ x = list[i].renamed_from
    BY <1>9
  <2>2. renamed[x] = list[i].key
    BY <1>9, <2>1
  <2>3. PICK j \in DOMAIN target : list[i] = target[j]
    BY <1>6
  <2>4. x \in Keys(source) \ Keys(target) /\ renamed[x] \notin Keys(source)
    BY <1>4, <2>1, <2>2, <2>3
  <2>5. renamed[x] \in Keys(target) /\ new[renamed[x]] = list[i]
    BY <1>2, <2>2
  <2> QED BY <2>1, <2>4, <2>5
<1>11. ASSUME NEW key \in Keys(target), new[key].renamed_from # None
       PROVE  /\ new[key].renamed_from \in DOMAIN renamed
              /\ renamed[new[key].renamed_from] = key
  <2>1. PICK i \in 1 .. l : list[i] = new[key]
    BY <1>2
  <2>2. list[i].renamed_from # None /\ list[i].key = key
    BY <1>3, <1>11, <2>1
  <2>3. list[i].renamed_from \in DOMAIN renamed /\ renamed[list[i].renamed_from] = key
    BY <1>9, <2>2
  <2> QED BY <2>1, <2>3
<1> QED BY <1>10, <1>11 DEF Renames, renamed, new

\* Where the hints are sane, no two rules write to one target.
LEMMA TargetsApart ==
    ASSUME NEW source, NEW target, NEW rules, None \notin Keys(source),
           Suggests(rules, source, target), Renames(source, target),
           \A key \in Keys(source) : QuestionMap(source)[key].key = key,
           NEW i \in DOMAIN rules, NEW j \in DOMAIN rules,
           rules[i].operation # "drop", rules[j].operation # "drop",
           rules[i].target = rules[j].target
    PROVE  i = j
<1> DEFINE renamed == RenamedFrom(target)
           Kind(rule) ==
               \/ rule.source \in DOMAIN renamed /\ rule.target = renamed[rule.source]
               \/ /\ rule.source \in Keys(source) \cap Keys(target)
                  /\ rule.target = rule.source
               \/ rule.source = None /\ rule.target \in Fresh(source, target)
<1>1. ASSUME NEW k \in DOMAIN rules, rules[k].operation # "drop" PROVE Kind(rules[k])
  <2>1. ASSUME NEW key \in Keys(source),
               rules[k] = SourceRule(QuestionMap(source)[key], target)
        PROVE  Kind(rules[k])
    <3> DEFINE q == QuestionMap(source)[key]
    <3>1. q.key = key
      OBVIOUS
    <3> HIDE DEF q
    <3>2. CASE key \in DOMAIN renamed
      <4>1. rules[k] = Rule(key, renamed[key], "rename", <<>>)
        BY <2>1, <3>1, <3>2 DEF SourceRule, q
      <4>2. rules[k].source = key /\ rules[k].target = renamed[key]
        BY <4>1 DEF Rule
      <4> QED BY <3>2, <4>2
    <3>3. CASE key \notin DOMAIN renamed /\ key \in Keys(target)
      <4>1. rules[k] = SharedRule(q, QuestionMap(target)[key])
        BY <2>1, <3>1, <3>3 DEF SourceRule, q
      <4>2. rules[k].source = key /\ rules[k].target = key
        BY <3>1, <4>1 DEF SharedRule, Rule
      <4> QED BY <3>3, <4>2
    <3>4. CASE key \notin DOMAIN renamed /\ key \notin Keys(target)
      <4>1. rules[k] = Rule(key, key, "drop", <<>>)
        BY <2>1, <3>1, <3>4 DEF SourceRule, q
      <4>2. rules[k].operation = "drop"
        BY <4>1 DEF Rule
      <4> QED BY <1>1, <4>2
    <3> QED BY <3>2, <3>3, <3>4
  <2>2. ASSUME NEW key \in Fresh(source, target), rules[k] = DefaultRule(key)
        PROVE  Kind(rules[k])
    <3>1. rules[k].source = None /\ rules[k].target = key
      BY <2>2 DEF DefaultRule, Rule
    <3> QED BY <3>1
  <2> QED BY <2>1, <2>2 DEF Suggests
<1>2. Kind(rules[i]) /\ Kind(rules[j])
  BY <1>1
<1>3. /\ DOMAIN renamed \subseteq Keys(source) \ Keys(target)
      /\ \A x \in DOMAIN renamed :
             /\ renamed[x] \in Keys(target) \ Keys(source)
             /\ renamed[x] \in Range(renamed)
             /\ QuestionMap(target)[renamed[x]].renamed_from = x
  BY DEF Renames, Range
<1>4. \A key \in Fresh(source, target) : key \notin Keys(source) /\ key \notin Range(renamed)
  BY DEF Fresh
<1> HIDE DEF renamed
<1>5. rules[i].source = rules[j].source
  BY <1>2, <1>3, <1>4
<1> QED BY <1>5 DEF Suggests

-----------------------------------------------------------------------------
(* What the rules that are suggested make of the answers.                  *)

\* A version is a list of questions that have keys.
LEMMA VersionFacts ==
    ASSUME NEW version \in Versions
    PROVE  /\ \E n \in Nat : DOMAIN version = 1 .. n
           /\ None \notin Keys(version)
           /\ DOMAIN QuestionMap(version) = Keys(version)
           /\ \A key \in Keys(version) :
                  /\ QuestionMap(version)[key].key = key
                  /\ \E i \in DOMAIN version : QuestionMap(version)[key] = version[i]
<1>1. version \in Seq(Range(version)) /\ None \notin Keys(version)
  BY InputsOK
<1>2. PICK n \in Nat : DOMAIN version = 1 .. n
  BY <1>1
<1> QED BY <1>1, <1>2, QuestionMapFacts

\* The value under a key of the target is the one that AnswersCarriedOver asks for.
Carried1(source, target, before, after, key) ==
    LET old == QuestionMap(source)
        new == QuestionMap(target)
        from == IF new[key].renamed_from # None THEN new[key].renamed_from ELSE key
    IN  after[key] = IF from \notin DOMAIN old THEN None
                     ELSE IF from # key THEN before[from]
                     ELSE Converted(old[key], new[key], before[key])

\* Every key of the target is the target of one rule, and that is the rule for it.
LEMMA KeyCarried ==
    ASSUME NEW source \in Versions, NEW target \in Versions, HintsSane(source, target),
           NEW before \in AnswerSets(source), NEW key \in Keys(target),
           ~OptionsLookedAt(source, target)
    PROVE  LET after == RunRules(GeneratedRules(source, target), before).after
           IN  key \in DOMAIN after /\ Carried1(source, target, before, after, key)
<1> DEFINE old == QuestionMap(source)
           new == QuestionMap(target)
           renamed == RenamedFrom(target)
           rules == GeneratedRules(source, target)
           after == RunRules(rules, before).after
<1>1. /\ None \notin Keys(source) /\ None \notin Keys(target)
      /\ DOMAIN old = Keys(source) /\ DOMAIN new = Keys(target)
      /\ \A k \in Keys(source) : old[k].key = k
      /\ \A k \in Keys(target) : new[k].key = k
  BY VersionFacts
<1>2. Suggests(rules, source, target)
  <2>1. PICK m \in Nat : DOMAIN source = 1 .. m
    BY VersionFacts
  <2>2. PICK n \in Nat : DOMAIN target = 1 .. n
    BY VersionFacts
  <2> QED BY <1>1, <2>1, <2>2, GeneratedFacts
<1>3. Renames(source, target)
  <2>1. PICK n \in Nat : DOMAIN target = 1 .. n
    BY VersionFacts
  <2> QED BY <1>1, <2>1, HintsRename
<1>4. DOMAIN before = Keys(source)
  BY DEF AnswerSets
<1> HIDE DEF old, rules
<1>5. PICK n \in Nat : DOMAIN rules = 1 .. n
  BY <1>2 DEF Suggests
<1>6. ASSUME NEW q PROVE SourceRule(q, target).is_required = FALSE
  BY DEF SourceRule, SharedRule, Rule
<1>7. ASSUME NEW k
      PROVE  DefaultRule(k).is_required = FALSE /\ DefaultRule(k).target = k
             /\ DefaultRule(k).operation # "drop"
  <2>1. DefaultRule(k).is_required = FALSE
    BY DEF DefaultRule, Rule
  <2>2. DefaultRule(k).target = k /\ DefaultRule(k).operation # "drop"
    BY DEF DefaultRule, Rule
  <2> QED BY <2>1, <2>2
<1>8. ASSUME NEW i \in DOMAIN rules PROVE rules[i].is_required = FALSE
  <2>1. \/ \E k \in Keys(source) : rules[i] = SourceRule(old[k], target)
        \/ \E k \in Fresh(source, target) : rules[i] = DefaultRule(k)
    BY <1>2 DEF Suggests, old
  <2> QED BY <1>6, <1>7, <2>1, Zenon
<1>9. \A i, j \in DOMAIN rules :
          rules[i].operation # "drop" /\ rules[j].operation # "drop"
              /\ rules[i].target = rules[j].target => i = j
  BY <1>1, <1>2, <1>3, TargetsApart DEF old
<1>10. Apart(rules, n)
  BY <1>5, <1>8, <1>9 DEF Apart
<1>11. AfterSoFar(rules, before, RunRules(rules, before), n)
  BY <1>5, <1>10, RunAfter
<1>12. \A i \in DOMAIN rules : rules[i].operation # "drop" =>
           /\ rules[i].target \in DOMAIN after
           /\ after[rules[i].target] = ApplyOperation(rules[i], before).value
  BY <1>5, <1>11 DEF AfterSoFar
<1> HIDE DEF after
<1>13. CASE new[key].renamed_from # None
  <2> DEFINE x == new[key].renamed_from
  <2>1. x \in DOMAIN renamed /\ renamed[x] = key
    BY <1>13, <1>3 DEF Renames
  <2>2. x \in Keys(source) /\ x \notin Keys(target)
    BY <1>3, <2>1 DEF Renames
  <2> HIDE DEF x
  <2>3. PICK i \in DOMAIN rules : rules[i] = SourceRule(old[x], target)
    BY <1>2, <2>2 DEF Suggests, old
  <2>4. rules[i] = Rule(x, key, "rename", <<>>)
    BY <1>1, <2>1, <2>2, <2>3 DEF SourceRule
  <2>5. rules[i].operation # "drop" /\ rules[i].target = key
    BY <2>4 DEF Rule
  <2>6. ApplyOperation(rules[i], before).value = before[x]
    BY <1>1, <1>4, <2>2, <2>4, RenameValue
  <2>7. key \in DOMAIN after /\ after[key] = before[x]
    BY <1>12, <2>5, <2>6
  <2>8. x \in DOMAIN old /\ x # key
    BY <1>1, <2>2
  <2>9. Carried1(source, target, before, after, key)
    BY <1>13, <2>7, <2>8 DEF Carried1, x, old
  <2> QED BY <2>7, <2>9 DEF after, rules
<1>14. CASE new[key].renamed_from = None /\ key \in Keys(source)
  <2>1. key \notin DOMAIN renamed
    BY <1>3 DEF Renames
  <2>2. PICK i \in DOMAIN rules : rules[i] = SourceRule(old[key], target)
    BY <1>2, <1>14 DEF Suggests, old
  <2>3. rules[i] = SharedRule(old[key], new[key])
    BY <1>1, <1>14, <2>1, <2>2 DEF SourceRule
  <2>4. old[key].key = key /\ key # None /\ key \in DOMAIN before
    BY <1>1, <1>4, <1>14
  <2> DEFINE q == old[key]
             r == new[key]
  <2>5. q.key = key /\ q.key # None /\ q.key \in DOMAIN before
    BY <2>4
  <2> HIDE DEF q, r
  <2>6. /\ SharedRule(q, r).target = q.key /\ SharedRule(q, r).operation # "drop"
        /\ ApplyOperation(SharedRule(q, r), before).value = Converted(q, r, before[q.key])
    BY <2>5, SharedValue
  <2>7. /\ rules[i].operation # "drop" /\ rules[i].target = key
        /\ ApplyOperation(rules[i], before).value = Converted(q, r, before[key])
    BY <2>3, <2>5, <2>6 DEF q, r
  <2>8. key \in DOMAIN after /\ after[key] = Converted(old[key], new[key], before[key])
    BY <1>12, <2>7 DEF q, r
  <2>9. Carried1(source, target, before, after, key)
    BY <1>1, <1>14, <2>8 DEF Carried1, old
  <2> QED BY <2>8, <2>9 DEF after, rules
<1>15. CASE new[key].renamed_from = None /\ key \notin Keys(source)
  <2>1. key \notin Range(renamed)
    <3>1. ASSUME NEW x \in DOMAIN renamed, renamed[x] = key PROVE FALSE
      <4>1. new[key].renamed_from = x /\ x \in Keys(source)
        BY <1>3, <3>1 DEF Renames
      <4> QED BY <1>1, <1>15, <4>1
    <3> QED BY <3>1 DEF Range
  <2>2. key \in Fresh(source, target)
    BY <1>15, <2>1 DEF Fresh
  <2>3. PICK i \in DOMAIN rules : rules[i] = DefaultRule(key)
    BY <1>2, <2>2 DEF Suggests
  <2>4. ApplyOperation(DefaultRule(key), before).value = None
    BY DefaultValue DEF DefaultRule
  <2>5. rules[i].target = key /\ rules[i].operation # "drop"
        /\ ApplyOperation(rules[i], before).value = None
    BY <1>7, <2>3, <2>4
  <2>6. key \in DOMAIN after /\ after[key] = None
    BY <1>12, <2>5
  <2>7. Carried1(source, target, before, after, key)
    BY <1>1, <1>15, <2>6 DEF Carried1, old
  <2> QED BY <2>6, <2>7 DEF after, rules
<1> QED BY <1>13, <1>14, <1>15

\* So the new answers are those that AnswersCarriedOver asks for.
LEMMA CarriedHolds == InputSound => AnswersCarriedOver
<1> DEFINE source == input.source
           target == input.target
           before == input.before
           old == QuestionMap(source)
           new == QuestionMap(target)
           from(key) == IF new[key].renamed_from # None THEN new[key].renamed_from ELSE key
           after == RunRules(GeneratedRules(source, target), before).after
           carried == [key \in DOMAIN new |->
                          IF from(key) \notin DOMAIN old THEN None
                          ELSE IF from(key) # key THEN before[from(key)]
                          ELSE Converted(old[key], new[key], before[key])]
<1> SUFFICES ASSUME InputSound, input.of = "versions", HintsSane(source, target),
                    GeneratedRules(source, target) # None
             PROVE  NewAnswers(after, target) = carried
  BY DEF AnswersCarriedOver
<1>1. source \in Versions /\ target \in Versions /\ before \in AnswerSets(source)
  BY DEF InputSound
<1>0. ~OptionsLookedAt(source, target)
  BY DEF GeneratedRules
<1> HIDE DEF source, target, before
<1>2. DOMAIN new = Keys(target)
  BY <1>1, VersionFacts
<1>3. \A key \in Keys(target) :
          key \in DOMAIN after /\ Carried1(source, target, before, after, key)
  BY <1>0, <1>1, KeyCarried
<1>4. NewAnswers(after, target) = [key \in Keys(target) |-> after[key]]
  <2> HIDE DEF after
  <2>1. DOMAIN after \cap Keys(target) = Keys(target)
    BY <1>3
  <2> QED BY <2>1 DEF NewAnswers
<1>5. \A key \in Keys(target) : after[key] = carried[key]
  <2> HIDE DEF after
  <2> QED BY <1>2, <1>3 DEF Carried1
<1>6. carried = [key \in Keys(target) |-> carried[key]]
  BY <1>2
<1> HIDE DEF carried, after
<1> QED BY <1>4, <1>5, <1>6

\* For all versions and answers: where generate_rule_set does not fail, the rules it
\* suggests carry every answer over, and make up nothing, if the hints rename what is
\* gone to what is new, one to one.
THEOREM Carried == Spec => []AnswersCarriedOver
<1> QED BY InputAlways, CarriedHolds, PTL
=============================================================================

------------------------ MODULE ReleasePipelineProofs ------------------------
(***************************************************************************)
(* Proofs about the release as a function of the records and the catalog,  *)
(* and about the commands that use it: for every manifest, store, list of  *)
(* cells and number of edits and changes.                                  *)
(***************************************************************************)
EXTENDS ReleasePipeline, FiniteSetTheorems, TLAPS

------------------------------------------------------------------------------
(* Counting.                                                               *)

(* The first n of f are all of S.                                          *)
Exhausts(f, n, S) == \A x \in S : \E i \in 1 .. n : f[i] = x

(* As many as there are, each at most once: all of them.                   *)
LEMMA AllTaken ==
  ASSUME NEW S, IsFiniteSet(S), NEW n \in Nat, Cardinality(S) = n, NEW f \in [1 .. n -> S],
         \A i, j \in 1 .. n : f[i] = f[j] => i = j
  PROVE  Exhausts(f, n, S)
<1> SUFFICES ASSUME NEW x \in S, \A i \in 1 .. n : f[i] # x PROVE FALSE
  BY DEF Exhausts
<1>1. f \in [1 .. n -> S \ {x}]
  OBVIOUS
<1>2. IsFiniteSet(1 .. n) /\ Cardinality(1 .. n) = n
  BY FS_Interval
<1>3. IsFiniteSet(S \ {x}) /\ Cardinality(S \ {x}) = n - 1
  BY FS_RemoveElement
<1>4. \E i, j \in 1 .. n : i # j /\ f[i] = f[j]
  <2>1. Cardinality(S \ {x}) < Cardinality(1 .. n)
    BY <1>2, <1>3
  <2> QED
    BY <1>1, <1>2, <1>3, <2>1, FS_PigeonHole
<1> QED
  BY <1>4

(* A list of all elements that repeats none counts them.                   *)
LEMMA Counted ==
  ASSUME NEW S, NEW n \in Nat, NEW f \in [1 .. n -> S],
         \A i, j \in 1 .. n : f[i] = f[j] => i = j,
         \A x \in S : \E i \in 1 .. n : f[i] = x
  PROVE  IsFiniteSet(S) /\ Cardinality(S) = n
<1>1. f \in Bijection(1 .. n, S)
  BY DEF Bijection, Injection, IsInjective, Surjection
<1>2. IsFiniteSet(1 .. n) /\ Cardinality(1 .. n) = n
  BY FS_Interval
<1> QED
  BY <1>1, <1>2, FS_Bijection DEF ExistsBijection

(* A set of numbers that has 0 and every successor has all numbers: were   *)
(* one missing, so would be its predecessor, and there would be as many    *)
(* missing numbers up to it as there are below it.                         *)
LEMMA Counting ==
  ASSUME NEW A, 0 \in A, \A k \in Nat : k \in A => k + 1 \in A
  PROVE  Nat \subseteq A
<1> SUFFICES ASSUME NEW m \in Nat, m \notin A PROVE FALSE
  OBVIOUS
<1> DEFINE B == {n \in 0 .. m : n \notin A}
           f == [n \in B |-> n - 1]
<1>1. IsFiniteSet(B)
  <2>1. IsFiniteSet(0 .. m) /\ B \in SUBSET (0 .. m)
    BY FS_Interval
  <2> QED
    BY <2>1, FS_Subset
<1>2. f \in Injection(B, B \ {m})
  <2>1. ASSUME NEW n \in B
        PROVE  n - 1 \in B \ {m}
    <3>1. n \in Nat /\ n # 0 /\ n <= m
      OBVIOUS
    <3>2. n - 1 \in Nat /\ (n - 1) + 1 = n
      BY <3>1
    <3>3. n - 1 \notin A
      BY <3>2
    <3> QED
      BY <3>1, <3>2, <3>3
  <2>2. \A i, j \in B : f[i] = f[j] => i = j
    OBVIOUS
  <2> HIDE DEF B
  <2>3. f \in [B -> B \ {m}]
    BY <2>1
  <2> QED
    BY <2>2, <2>3 DEF Injection, IsInjective
<1>3. m \in B
  OBVIOUS
<1> HIDE DEF B, f
<1>4. IsFiniteSet(B \ {m}) /\ Cardinality(B \ {m}) = Cardinality(B) - 1 /\ Cardinality(B) \in Nat
  BY <1>1, <1>3, FS_RemoveElement, FS_CardinalityType
<1>5. Cardinality(B) <= Cardinality(B \ {m})
  BY <1>2, <1>4, FS_Injection
<1> QED
  BY <1>4, <1>5

(* What is listed is finite.                                               *)
LEMMA ListedIsFinite ==
  ASSUME NEW S, NEW D, IsFiniteSet(D), NEW f \in [D -> S], \A x \in S : \E i \in D : f[i] = x
  PROVE  IsFiniteSet(S)
<1>1. f \in Surjection(D, S)
  BY DEF Surjection
<1> QED
  BY <1>1, FS_Surjection

(* The elements below x.                                                   *)
Below(S, R, x) == {y \in S : <<y, x>> \in R}

(* R is a strict linear order of S.                                        *)
Linear(S, R) ==
  /\ \A x \in S : <<x, x>> \notin R
  /\ \A x, y, z \in S : <<x, y>> \in R /\ <<y, z>> \in R => <<x, z>> \in R
  /\ \A x, y \in S : x # y => <<x, y>> \in R \/ <<y, x>> \in R

(* More lies below what is above.                                          *)
LEMMA BelowGrows ==
  ASSUME NEW S, IsFiniteSet(S), NEW R, Linear(S, R), NEW x \in S, NEW y \in S, <<x, y>> \in R
  PROVE  /\ Cardinality(Below(S, R, x)) \in Nat /\ Cardinality(Below(S, R, y)) \in Nat
         /\ Cardinality(Below(S, R, x)) < Cardinality(Below(S, R, y))
<1> DEFINE A == Below(S, R, x)
           B == Below(S, R, y)
<1>1. A \subseteq B /\ x \in B /\ x \notin A
  BY DEF Below, Linear
<1>2. A \subseteq S /\ B \subseteq S
  BY DEF Below
<1> HIDE DEF A, B
<1>3. IsFiniteSet(A) /\ IsFiniteSet(B)
  BY <1>2, FS_Subset
<1>4. Cardinality(A) \in Nat /\ Cardinality(B) \in Nat
  BY <1>3, FS_CardinalityType
<1>5. Cardinality(A) <= Cardinality(B) /\ Cardinality(A) # Cardinality(B)
  BY <1>1, <1>3, FS_Subset
<1> QED
  BY <1>4, <1>5 DEF A, B

(* In a finite linear order every place is taken, once.                    *)
LEMMA Enumerated ==
  ASSUME NEW S, IsFiniteSet(S), NEW R, Linear(S, R)
  PROVE  LET n == Cardinality(S)
         IN \E at \in [1 .. n -> S] :
              /\ \A i \in 1 .. n : \A x \in S : Cardinality(Below(S, R, x)) = i - 1 <=> x = at[i]
              /\ \A x \in S : \E i \in 1 .. n : at[i] = x
              /\ \A i, j \in 1 .. n : i < j => <<at[i], at[j]>> \in R
<1> DEFINE n == Cardinality(S)
           rank == [x \in S |-> Cardinality(Below(S, R, x)) + 1]
<1>1. n \in Nat
  BY FS_CardinalityType
<1>2. ASSUME NEW x \in S
      PROVE  rank[x] \in 1 .. n
  <2> DEFINE A == Below(S, R, x)
  <2>1. A \subseteq S /\ x \notin A
    BY DEF Below, Linear
  <2> HIDE DEF A
  <2>2. IsFiniteSet(A) /\ Cardinality(A) <= n /\ Cardinality(A) # n
    BY <2>1, FS_Subset
  <2>3. Cardinality(A) \in Nat
    BY <2>2, FS_CardinalityType
  <2>4. rank[x] = Cardinality(A) + 1
    BY DEF A
  <2> HIDE DEF n, rank
  <2> QED
    BY <1>1, <2>2, <2>3, <2>4
<1>3. ASSUME NEW x \in S, NEW y \in S, <<x, y>> \in R
      PROVE  rank[x] < rank[y]
  BY <1>3, BelowGrows
<1>4. ASSUME NEW x \in S, NEW y \in S, rank[x] = rank[y]
      PROVE  x = y
  <2>1. rank[x] \in Int
    BY <1>1, <1>2
  <2>2. x = y \/ <<x, y>> \in R \/ <<y, x>> \in R
    BY DEF Linear
  <2> HIDE DEF rank
  <2>3. ~(rank[x] < rank[y]) /\ ~(rank[y] < rank[x])
    BY <1>4, <2>1
  <2> QED
    BY <1>3, <2>2, <2>3
<1>5. ASSUME NEW i \in 1 .. n
      PROVE  \E x \in S : rank[x] = i
  <2> SUFFICES ASSUME \A x \in S : rank[x] # i PROVE FALSE
    OBVIOUS
  <2> DEFINE T == (1 .. n) \ {i}
  <2>1. rank \in [S -> T]
    BY <1>2
  <2>2. IsFiniteSet(1 .. n) /\ Cardinality(1 .. n) = n
    BY <1>1, FS_Interval
  <2>3. IsFiniteSet(T) /\ Cardinality(T) = n - 1
    BY <2>2, FS_RemoveElement
  <2>4. Cardinality(T) < Cardinality(S)
    BY <1>1, <2>3
  <2> HIDE DEF T, rank
  <2>5. \E x, y \in S : x # y /\ rank[x] = rank[y]
    BY <2>1, <2>3, <2>4, FS_PigeonHole
  <2> QED
    BY <1>4, <2>5
<1> DEFINE at == [i \in 1 .. n |-> CHOOSE x \in S : rank[x] = i]
<1>6. ASSUME NEW i \in 1 .. n
      PROVE  at[i] \in S /\ rank[at[i]] = i
  <2> HIDE DEF rank
  <2> QED
    BY <1>5
<1>7. at \in [1 .. n -> S]
  BY <1>6
<1>8. \A i \in 1 .. n : \A x \in S : Cardinality(Below(S, R, x)) = i - 1 <=> x = at[i]
  <2> SUFFICES ASSUME NEW i \in 1 .. n, NEW x \in S
               PROVE  Cardinality(Below(S, R, x)) = i - 1 <=> x = at[i]
    OBVIOUS
  <2>1. Cardinality(Below(S, R, x)) = i - 1 <=> rank[x] = i
    <3>1. IsFiniteSet(Below(S, R, x))
      BY FS_Subset DEF Below
    <3>2. Cardinality(Below(S, R, x)) \in Nat
      BY <3>1, FS_CardinalityType
    <3> QED
      BY <1>1, <3>2
  <2> HIDE DEF at, rank
  <2> QED
    BY <1>4, <1>6, <2>1
<1>9. ASSUME NEW x \in S
      PROVE  \E i \in 1 .. n : at[i] = x
  <2>1. rank[x] \in 1 .. n
    BY <1>2
  <2> HIDE DEF at, rank
  <2> QED
    BY <1>4, <1>6, <2>1
<1>10. ASSUME NEW i \in 1 .. n, NEW j \in 1 .. n, i < j
       PROVE  <<at[i], at[j]>> \in R
  <2>1. at[i] \in S /\ at[j] \in S /\ rank[at[i]] = i /\ rank[at[j]] = j
    BY <1>6
  <2>2. at[i] = at[j] \/ <<at[i], at[j]>> \in R \/ <<at[j], at[i]>> \in R
    BY <2>1 DEF Linear
  <2> HIDE DEF at, rank
  <2>3. rank[at[i]] # rank[at[j]] /\ ~(rank[at[j]] < rank[at[i]])
    BY <1>1, <1>10, <2>1
  <2> QED
    BY <1>3, <2>1, <2>2, <2>3
<1> HIDE DEF at
<1> QED
  BY <1>7, <1>8, <1>9, <1>10
------------------------------------------------------------------------------
(* Lists.                                                                  *)

(* Evaluating a list does not change it.                                   *)
LEMMA EvaluatedIs ==
  ASSUME NEW X, NEW s \in Seq(X)
  PROVE  Evaluated(s) = s
  BY DEF Evaluated

(* t is s with x at its end.                                               *)
IsAppended(t, s, x) ==
  Len(t) = Len(s) + 1 /\ t[Len(s) + 1] = x /\ \A i \in 1 .. Len(s) : t[i] = s[i]

(* A list with one more element at its end.                                *)
LEMMA AppendIs ==
  ASSUME NEW X, NEW s \in Seq(X), NEW x \in X
  PROVE  Append(s, x) \in Seq(X) /\ IsAppended(Append(s, x), s, x)
  BY DEF IsAppended

(* Six and one are seven.                                                  *)
LEMMA SevenIs ==
  ASSUME NEW X, NEW a \in X, NEW b \in X, NEW c \in X, NEW d \in X, NEW e \in X, NEW f \in X, NEW g \in X
  PROVE  Append(<<a, b, c, d, e, f>>, g) = <<a, b, c, d, e, f, g>>
<1> DEFINE s == <<a, b, c, d, e, f>>
           t == <<a, b, c, d, e, f, g>>
           q == Append(s, g)
<1>1. s \in Seq(X) /\ Len(s) = 6 /\ s[1] = a /\ s[2] = b /\ s[3] = c /\ s[4] = d /\ s[5] = e /\ s[6] = f
  OBVIOUS
<1>2. /\ t \in Seq(X) /\ Len(t) = 7
      /\ t[1] = a /\ t[2] = b /\ t[3] = c /\ t[4] = d /\ t[5] = e /\ t[6] = f /\ t[7] = g
  OBVIOUS
<1> HIDE DEF s, t
<1>3. q \in Seq(X) /\ IsAppended(q, s, g)
  BY <1>1, AppendIs
<1> HIDE DEF q
<1>4. q[7] = g /\ Len(q) = 7
  BY <1>1, <1>3 DEF IsAppended
<1>5. ASSUME NEW i \in 1 .. 7
      PROVE  q[i] = t[i]
  <2>1. i = 1 \/ i = 2 \/ i = 3 \/ i = 4 \/ i = 5 \/ i = 6 \/ i = 7
    OBVIOUS
  <2> QED
    BY <1>1, <1>2, <1>3, <1>4, <2>1 DEF IsAppended
<1>6. q = t
  BY <1>2, <1>3, <1>4, <1>5
<1> QED
  BY <1>6 DEF s, t, q

(* A function of the places of a list is a list.                           *)
LEMMA ListIs ==
  ASSUME NEW n \in Nat, NEW X, NEW s \in [1 .. n -> X]
  PROVE  s \in Seq(X) /\ Len(s) = n /\ DOMAIN s = 1 .. n
  OBVIOUS

(* The elements of a list are what it is a list of.                        *)
LEMMA ElementsAre ==
  ASSUME NEW X, NEW s \in Seq(X)
  PROVE  /\ s \in Seq(ElementsOf(s)) /\ ElementsOf(s) \subseteq X /\ DOMAIN s = 1 .. Len(s) /\ Len(s) \in Nat
         /\ \A x \in ElementsOf(s) : \E i \in 1 .. Len(s) : s[i] = x
         /\ \A i \in 1 .. Len(s) : s[i] \in ElementsOf(s)
  BY DEF ElementsOf

(* "at" is the place in s of each element that is picked.                  *)
PickedAt(s, S, at) ==
  LET n == Cardinality(S) IN
  /\ n \in Nat /\ at \in [1 .. n -> S]
  /\ Picked(s, S) = [i \in 1 .. n |-> s[at[i]]] /\ Len(Picked(s, S)) = n
  /\ \A j \in S : \E i \in 1 .. n : at[i] = j
  /\ \A i, j \in 1 .. n : i < j => at[i] < at[j]

(* What is picked of a list keeps its order.                               *)
LEMMA PickedIs ==
  ASSUME NEW X, NEW s \in Seq(X), NEW S \in SUBSET DOMAIN s
  PROVE  Picked(s, S) \in Seq(X) /\ \E at : PickedAt(s, S, at)
<1> DEFINE n == Cardinality(S)
           R == {r \in S \X S : r[1] < r[2]}
<1>1. S \subseteq 1 .. Len(s) /\ Len(s) \in Nat
  OBVIOUS
<1>2. IsFiniteSet(S) /\ n \in Nat
  <2>1. IsFiniteSet(1 .. Len(s))
    BY <1>1, FS_Interval
  <2>2. IsFiniteSet(S)
    BY <1>1, <2>1, FS_Subset
  <2> QED
    BY <2>2, FS_CardinalityType
<1>3. \A i, j \in S : <<i, j>> \in R <=> i < j
  OBVIOUS
<1> HIDE DEF R
<1>4. Linear(S, R)
  BY <1>1, <1>3 DEF Linear
<1>5. PICK at \in [1 .. n -> S] :
        /\ \A i \in 1 .. n : \A x \in S : Cardinality(Below(S, R, x)) = i - 1 <=> x = at[i]
        /\ \A x \in S : \E i \in 1 .. n : at[i] = x
        /\ \A i, j \in 1 .. n : i < j => <<at[i], at[j]>> \in R
  BY <1>2, <1>4, Enumerated
<1>6. ASSUME NEW j \in S
      PROVE  {k \in S : k < j} = Below(S, R, j)
  BY <1>3 DEF Below
<1> DEFINE pick(i) == CHOOSE j \in S : Cardinality({k \in S : k < j}) = i - 1
<1>7. ASSUME NEW i \in 1 .. n
      PROVE  pick(i) = at[i]
  <2>1. \A j \in S : Cardinality({k \in S : k < j}) = i - 1 <=> j = at[i]
    BY <1>5, <1>6
  <2>2. at[i] \in S
    BY <1>5
  <2> QED
    BY <2>1, <2>2
<1> DEFINE p == [i \in 1 .. n |-> s[at[i]]]
<1>8. Picked(s, S) = Evaluated(p)
  <2> DEFINE q == [i \in 1 .. n |-> s[pick(i)]]
  <2>1. Picked(s, S) = Evaluated(q)
    BY DEF Picked
  <2> HIDE DEF pick
  <2>2. q = p
    BY <1>7
  <2> QED
    BY <2>1, <2>2
<1>9. p \in Seq(X) /\ Len(p) = n
  <2>1. p \in [1 .. n -> X]
    BY <1>5
  <2> HIDE DEF p, n
  <2> QED
    BY <1>2, <2>1
<1>10. Picked(s, S) = p
  <2> HIDE DEF p
  <2> QED
    BY <1>8, <1>9, EvaluatedIs
<1>11. \A i, j \in 1 .. n : i < j => at[i] < at[j]
  BY <1>3, <1>5
<1>12. PickedAt(s, S, at)
  BY <1>2, <1>5, <1>9, <1>10, <1>11 DEF PickedAt
<1> QED
  BY <1>9, <1>10, <1>12

(* One place.                                                              *)
LEMMA PickOne ==
  ASSUME NEW X, NEW s \in Seq(X), NEW i \in DOMAIN s
  PROVE  Len(Picked(s, {i})) = 1 /\ Picked(s, {i})[1] = s[i] /\ Picked(s, {i}) # <<>>
<1>1. Cardinality({i}) = 1
  BY FS_Singleton
<1>2. PICK at \in [1 .. 1 -> {i}] : Picked(s, {i}) = [j \in 1 .. 1 |-> s[at[j]]] /\ Len(Picked(s, {i})) = 1
  <2> DEFINE S == {i}
  <2>1. S \in SUBSET DOMAIN s /\ Cardinality(S) = 1
    BY <1>1
  <2> HIDE DEF S
  <2>2. PICK at : PickedAt(s, S, at)
    BY <2>1, PickedIs
  <2>3. at \in [1 .. 1 -> S] /\ Picked(s, S) = [j \in 1 .. 1 |-> s[at[j]]] /\ Len(Picked(s, S)) = 1
    BY <2>1, <2>2 DEF PickedAt
  <2> QED
    BY <2>3 DEF S
<1>3. Picked(s, {i})[1] = s[i]
  BY <1>2
<1> QED
  BY <1>2, <1>3

(* An element of a list.                                                   *)
LEMMA ElementIs ==
  ASSUME NEW X, NEW s \in Seq(X), NEW i \in DOMAIN s
  PROVE  s[i] \in X
  OBVIOUS

(* The first place of a list is below all others.                          *)
LEMMA FirstIs ==
  ASSUME NEW X, NEW s \in Seq(X), s # <<>>
  PROVE  1 \in 1 .. Len(s) /\ s[1] \in ElementsOf(s)
  BY DEF ElementsOf

(* A code that is not there.                                               *)
LEMMA NoCode ==
  ASSUME NEW condition, NEW code
  PROVE  If(condition, code) = {} <=> ~condition
  BY DEF If

(* Nothing is in the union of two sets.                                    *)
LEMMA BothEmpty ==
  ASSUME NEW A, NEW B
  PROVE  A \cup B = {} <=> A = {} /\ B = {}
  OBVIOUS

------------------------------------------------------------------------------
(* The audit.                                                              *)

(* What a selection and a manifest are as values, whatever they say.       *)
IsSelection(s) == s = [role |-> s.role, key |-> s.key, id |-> s.id, digest |-> s.digest]

IsManifest(m) ==
  /\ m = [input |-> m.input, profile |-> m.profile, runSet |-> m.runSet, selections |-> m.selections]
  /\ m.selections \in Seq(ElementsOf(m.selections))
  /\ \A s \in ElementsOf(m.selections) : IsSelection(s)

(* The selection, the record and the cell at each place agree, and the run *)
(* set has no other record.                                                *)
AgreesAt(m, expected, store, i) ==
  LET s == m.selections[i]  r == store[s.id]  e == expected[i] IN
  /\ s.id \in DOMAIN store /\ s.key = e.cell.key /\ s.role = e.cell.role /\ r.digest = s.digest
  /\ r.body.runSet = m.runSet /\ r.body.input = m.input /\ MatchesExpected(r, e) /\ e.profile = m.profile

Agrees(m, expected, store) ==
  /\ ValidManifest(m) /\ ValidExpected(expected) /\ Lists(store) /\ Len(m.selections) = Len(expected)
  /\ \A i \in DOMAIN expected : AgreesAt(m, expected, store, i)
  /\ \A id \in DOMAIN store :
       store[id].body.runSet = m.runSet => \E i \in DOMAIN expected : m.selections[i].id = id

(* No code is left: none at the header, at a cell, of a record, of the     *)
(* history.                                                                *)
LEMMA NoCodes ==
  ASSUME NEW m, NEW expected, NEW store
  PROVE  AuditCodes(m, expected, store) = {} <=>
           /\ HeaderCodes(m, expected) = {} /\ HistoryCodes(m, store) = {}
           /\ \A i \in DOMAIN expected : CellCodes(m, expected, i) = {}
           /\ \A i \in DOMAIN m.selections : RecordCodes(m, expected, store, i) = {}
<1> DEFINE A == {CellCodes(m, expected, i) : i \in DOMAIN expected}
           B == {RecordCodes(m, expected, store, i) : i \in DOMAIN m.selections}
<1>1. (UNION A = {}) <=> \A x \in A : x = {}
  OBVIOUS
<1>2. (UNION B = {}) <=> \A x \in B : x = {}
  OBVIOUS
<1>3. AuditCodes(m, expected, store) = HeaderCodes(m, expected) \cup (UNION A) \cup (UNION B) \cup HistoryCodes(m, store)
  BY DEF AuditCodes
<1>4. AuditCodes(m, expected, store) = {} <=>
        HeaderCodes(m, expected) = {} /\ (UNION A) = {} /\ (UNION B) = {} /\ HistoryCodes(m, store) = {}
  <2> DEFINE H == HeaderCodes(m, expected)
             Y == HistoryCodes(m, store)
             UA == UNION A
             UB == UNION B
  <2> HIDE DEF A, B
  <2>1. AuditCodes(m, expected, store) = H \cup UA \cup UB \cup Y
    BY <1>3
  <2> HIDE DEF H, Y, UA, UB
  <2>2. AuditCodes(m, expected, store) = {} <=> H = {} /\ UA = {} /\ UB = {} /\ Y = {}
    BY <2>1, BothEmpty
  <2> QED
    BY <2>2 DEF H, Y, UA, UB
<1>5. (\A x \in A : x = {}) <=> \A i \in DOMAIN expected : CellCodes(m, expected, i) = {}
  OBVIOUS
<1>6. (\A x \in B : x = {}) <=> \A i \in DOMAIN m.selections : RecordCodes(m, expected, store, i) = {}
  OBVIOUS
<1> HIDE DEF A, B
<1> QED
  BY <1>1, <1>2, <1>4, <1>5, <1>6

(* The header has no code.                                                 *)
LEMMA NoHeaderCodes ==
  ASSUME NEW m, NEW expected
  PROVE  HeaderCodes(m, expected) = {} <=>
           /\ ValidExpected(expected) /\ ValidManifest(m) /\ (expected # <<>> => m.profile = expected[1].profile)
           /\ m.input \in Input /\ Distinct([i \in DOMAIN m.selections |-> m.selections[i].id])
           /\ \A s \in ElementsOf(m.selections) : ExpectedAt(expected, s.key) # {}
           /\ Len(m.selections) = Len(expected)
  BY DEF HeaderCodes, If

(* The selections with the key of a cell.                                  *)
Selected(m, key) == Picked(m.selections, {j \in DOMAIN m.selections : m.selections[j].key = key})

(* A cell has no code.                                                     *)
LEMMA NoCellCodes ==
  ASSUME NEW m, NEW expected, NEW i
  PROVE  CellCodes(m, expected, i) = {} <=>
           /\ Selected(m, expected[i].cell.key) # <<>> /\ ~(Len(Selected(m, expected[i].cell.key)) > 1)
           /\ Selected(m, expected[i].cell.key)[1].role = expected[i].cell.role /\ ~(i > Len(m.selections))
           /\ m.selections[i].key = expected[i].cell.key /\ m.selections[i].role = expected[i].cell.role
<1> DEFINE found == Selected(m, expected[i].cell.key)
<1>1. CellCodes(m, expected, i) =
        IF found = <<>> THEN {"cell_missing"}
        ELSE If(Len(found) > 1, "cell_duplicate")
             \cup If(found[1].role # expected[i].cell.role, "cell_mismatch")
             \cup If(\/ i > Len(m.selections)
                     \/ m.selections[i].key # expected[i].cell.key \/ m.selections[i].role # expected[i].cell.role,
                     "selection_order_mismatch")
  BY DEF CellCodes, Selected
<1> HIDE DEF found
<1>2. CellCodes(m, expected, i) = {} <=>
        /\ found # <<>> /\ ~(Len(found) > 1) /\ found[1].role = expected[i].cell.role /\ ~(i > Len(m.selections))
        /\ m.selections[i].key = expected[i].cell.key /\ m.selections[i].role = expected[i].cell.role
  BY <1>1 DEF If
<1> QED
  BY <1>2 DEF found

(* The record at a place is what the selection, the header and the         *)
(* definition say.                                                         *)
RecordStands(m, expected, store, i) ==
  LET s == m.selections[i]  r == store[s.id] IN
  /\ s.id \in DOMAIN store /\ Loads(store, s.id) /\ r.body.id = s.id /\ r.digest = s.digest
  /\ r.body.runSet = m.runSet /\ r.body.input = m.input /\ r.body.profile = m.profile
  /\ r.body.status = "passed" /\ r.body.key = s.key /\ r.body.role = s.role
  /\ \A e \in ExpectedAt(expected, s.key) : ChecksMatch(r.body, e) /\ MatchesExpected(r, e)
  /\ ~\E j \in 1 .. i - 1 : m.selections[j].key = s.key /\ Loads(store, m.selections[j].id)

(* A selected record has no code.                                          *)
LEMMA NoRecordCodes ==
  ASSUME NEW m, NEW expected, NEW store, NEW i
  PROVE  RecordCodes(m, expected, store, i) = {} <=> RecordStands(m, expected, store, i)
<1> DEFINE s == m.selections[i]
           r == store[s.id]
           Of(e) == If(~ChecksMatch(r.body, e), "assertion_mismatch")
                    \cup If(~MatchesExpected(r, e), IF Portable(r.body) THEN "definition_mismatch" ELSE "evidence_invalid")
           U == {Of(e) : e \in ExpectedAt(expected, s.key)}
           again == \E j \in 1 .. i - 1 : m.selections[j].key = s.key /\ Loads(store, m.selections[j].id)
<1>1. RecordCodes(m, expected, store, i) =
        IF s.id \notin DOMAIN store THEN {"evidence_missing"}
        ELSE IF ~Loads(store, s.id) THEN {"evidence_invalid"}
        ELSE If(r.body.id # s.id, "evidence_invalid")
             \cup If(r.digest # s.digest, "content_digest_mismatch")
             \cup If(r.body.runSet # m.runSet, "run_set_mismatch")
             \cup If(r.body.input # m.input, "input_digest_mismatch")
             \cup If(r.body.profile # m.profile, "profile_mismatch")
             \cup If(r.body.status # "passed", "status_not_passed")
             \cup (UNION U)
             \cup If(r.body.key # s.key \/ r.body.role # s.role, "cell_mismatch")
             \cup If(again, "cell_duplicate")
  BY DEF RecordCodes, Get
<1>2. (UNION U = {}) <=> \A x \in U : x = {}
  OBVIOUS
<1>3. (\A x \in U : x = {}) <=> \A e \in ExpectedAt(expected, s.key) : Of(e) = {}
  OBVIOUS
<1>4. \A e : Of(e) = {} <=> ChecksMatch(r.body, e) /\ MatchesExpected(r, e)
  BY DEF If
<1>5. (UNION U = {}) <=> \A e \in ExpectedAt(expected, s.key) : ChecksMatch(r.body, e) /\ MatchesExpected(r, e)
  <2> HIDE DEF U, Of
  <2> QED
    BY <1>2, <1>3, <1>4
<1> HIDE DEF U, again
<1>6. RecordCodes(m, expected, store, i) = {} <=>
        /\ s.id \in DOMAIN store /\ Loads(store, s.id) /\ r.body.id = s.id /\ r.digest = s.digest
        /\ r.body.runSet = m.runSet /\ r.body.input = m.input /\ r.body.profile = m.profile
        /\ r.body.status = "passed" /\ r.body.key = s.key /\ r.body.role = s.role
        /\ (UNION U) = {} /\ ~again
  <2> DEFINE bad == r.body.key # s.key \/ r.body.role # s.role
             c1 == If(r.body.id # s.id, "evidence_invalid")
             c2 == If(r.digest # s.digest, "content_digest_mismatch")
             c3 == If(r.body.runSet # m.runSet, "run_set_mismatch")
             c4 == If(r.body.input # m.input, "input_digest_mismatch")
             c5 == If(r.body.profile # m.profile, "profile_mismatch")
             c6 == If(r.body.status # "passed", "status_not_passed")
             c7 == UNION U
             c8 == If(bad, "cell_mismatch")
             c9 == If(again, "cell_duplicate")
  <2>1. RecordCodes(m, expected, store, i) =
          IF s.id \notin DOMAIN store THEN {"evidence_missing"}
          ELSE IF ~Loads(store, s.id) THEN {"evidence_invalid"}
          ELSE c1 \cup c2 \cup c3 \cup c4 \cup c5 \cup c6 \cup c7 \cup c8 \cup c9
    BY <1>1, Zenon
  <2>2. /\ c1 = {} <=> ~(r.body.id # s.id)
        /\ c2 = {} <=> ~(r.digest # s.digest)
        /\ c3 = {} <=> ~(r.body.runSet # m.runSet)
        /\ c4 = {} <=> ~(r.body.input # m.input)
        /\ c5 = {} <=> ~(r.body.profile # m.profile)
        /\ c6 = {} <=> ~(r.body.status # "passed")
        /\ c8 = {} <=> ~bad
        /\ c9 = {} <=> ~again
    BY NoCode
  <2> HIDE DEF s, r, bad, c1, c2, c3, c4, c5, c6, c7, c8, c9
  <2>3. RecordCodes(m, expected, store, i) = {} <=>
          /\ s.id \in DOMAIN store /\ Loads(store, s.id)
          /\ c1 = {} /\ c2 = {} /\ c3 = {} /\ c4 = {} /\ c5 = {} /\ c6 = {} /\ c7 = {} /\ c8 = {} /\ c9 = {}
    BY <2>1
  <2> QED
    BY <2>2, <2>3 DEF bad, c7
<1> QED
  BY <1>5, <1>6 DEF again, RecordStands

(* The records are those that are selected, cell by cell.                  *)
AreSelected(records, m, expected, store) ==
  /\ Len(records) = Len(expected) /\ DOMAIN records = DOMAIN expected
  /\ \A i \in DOMAIN expected : records[i] = store[m.selections[i].id]

(* The records of an audited snapshot are the selected ones.               *)
LEMMA AuditedRecords ==
  ASSUME NEW m, NEW X, NEW expected \in Seq(X), NEW store
  PROVE  AreSelected(Audited(m, expected, store).records, m, expected, store)
<1> DEFINE at == [i \in 1 .. Len(expected) |-> store[m.selections[i].id]]
           Y == {at[i] : i \in 1 .. Len(expected)}
<1>1. DOMAIN expected = 1 .. Len(expected) /\ Len(expected) \in Nat
  OBVIOUS
<1>2. Audited(m, expected, store).records = Evaluated(at)
  BY <1>1, Zenon DEF Audited, Get
<1>3. at \in [1 .. Len(expected) -> Y]
  OBVIOUS
<1>5. \A i \in 1 .. Len(expected) : at[i] = store[m.selections[i].id]
  OBVIOUS
<1> HIDE DEF at, Y
<1>6. at \in Seq(Y) /\ Len(at) = Len(expected) /\ DOMAIN at = 1 .. Len(expected)
  BY <1>1, <1>3, ListIs
<1>7. Audited(m, expected, store).records = at
  BY <1>2, <1>6, EvaluatedIs
<1> QED
  BY <1>1, <1>5, <1>6, <1>7 DEF AreSelected

(* The audit accepts what agrees, and nothing else.                        *)
LEMMA AuditIsAgreement ==
  ASSUME NEW m, IsManifest(m), NEW X, NEW expected \in Seq(X), NEW store
  PROVE  Audit(m, expected, store) = {} <=> Agrees(m, expected, store)
<1> DEFINE sels == m.selections
           n == Len(expected)
           rec(i) == store[sels[i].id]
<1>1. sels \in Seq(ElementsOf(sels)) /\ DOMAIN sels = 1 .. Len(sels) /\ Len(sels) \in Nat
  BY DEF IsManifest
<1>2. DOMAIN expected = 1 .. n /\ n \in Nat /\ expected \in Seq(X)
  OBVIOUS
<1>3. Audit(m, expected, store) = {} <=>
        AuditCodes(m, expected, store) = {} /\ Bound(m, expected, Audited(m, expected, store).records)
  BY DEF Audit, If
<1>4. ASSUME AuditCodes(m, expected, store) = {}
      PROVE  Agrees(m, expected, store)
  <2>1. /\ HeaderCodes(m, expected) = {} /\ HistoryCodes(m, store) = {}
        /\ \A i \in DOMAIN expected : CellCodes(m, expected, i) = {}
        /\ \A i \in DOMAIN sels : RecordCodes(m, expected, store, i) = {}
    BY <1>4, NoCodes
  <2>2. /\ ValidExpected(expected) /\ ValidManifest(m) /\ (expected # <<>> => m.profile = expected[1].profile)
        /\ Len(sels) = n
    BY <2>1, NoHeaderCodes
  <2>3. Lists(store) /\ \A id \in DOMAIN store :
                          store[id].body.runSet = m.runSet => \E s \in ElementsOf(sels) : s.id = id
    BY <2>1 DEF HistoryCodes, If, Get
  <2>4. DOMAIN sels = DOMAIN expected
    BY <1>1, <1>2, <2>2
  <2>5. ASSUME NEW i \in DOMAIN expected
        PROVE  AgreesAt(m, expected, store, i)
    <3>1. sels[i].key = expected[i].cell.key /\ sels[i].role = expected[i].cell.role
      <4>1. CellCodes(m, expected, i) = {}
        BY <2>1
      <4> QED
        BY <4>1, NoCellCodes
    <3>2. /\ sels[i].id \in DOMAIN store /\ rec(i).digest = sels[i].digest
          /\ rec(i).body.runSet = m.runSet /\ rec(i).body.input = m.input
          /\ \A e \in ExpectedAt(expected, sels[i].key) : MatchesExpected(rec(i), e)
      <4>1. RecordCodes(m, expected, store, i) = {}
        BY <2>1, <2>4
      <4>2. RecordStands(m, expected, store, i)
        BY <4>1, NoRecordCodes
      <4> QED
        BY <4>2 DEF RecordStands
    <3>3. expected[i] \in ExpectedAt(expected, sels[i].key)
      BY <3>1 DEF ExpectedAt, ElementsOf
    <3>4. expected[i].profile = m.profile
      BY <2>2 DEF ValidExpected, ElementsOf
    <3> QED
      BY <3>1, <3>2, <3>3, <3>4 DEF AgreesAt
  <2>6. ASSUME NEW id \in DOMAIN store, store[id].body.runSet = m.runSet
        PROVE  \E i \in DOMAIN expected : sels[i].id = id
    BY <2>3, <2>4, <2>6 DEF ElementsOf
  <2> QED
    BY <2>2, <2>3, <2>5, <2>6 DEF Agrees
<1>5. ASSUME Agrees(m, expected, store)
      PROVE  AuditCodes(m, expected, store) = {} /\ Bound(m, expected, Audited(m, expected, store).records)
  <2>1. /\ ValidManifest(m) /\ ValidExpected(expected) /\ Lists(store) /\ Len(sels) = n
        /\ \A i \in DOMAIN expected : AgreesAt(m, expected, store, i)
        /\ \A id \in DOMAIN store :
             store[id].body.runSet = m.runSet => \E i \in DOMAIN expected : sels[i].id = id
    BY <1>5 DEF Agrees
  <2>2. DOMAIN sels = DOMAIN expected
    BY <1>1, <1>2, <2>1
  <2>3. ASSUME NEW i \in DOMAIN expected
        PROVE  /\ sels[i].id \in DOMAIN store /\ sels[i].key = expected[i].cell.key
               /\ sels[i].role = expected[i].cell.role /\ rec(i).digest = sels[i].digest
               /\ rec(i).body.runSet = m.runSet /\ rec(i).body.input = m.input
               /\ MatchesExpected(rec(i), expected[i]) /\ expected[i].profile = m.profile
    BY <2>1 DEF AgreesAt
  <2>4. /\ \A i, j \in DOMAIN sels : sels[i].key = sels[j].key => i = j
        /\ \A i, j \in DOMAIN sels : sels[i].id = sels[j].id => i = j
        /\ m.input \in Input
    BY <2>1 DEF ValidManifest, Distinct
  <2>5. \A i, j \in DOMAIN expected : expected[i].cell.key = expected[j].cell.key => i = j
    BY <2>1 DEF ValidExpected, Distinct
  <2>6. \A id \in DOMAIN store : Loads(store, id)
    BY <2>1 DEF Lists
  <2>7. HeaderCodes(m, expected) = {}
    <3>1. expected # <<>> => m.profile = expected[1].profile
      BY <1>2, <2>3
    <3>2. Distinct([i \in DOMAIN sels |-> sels[i].id])
      BY <2>4 DEF Distinct
    <3>3. ASSUME NEW s \in ElementsOf(sels)
          PROVE  ExpectedAt(expected, s.key) # {}
      <4>1. PICK i \in DOMAIN expected : s = sels[i]
        BY <2>2 DEF ElementsOf
      <4> QED
        BY <2>3, <4>1 DEF ExpectedAt, ElementsOf
    <3> QED
      BY <2>1, <2>4, <3>1, <3>2, <3>3, NoHeaderCodes
  <2>8. ASSUME NEW i \in DOMAIN expected
        PROVE  CellCodes(m, expected, i) = {}
    <3>1. {j \in DOMAIN sels : sels[j].key = expected[i].cell.key} = {i}
      BY <2>2, <2>3, <2>4
    <3>2. Len(Picked(sels, {i})) = 1 /\ Picked(sels, {i})[1] = sels[i] /\ Picked(sels, {i}) # <<>>
      BY <1>1, <2>2, PickOne
    <3>3. ~(i > Len(sels))
      BY <1>2, <2>1
    <3> DEFINE found == Selected(m, expected[i].cell.key)
    <3>4. found = Picked(sels, {i})
      BY <3>1, Zenon DEF Selected
    <3>5. found # <<>> /\ ~(Len(found) > 1) /\ found[1] = sels[i]
      <4> DEFINE one == Picked(sels, {i})
      <4>1. Len(one) = 1 /\ one[1] = sels[i] /\ one # <<>> /\ found = one
        BY <3>2, <3>4, Zenon
      <4> HIDE DEF found, one, sels
      <4> QED
        BY <4>1
    <3>6. found[1].role = expected[i].cell.role
      BY <2>3, <3>5
    <3> QED
      BY <2>3, <3>3, <3>5, <3>6, NoCellCodes
  <2>9. ASSUME NEW i \in DOMAIN expected
        PROVE  RecordCodes(m, expected, store, i) = {}
    <3>1. Loads(store, sels[i].id) /\ rec(i).body.id = sels[i].id
      BY <2>3, <2>6 DEF Loads
    <3>2. /\ rec(i).body.status = "passed" /\ rec(i).body.key = sels[i].key /\ rec(i).body.role = sels[i].role
          /\ rec(i).body.profile = m.profile
      BY <2>3 DEF MatchesExpected
    <3>3. ASSUME NEW e \in ExpectedAt(expected, sels[i].key)
          PROVE  ChecksMatch(rec(i).body, e) /\ MatchesExpected(rec(i), e)
      <4>1. e = expected[i]
        <5>1. PICK k \in DOMAIN expected : e = expected[k] /\ expected[k].cell.key = sels[i].key
          BY DEF ExpectedAt, ElementsOf
        <5> QED
          BY <2>3, <2>5, <5>1
      <4> QED
        BY <2>3, <4>1 DEF MatchesExpected
    <3>4. ~\E j \in 1 .. i - 1 : sels[j].key = sels[i].key /\ Loads(store, sels[j].id)
      BY <1>2, <2>2, <2>4
    <3> QED
      BY <2>3, <3>1, <3>2, <3>3, <3>4, NoRecordCodes DEF RecordStands
  <2>10. HistoryCodes(m, store) = {}
    BY <2>1, <2>2 DEF HistoryCodes, If, Get, ElementsOf
  <2>11. Bound(m, expected, Audited(m, expected, store).records)
    <3> DEFINE records == Audited(m, expected, store).records
    <3>1. Len(records) = n /\ \A i \in DOMAIN expected : records[i] = rec(i)
      <4>1. AreSelected(records, m, expected, store)
        BY AuditedRecords
      <4> QED
        BY <4>1, Zenon DEF AreSelected
    <3>2. ASSUME NEW i \in DOMAIN expected
          PROVE  SelectionOf(rec(i)) = sels[i]
      <4>1. sels[i] = [role |-> sels[i].role, key |-> sels[i].key, id |-> sels[i].id, digest |-> sels[i].digest]
        BY <2>2 DEF IsManifest, IsSelection, ElementsOf
      <4>2. rec(i).body.id = sels[i].id /\ rec(i).body.key = sels[i].key /\ rec(i).body.role = sels[i].role
        BY <2>3, <2>6 DEF Loads, MatchesExpected
      <4> QED
        BY <2>3, <4>1, <4>2, Zenon DEF SelectionOf
    <3>3. \A i \in DOMAIN expected : rec(i).body.profile = m.profile
      BY <2>3 DEF MatchesExpected
    <3> HIDE DEF records
    <3> QED
      BY <2>1, <2>3, <3>1, <3>2, <3>3 DEF Bound, records
  <2> QED
    BY <2>2, <2>7, <2>8, <2>9, <2>10, <2>11, NoCodes
<1> QED
  BY <1>3, <1>4, <1>5

(* The records of a run set.                                               *)
Current(store, runSet) == {r \in ElementsOf(store) : r.body.runSet = runSet}

(* For each cell the one record with its key.                              *)
LEMMA TheRecord ==
  ASSUME NEW current, NEW e, NEW r \in current, r.body.key = e.cell.key,
         \A q \in current : q.body.key = e.cell.key => q = r
  PROVE  RecordFor(current, e) = r
  BY DEF RecordFor

(* The selections of a manifest that was built.                            *)
LEMMA BuiltSelections ==
  ASSUME NEW input, NEW X, NEW expected \in Seq(X), NEW current
  PROVE  Manifest(input, expected, current).selections
           = [i \in 1 .. Len(expected) |-> SelectionOf(RecordFor(current, expected[i]))]
<1> DEFINE at == [i \in 1 .. Len(expected) |-> SelectionOf(RecordFor(current, expected[i]))]
           Y == {at[i] : i \in 1 .. Len(expected)}
<1>1. DOMAIN expected = 1 .. Len(expected) /\ Len(expected) \in Nat
  OBVIOUS
<1>2. Manifest(input, expected, current).selections = Evaluated(at)
  BY <1>1, Zenon DEF Manifest
<1>3. at \in [1 .. Len(expected) -> Y]
  OBVIOUS
<1> HIDE DEF at, Y
<1>4. at \in Seq(Y)
  BY <1>1, <1>3, ListIs
<1>5. Manifest(input, expected, current).selections = at
  BY <1>2, <1>4, EvaluatedIs
<1> QED
  BY <1>5 DEF at

(* What agrees is what Build makes of the records of its run set.          *)
LEMMA AgreedIsBuilt ==
  ASSUME NEW m, IsManifest(m), NEW X, NEW expected \in Seq(X), NEW store, Agrees(m, expected, store)
  PROVE  /\ Buildable(m.input, expected, Current(store, m.runSet))
         /\ Manifest(m.input, expected, Current(store, m.runSet)) = m
<1> DEFINE sels == m.selections
           n == Len(expected)
           current == Current(store, m.runSet)
           f == [i \in 1 .. n |-> store[sels[i].id]]
<1>1. DOMAIN expected = 1 .. n /\ n \in Nat /\ sels \in Seq(ElementsOf(sels)) /\ DOMAIN sels = 1 .. n
  <2>1. Len(sels) = n /\ sels \in Seq(ElementsOf(sels))
    BY DEF Agrees, IsManifest
  <2> QED
    BY <2>1
<1>2. /\ ValidManifest(m) /\ ValidExpected(expected) /\ Lists(store)
      /\ \A i \in 1 .. n : AgreesAt(m, expected, store, i)
      /\ \A id \in DOMAIN store : store[id].body.runSet = m.runSet => \E i \in 1 .. n : sels[i].id = id
  BY <1>1, Zenon DEF Agrees
<1>3. ASSUME NEW i \in 1 .. n
      PROVE  /\ sels[i].id \in DOMAIN store /\ f[i] = store[sels[i].id] /\ f[i].body.id = sels[i].id
             /\ Encodable(f[i]) /\ sels[i].key = expected[i].cell.key /\ sels[i].role = expected[i].cell.role
             /\ f[i].digest = sels[i].digest /\ f[i].body.runSet = m.runSet /\ f[i].body.input = m.input
             /\ MatchesExpected(f[i], expected[i]) /\ expected[i].profile = m.profile
             /\ f[i].body.key = expected[i].cell.key /\ f[i].body.role = expected[i].cell.role
  <2>1. AgreesAt(m, expected, store, i) /\ f[i] = store[sels[i].id]
    BY <1>2
  <2> HIDE DEF f
  <2>2. /\ sels[i].id \in DOMAIN store /\ sels[i].key = expected[i].cell.key /\ sels[i].role = expected[i].cell.role
        /\ f[i].digest = sels[i].digest /\ f[i].body.runSet = m.runSet /\ f[i].body.input = m.input
        /\ MatchesExpected(f[i], expected[i]) /\ expected[i].profile = m.profile
    BY <2>1 DEF AgreesAt
  <2>3. Loads(store, sels[i].id)
    BY <1>2, <2>2 DEF Lists
  <2>4. f[i].body.id = sels[i].id /\ Encodable(f[i])
    BY <2>1, <2>3 DEF Loads
  <2>5. f[i].body.key = expected[i].cell.key /\ f[i].body.role = expected[i].cell.role
    BY <2>2 DEF MatchesExpected
  <2> QED
    BY <2>1, <2>2, <2>4, <2>5
<1>4. /\ \A i, j \in 1 .. n : sels[i].id = sels[j].id => i = j
      /\ \A i, j \in 1 .. n : expected[i].cell.key = expected[j].cell.key => i = j
  <2>1. Distinct([i \in DOMAIN sels |-> sels[i].id]) /\ Distinct([i \in DOMAIN expected |-> expected[i].cell.key])
    BY <1>2 DEF ValidManifest, ValidExpected
  <2> QED
    BY <1>1, <2>1 DEF Distinct
<1>5. \A i \in 1 .. n : f[i] \in current
  <2> HIDE DEF f
  <2> QED
    BY <1>3 DEF Current, ElementsOf
<1>6. \A r \in current : \E i \in 1 .. n : f[i] = r
  <2> SUFFICES ASSUME NEW r \in current PROVE \E i \in 1 .. n : f[i] = r
    OBVIOUS
  <2>1. PICK id \in DOMAIN store : r = store[id] /\ store[id].body.runSet = m.runSet
    BY DEF Current, ElementsOf
  <2>2. PICK i \in 1 .. n : sels[i].id = id
    BY <1>2, <2>1
  <2> QED
    BY <2>1, <2>2
<1>7. f \in [1 .. n -> current]
  BY <1>5
<1> HIDE DEF f, current
<1>8. \A i, j \in 1 .. n : f[i] = f[j] => i = j
  BY <1>3, <1>4
<1>9. Cardinality(current) = n
  BY <1>1, <1>6, <1>7, <1>8, Counted
<1>10. ASSUME NEW i \in 1 .. n
       PROVE  RecordFor(current, expected[i]) = f[i]
  <2>1. ASSUME NEW q \in current, q.body.key = expected[i].cell.key
        PROVE  q = f[i]
    <3>1. PICK j \in 1 .. n : f[j] = q
      BY <1>6
    <3> QED
      BY <1>3, <1>4, <2>1, <3>1
  <2>2. f[i] \in current /\ f[i].body.key = expected[i].cell.key
    BY <1>3, <1>5
  <2> QED
    BY <2>1, <2>2, TheRecord
<1>11. expected # <<>> /\ 1 \in 1 .. n
  BY <1>1, <1>2 DEF ValidExpected
<1>12. Manifest(m.input, expected, current) = m
  <2> DEFINE built == Manifest(m.input, expected, current)
  <2>1. built.selections = sels
    <3> DEFINE at == [i \in 1 .. n |-> SelectionOf(RecordFor(current, expected[i]))]
    <3>1. built.selections = at
      BY BuiltSelections
    <3>2. ASSUME NEW i \in 1 .. n
          PROVE  SelectionOf(RecordFor(current, expected[i])) = sels[i]
      <4>1. sels[i] = [role |-> sels[i].role, key |-> sels[i].key, id |-> sels[i].id, digest |-> sels[i].digest]
        BY <1>1 DEF IsManifest, IsSelection, ElementsOf
      <4>2. /\ f[i].body.role = sels[i].role /\ f[i].body.key = sels[i].key
            /\ f[i].body.id = sels[i].id /\ f[i].digest = sels[i].digest
        BY <1>3
      <4>3. SelectionOf(f[i]) = sels[i]
        BY <4>1, <4>2, Zenon DEF SelectionOf
      <4> QED
        BY <1>10, <4>3
    <3>3. at = [i \in 1 .. n |-> sels[i]]
      BY <3>2
    <3>4. sels = [i \in 1 .. n |-> sels[i]]
      BY <1>1
    <3> QED
      BY <3>1, <3>3, <3>4, Zenon
  <2>2. built.input = m.input /\ built.profile = expected[1].profile
        /\ built.runSet = RecordFor(current, expected[1]).body.runSet
    BY DEF Manifest
  <2>3. expected[1].profile = m.profile /\ RecordFor(current, expected[1]).body.runSet = m.runSet
    BY <1>3, <1>10, <1>11
  <2>4. built = [input |-> built.input, profile |-> built.profile, runSet |-> built.runSet, selections |-> built.selections]
    BY Zenon DEF Manifest
  <2>5. m = [input |-> m.input, profile |-> m.profile, runSet |-> m.runSet, selections |-> m.selections]
    BY DEF IsManifest
  <2> HIDE DEF built
  <2>6. built = m
    BY <2>1, <2>2, <2>3, <2>4, <2>5, Zenon
  <2> QED
    BY <2>6 DEF built
<1>13. Buildable(m.input, expected, current)
  <2>1. m.input \in Input
    BY <1>2 DEF ValidManifest
  <2>2. \A r \in current : Encodable(r) /\ r.body.input = m.input
    BY <1>3, <1>6
  <2>3. ASSUME NEW r \in current, NEW q \in current
        PROVE  r.body.runSet = q.body.runSet /\ (r # q => r.body.id # q.body.id /\ r.body.key # q.body.key)
    <3>1. PICK i \in 1 .. n : f[i] = r
      BY <1>6
    <3>2. PICK j \in 1 .. n : f[j] = q
      BY <1>6
    <3> QED
      BY <1>3, <1>4, <3>1, <3>2
  <2>4. ASSUME NEW e \in ElementsOf(expected)
        PROVE  \E r \in current : r.body.key = e.cell.key /\ MatchesExpected(r, e)
    <3>1. PICK i \in 1 .. n : e = expected[i]
      BY <1>1 DEF ElementsOf
    <3> QED
      BY <1>3, <1>5, <3>1
  <2> QED
    BY <1>2, <1>9, <1>12, <2>1, <2>2, <2>3, <2>4 DEF Buildable
<1> QED
  BY <1>12, <1>13 DEF current

(* What Build makes of the records of its run set agrees with them.        *)
LEMMA BuiltAgrees ==
  ASSUME NEW m, NEW X, NEW expected \in Seq(X), NEW store, IsFiniteSet(DOMAIN store), Lists(store),
         Buildable(m.input, expected, Current(store, m.runSet)),
         Manifest(m.input, expected, Current(store, m.runSet)) = m
  PROVE  Agrees(m, expected, store)
<1> DEFINE sels == m.selections
           n == Len(expected)
           current == Current(store, m.runSet)
           g == [i \in 1 .. n |-> RecordFor(current, expected[i])]
<1>1. DOMAIN expected = 1 .. n /\ n \in Nat
  OBVIOUS
<1>2. IsFiniteSet(current)
  <2> DEFINE all == [id \in DOMAIN store |-> store[id]]
  <2>1. all \in [DOMAIN store -> ElementsOf(store)] /\ \A r \in ElementsOf(store) : \E id \in DOMAIN store : all[id] = r
    BY DEF ElementsOf
  <2> HIDE DEF all
  <2>2. IsFiniteSet(ElementsOf(store))
    BY <2>1, ListedIsFinite
  <2>3. current \subseteq ElementsOf(store)
    BY DEF Current
  <2> HIDE DEF current
  <2> QED
    BY <2>2, <2>3, FS_Subset
<1>3. /\ ValidExpected(expected) /\ Cardinality(current) = n
      /\ \A r \in current : Encodable(r) /\ r.body.input = m.input
      /\ \A r, q \in current : r # q => r.body.key # q.body.key
      /\ \A e \in ElementsOf(expected) : \E r \in current : r.body.key = e.cell.key /\ MatchesExpected(r, e)
      /\ ValidManifest(m)
  BY DEF Buildable
<1>4. \A r \in current : /\ r.body.id \in DOMAIN store /\ store[r.body.id] = r /\ r.body.runSet = m.runSet
  <2> SUFFICES ASSUME NEW r \in current
               PROVE  r.body.id \in DOMAIN store /\ store[r.body.id] = r /\ r.body.runSet = m.runSet
    OBVIOUS
  <2>1. PICK id \in DOMAIN store : r = store[id] /\ r.body.runSet = m.runSet
    BY DEF Current, ElementsOf
  <2>2. store[id].body.id = id
    BY DEF Lists, Loads
  <2> QED
    BY <2>1, <2>2
<1> HIDE DEF current
<1>5. ASSUME NEW i \in 1 .. n
      PROVE  /\ g[i] \in current /\ g[i].body.key = expected[i].cell.key /\ MatchesExpected(g[i], expected[i])
             /\ g[i] = RecordFor(current, expected[i])
  <2>1. PICK r \in current : r.body.key = expected[i].cell.key /\ MatchesExpected(r, expected[i])
    BY <1>1, <1>3 DEF ElementsOf
  <2>2. \A q \in current : q.body.key = expected[i].cell.key => q = r
    BY <1>3, <2>1
  <2>3. RecordFor(current, expected[i]) = r
    BY <2>1, <2>2, TheRecord
  <2> QED
    BY <2>1, <2>3
<1>6. \A i, j \in 1 .. n : expected[i].cell.key = expected[j].cell.key => i = j
  BY <1>1, <1>3 DEF ValidExpected, Distinct
<1>7. g \in [1 .. n -> current]
  BY <1>5
<1>8. sels = [i \in 1 .. n |-> SelectionOf(g[i])] /\ m.profile = expected[1].profile
  <2>1. Manifest(m.input, expected, current).selections = [i \in 1 .. n |-> SelectionOf(RecordFor(current, expected[i]))]
    BY BuiltSelections
  <2>2. Manifest(m.input, expected, current) = m
    BY DEF current
  <2>3. Manifest(m.input, expected, current).profile = expected[1].profile
    BY DEF Manifest
  <2>4. [i \in 1 .. n |-> SelectionOf(RecordFor(current, expected[i]))] = [i \in 1 .. n |-> SelectionOf(g[i])]
    <3>1. \A i \in 1 .. n : RecordFor(current, expected[i]) = g[i]
      BY <1>5
    <3> HIDE DEF g
    <3> QED
      BY <3>1
  <2> QED
    BY <2>1, <2>2, <2>3, <2>4
<1> HIDE DEF g
<1>9. \A r \in current : \E i \in 1 .. n : g[i] = r
  <2>1. \A i, j \in 1 .. n : g[i] = g[j] => i = j
    BY <1>5, <1>6
  <2>2. Exhausts(g, n, current)
    BY <1>1, <1>2, <1>3, <1>7, <2>1, AllTaken
  <2> QED
    BY <2>2 DEF Exhausts
<1>10. DOMAIN sels = 1 .. n /\ Len(sels) = n
  <2> DEFINE Y == {SelectionOf(g[i]) : i \in 1 .. n}
  <2>1. sels \in [1 .. n -> Y]
    BY <1>8
  <2> HIDE DEF Y
  <2> QED
    BY <1>1, <2>1, ListIs
<1>11. ASSUME NEW i \in 1 .. n
       PROVE  /\ sels[i].role = g[i].body.role /\ sels[i].key = g[i].body.key /\ sels[i].id = g[i].body.id
              /\ sels[i].digest = g[i].digest
  <2>1. sels[i] = SelectionOf(g[i])
    BY <1>8
  <2> QED
    BY <2>1 DEF SelectionOf
<1>12. ASSUME NEW i \in 1 .. n
       PROVE  AgreesAt(m, expected, store, i)
  <2>1. /\ g[i] \in current /\ g[i].body.key = expected[i].cell.key /\ MatchesExpected(g[i], expected[i])
        /\ g[i].body.id \in DOMAIN store /\ store[g[i].body.id] = g[i] /\ g[i].body.runSet = m.runSet
        /\ g[i].body.input = m.input
    BY <1>3, <1>4, <1>5
  <2>2. g[i].body.role = expected[i].cell.role
    BY <2>1 DEF MatchesExpected
  <2>3. expected[i].profile = m.profile
    BY <1>1, <1>3, <1>8 DEF ValidExpected, ElementsOf
  <2> QED
    BY <1>11, <2>1, <2>2, <2>3 DEF AgreesAt
<1>13. ASSUME NEW id \in DOMAIN store, store[id].body.runSet = m.runSet
       PROVE  \E i \in 1 .. n : sels[i].id = id
  <2>1. store[id] \in current
    BY <1>13 DEF Current, current, ElementsOf
  <2>2. PICK i \in 1 .. n : g[i] = store[id]
    BY <1>9, <2>1
  <2>3. store[id].body.id = id
    BY DEF Lists, Loads
  <2> QED
    BY <1>11, <2>2, <2>3
<1> QED
  BY <1>1, <1>3, <1>10, <1>12, <1>13 DEF Agrees

(* The auditor and the publisher agree.                                    *)
LEMMA AuditorsAgree ==
  ASSUME NEW m, IsManifest(m), NEW X, NEW expected \in Seq(X), NEW store, IsFiniteSet(DOMAIN store)
  PROVE  Audit(m, expected, store) = {} <=>
           /\ Lists(store) /\ Buildable(m.input, expected, Current(store, m.runSet))
           /\ Manifest(m.input, expected, Current(store, m.runSet)) = m
<1>1. Audit(m, expected, store) = {} <=> Agrees(m, expected, store)
  BY AuditIsAgreement
<1>2. Agrees(m, expected, store) => Lists(store)
  BY DEF Agrees
<1>3. Agrees(m, expected, store) => /\ Buildable(m.input, expected, Current(store, m.runSet))
                                    /\ Manifest(m.input, expected, Current(store, m.runSet)) = m
  BY AgreedIsBuilt
<1>4. /\ Lists(store) /\ Buildable(m.input, expected, Current(store, m.runSet))
      /\ Manifest(m.input, expected, Current(store, m.runSet)) = m
      => Agrees(m, expected, store)
  BY BuiltAgrees
<1> QED
  BY <1>1, <1>2, <1>3, <1>4

------------------------------------------------------------------------------
(* The catalog.                                                            *)

(* The edits find a first binding and a first run in every lab.            *)
Varied(c) == \A l \in DOMAIN c.labs : c.labs[l].bindings # <<>> /\ c.labs[l].runs # <<>>

(* A list without one of its elements is a list.                           *)
LEMMA WithoutIsList ==
  ASSUME NEW X, NEW s \in Seq(X), NEW i \in DOMAIN s
  PROVE  Without(s, i) \in Seq(X)
<1>1. SubSeq(s, 1, i - 1) \in Seq(X) /\ SubSeq(s, i + 1, Len(s)) \in Seq(X)
  OBVIOUS
<1> QED
  BY <1>1 DEF Without

(* Edited aliases are a list of aliases.                                   *)
LEMMA AliasesEdited ==
  ASSUME NEW s \in Seq(Alias), NEW t \in AliasEdits(s)
  PROVE  t \in Seq(Alias)
<1>1. CASE t \in {Without(s, i) : i \in DOMAIN s}
  BY <1>1, WithoutIsList
<1>2. CASE t \in {Append(s, [a EXCEPT !.from = s[Len(s)].to, !.to = a.from]) : a \in {s[i] : i \in {1} \cap DOMAIN s}}
  <2>1. 1 \in DOMAIN s /\ t = Append(s, [s[1] EXCEPT !.from = s[Len(s)].to, !.to = s[1].from])
    BY <1>2
  <2>2. s[1] \in Alias /\ s[Len(s)] \in Alias
    BY <2>1
  <2> DEFINE a == [s[1] EXCEPT !.from = s[Len(s)].to, !.to = s[1].from]
  <2>3. a \in Alias
    BY <2>2 DEF Alias
  <2> HIDE DEF a
  <2> QED
    BY <2>1, <2>3 DEF a
<1>3. CASE t \in {[s EXCEPT ![i].kind = "lab"] : i \in {1} \cap DOMAIN s}
  <2>1. 1 \in DOMAIN s /\ t = [s EXCEPT ![1] = [s[1] EXCEPT !.kind = "lab"]]
    BY <1>3
  <2>2. s[1] \in Alias
    BY <2>1
  <2> DEFINE a == [s[1] EXCEPT !.kind = "lab"]
  <2>3. a \in Alias
    BY <2>2, ReleasePipelineAssumption DEF Alias
  <2> HIDE DEF a
  <2> QED
    BY <2>1, <2>3 DEF a
<1> QED
  BY <1>1, <1>2, <1>3 DEF AliasEdits

(* What does not touch scope, aliases and labs keeps a catalog a catalog.  *)
LEMMA ElsewhereIsCatalog ==
  ASSUME NEW c, IsCatalog(c), Varied(c), NEW d, DOMAIN d = DOMAIN c, d.scope = c.scope, d.labs = c.labs,
         d.aliases \in Seq(Alias)
  PROVE  IsCatalog(d) /\ Varied(d)
  BY DEF IsCatalog, Varied

(* A lab put in the place of a lab keeps a catalog a catalog.              *)
LEMMA LabPutIsCatalog ==
  ASSUME NEW c, IsCatalog(c), Varied(c), NEW id \in DOMAIN c.labs, NEW lab \in Lab,
         lab.bindings # <<>>, lab.runs # <<>>
  PROVE  IsCatalog([c EXCEPT !.labs[id] = lab]) /\ Varied([c EXCEPT !.labs[id] = lab])
<1> DEFINE d == [c EXCEPT !.labs[id] = lab]
<1>1. DOMAIN d = DOMAIN c /\ d.scope = c.scope /\ d.aliases = c.aliases /\ d.labs = [c.labs EXCEPT ![id] = lab]
  BY DEF IsCatalog
<1>2. c.labs \in [DOMAIN c.labs -> Lab]
  BY DEF IsCatalog
<1> HIDE DEF d
<1>3. d.labs \in [DOMAIN c.labs -> Lab] /\ DOMAIN d.labs = DOMAIN c.labs
  BY <1>1, <1>2
<1>4. \A l \in DOMAIN c.labs : d.labs[l] = IF l = id THEN lab ELSE c.labs[l]
  BY <1>1, <1>2
<1>5. IsCatalog(d)
  BY <1>1, <1>3 DEF IsCatalog
<1>6. Varied(d)
  BY <1>3, <1>4 DEF Varied
<1> QED
  BY <1>5, <1>6 DEF d

(* A list with another first element, or with one more.                    *)
LEMMA ListChanged ==
  ASSUME NEW X, NEW s \in Seq(X), s # <<>>, NEW x \in X
  PROVE  /\ [s EXCEPT ![1] = x] \in Seq(X) /\ [s EXCEPT ![1] = x] # <<>> /\ s[1] \in X
         /\ Append(s, x) \in Seq(X) /\ Append(s, x) # <<>>
  OBVIOUS

(* An edited binding is a binding, an edited run a run, an edited lab a    *)
(* lab.                                                                    *)
LEMMA BindingEdited ==
  ASSUME NEW b \in Binding, NEW e \in BindingEdits(b)
  PROVE  e \in Binding
<1>1. CASE e \in {[b EXCEPT !.claim = k] : k \in Claim}
  <2>1. PICK k \in Claim : e = [b EXCEPT !.claim = k]
    BY <1>1
  <2>2. k \in Ident
    BY ReleasePipelineAssumption
  <2> QED
    BY <2>1, <2>2 DEF Binding
<1>2. CASE e = [b EXCEPT !.workload = "other-workload"]
  BY <1>2, ReleasePipelineAssumption DEF Binding
<1>3. CASE e = [b EXCEPT !.asserts = <<>>]
  <2>1. <<>> \in Seq(Text)
    OBVIOUS
  <2> QED
    BY <1>3, <2>1 DEF Binding
<1> QED
  BY <1>1, <1>2, <1>3 DEF BindingEdits

(* As BindingEdited, for a run of a lab.                                   *)
LEMMA RunEdited ==
  ASSUME NEW run \in RequiredRun, NEW e \in RunEdits(run)
  PROVE  e \in RequiredRun
<1>1. CASE e = [run EXCEPT !.variants = <<>>] \/ e = [run EXCEPT !.variants = <<run.baseline>>]
  <2>1. <<>> \in Seq(Ident) /\ <<run.baseline>> \in Seq(Ident)
    BY DEF RequiredRun
  <2> QED
    BY <1>1, <2>1 DEF RequiredRun
<1>2. CASE e = [run EXCEPT !.adapters = <<>>]
  <2>1. <<>> \in Seq([id : Ident, required : BOOLEAN])
    OBVIOUS
  <2> QED
    BY <1>2, <2>1 DEF RequiredRun
<1>3. CASE e = [run EXCEPT !.binding = "nowhere"]
  BY <1>3, ReleasePipelineAssumption DEF RequiredRun
<1>4. CASE e = [run EXCEPT !.faults = <<"outage">>]
  <2> DEFINE o == "outage"
  <2>1. o \in Text
    BY ReleasePipelineAssumption
  <2> HIDE DEF o
  <2>2. <<o>> \in Seq(Text) /\ e = [run EXCEPT !.faults = <<o>>]
    BY <1>4, <2>1 DEF o
  <2> QED
    BY <2>2 DEF RequiredRun
<1> QED
  BY <1>1, <1>2, <1>3, <1>4 DEF RunEdits

(* As BindingEdited, for a lab.                                            *)
LEMMA LabEdited ==
  ASSUME NEW lab \in Lab, lab.bindings # <<>>, lab.runs # <<>>, NEW e \in LabEdits(lab)
  PROVE  e \in Lab /\ e.bindings # <<>> /\ e.runs # <<>>
<1>1. /\ lab.bindings \in Seq(Binding) /\ lab.runs \in Seq(RequiredRun)
      /\ lab.bindings[1] \in Binding /\ lab.runs[1] \in RequiredRun
  <2>1. lab.bindings \in Seq(Binding) /\ lab.runs \in Seq(RequiredRun)
    BY DEF Lab
  <2> QED
    BY <2>1
<1>2. CASE e \in {[lab EXCEPT !.status = "draft"], [lab EXCEPT !.form = "blank"], [lab EXCEPT !.required = ~@],
                  [lab EXCEPT !.kind = IF @ = "scenario" THEN "primitive" ELSE "scenario"], [lab EXCEPT !.impls = {}]}
  <2>1. CASE e = [lab EXCEPT !.status = "draft"]
    BY <2>1, ReleasePipelineAssumption DEF Lab
  <2>2. CASE e = [lab EXCEPT !.form = "blank"]
    BY <2>2, ReleasePipelineAssumption DEF Lab
  <2>3. CASE e = [lab EXCEPT !.required = ~@]
    BY <2>3 DEF Lab
  <2>4. CASE e = [lab EXCEPT !.kind = IF @ = "scenario" THEN "primitive" ELSE "scenario"]
    BY <2>4, ReleasePipelineAssumption DEF Lab
  <2>5. CASE e = [lab EXCEPT !.impls = {}]
    BY <2>5 DEF Lab
  <2> QED
    BY <1>2, <2>1, <2>2, <2>3, <2>4, <2>5
<1>3. CASE e \in {[lab EXCEPT !.bindings[1] = b] : b \in BindingEdits(lab.bindings[1])}
  <2>1. PICK b \in BindingEdits(lab.bindings[1]) : e = [lab EXCEPT !.bindings[1] = b]
    BY <1>3
  <2>2. b \in Binding
    BY <1>1, BindingEdited
  <2> DEFINE t == [lab.bindings EXCEPT ![1] = b]
  <2>3. t \in Seq(Binding) /\ t # <<>>
    BY <1>1, <2>2, ListChanged
  <2>4. e = [lab EXCEPT !.bindings = t]
    BY <2>1 DEF Lab
  <2> HIDE DEF t
  <2> QED
    BY <2>3, <2>4 DEF Lab
<1>4. CASE e \in {[lab EXCEPT !.bindings = Append(@, b)] : b \in BindingEdits([lab.bindings[1] EXCEPT !.id = "more"])}
  <2>1. PICK b \in BindingEdits([lab.bindings[1] EXCEPT !.id = "more"]) : e = [lab EXCEPT !.bindings = Append(@, b)]
    BY <1>4
  <2>2. [lab.bindings[1] EXCEPT !.id = "more"] \in Binding
    BY <1>1, ReleasePipelineAssumption DEF Binding
  <2>3. b \in Binding
    BY <2>2, BindingEdited
  <2> DEFINE t == Append(lab.bindings, b)
  <2>4. t \in Seq(Binding) /\ t # <<>>
    BY <1>1, <2>3, ListChanged
  <2>5. e = [lab EXCEPT !.bindings = t]
    BY <2>1
  <2> HIDE DEF t
  <2> QED
    BY <2>4, <2>5 DEF Lab
<1>5. CASE e \in {[lab EXCEPT !.runs[1] = r] : r \in RunEdits(lab.runs[1])}
  <2>1. PICK r \in RunEdits(lab.runs[1]) : e = [lab EXCEPT !.runs[1] = r]
    BY <1>5
  <2>2. r \in RequiredRun
    BY <1>1, RunEdited
  <2> DEFINE t == [lab.runs EXCEPT ![1] = r]
  <2>3. t \in Seq(RequiredRun) /\ t # <<>>
    BY <1>1, <2>2, ListChanged
  <2>4. e = [lab EXCEPT !.runs = t]
    BY <2>1 DEF Lab
  <2> HIDE DEF t
  <2> QED
    BY <2>3, <2>4 DEF Lab
<1>6. CASE e \in {[lab EXCEPT !.runs = Append(@, [@[1] EXCEPT !.binding = "more"])]}
  <2> DEFINE r == [lab.runs[1] EXCEPT !.binding = "more"]
             t == Append(lab.runs, r)
  <2>1. r \in RequiredRun
    BY <1>1, ReleasePipelineAssumption DEF RequiredRun
  <2>2. e = [lab EXCEPT !.runs = t]
    BY <1>6
  <2>3. t \in Seq(RequiredRun) /\ t # <<>>
    BY <1>1, <2>1, ListChanged
  <2> HIDE DEF t
  <2> QED
    BY <2>2, <2>3 DEF Lab
<1> QED
  BY <1>2, <1>3, <1>4, <1>5, <1>6 DEF LabEdits

(* An edited catalog is a catalog.                                         *)
LEMMA CatalogEdited ==
  ASSUME NEW c, IsCatalog(c), Varied(c), NEW d \in Edits(c)
  PROVE  IsCatalog(d) /\ Varied(d)
<1>1. ASSUME DOMAIN d = DOMAIN c, d.scope = c.scope, d.labs = c.labs, d.aliases = c.aliases
      PROVE  IsCatalog(d) /\ Varied(d)
  <2>1. d.aliases \in Seq(Alias)
    BY <1>1 DEF IsCatalog
  <2> QED
    BY <1>1, <2>1, ElsewhereIsCatalog
<1>2. CASE \E v \in AliasEdits(c.aliases) : d = [c EXCEPT !.aliases = v]
  <2>1. PICK v \in AliasEdits(c.aliases) : d = [c EXCEPT !.aliases = v]
    BY <1>2
  <2>2. c.aliases \in Seq(Alias)
    BY DEF IsCatalog
  <2>3. v \in Seq(Alias)
    BY <2>2, AliasesEdited
  <2>4. DOMAIN d = DOMAIN c /\ d.scope = c.scope /\ d.labs = c.labs /\ d.aliases = v
    BY <2>1 DEF IsCatalog
  <2> QED
    BY <2>3, <2>4, ElsewhereIsCatalog
<1>3. ASSUME NEW t \in Seq([id : Text, family : Text]), d = [c EXCEPT !.scope = t]
      PROVE  IsCatalog(d) /\ Varied(d)
  BY <1>3 DEF IsCatalog, Varied
<1>4. CASE \E v : d = [c EXCEPT !.families = v] \/ d = [c EXCEPT !.exclusions = v]
  <2>1. DOMAIN d = DOMAIN c /\ d.scope = c.scope /\ d.labs = c.labs /\ d.aliases = c.aliases
    BY <1>4 DEF IsCatalog
  <2> QED
    BY <1>1, <2>1
<1>5. CASE d = [c EXCEPT !.scope = <<>>]
  <2>1. <<>> \in Seq([id : Text, family : Text])
    OBVIOUS
  <2> QED
    BY <1>3, <1>5, <2>1
<1>6. CASE \E i \in {1} \cap DOMAIN c.scope : d = [c EXCEPT !.scope = Append(@, [@[i] EXCEPT !.id = "more"])]
  <2> DEFINE s == [c.scope[1] EXCEPT !.id = "more"]
             t == Append(c.scope, s)
  <2>1. c.scope \in Seq([id : Text, family : Text]) /\ 1 \in DOMAIN c.scope /\ d = [c EXCEPT !.scope = t]
    BY <1>6 DEF IsCatalog
  <2>2. c.scope[1] \in [id : Text, family : Text]
    BY <2>1, ElementIs, Zenon
  <2>3. s \in [id : Text, family : Text]
    BY <2>2, ReleasePipelineAssumption
  <2>4. t \in Seq([id : Text, family : Text])
    BY <2>1, <2>3
  <2> HIDE DEF t
  <2> QED
    BY <1>3, <2>1, <2>4
<1>7. CASE \E s \in DOMAIN c.sources, v \in {"user", "other"} : d = [c EXCEPT !.sources[s] = v]
  <2>1. PICK s \in DOMAIN c.sources, v \in {"user", "other"} : d = [c EXCEPT !.sources[s] = v]
    BY <1>7
  <2>2. DOMAIN d = DOMAIN c /\ d.scope = c.scope /\ d.labs = c.labs /\ d.aliases = c.aliases
    BY <2>1 DEF IsCatalog
  <2> QED
    BY <1>1, <2>2
<1>8. CASE \E id \in DOMAIN c.cases : \E e \in CaseEdits(c, c.cases[id]) : d = [c EXCEPT !.cases[id] = e]
  <2>0. PICK id \in DOMAIN c.cases : \E e \in CaseEdits(c, c.cases[id]) : d = [c EXCEPT !.cases[id] = e]
    BY <1>8
  <2>1. PICK e \in CaseEdits(c, c.cases[id]) : d = [c EXCEPT !.cases[id] = e]
    BY <2>0
  <2>2. DOMAIN d = DOMAIN c /\ d.scope = c.scope /\ d.labs = c.labs /\ d.aliases = c.aliases
    BY <2>1 DEF IsCatalog
  <2> QED
    BY <1>1, <2>2
<1>9. CASE \E id \in DOMAIN c.principles : \E e \in OwnerEdits(c, c.principles[id]) : d = [c EXCEPT !.principles[id] = e]
  <2>0. PICK id \in DOMAIN c.principles : \E e \in OwnerEdits(c, c.principles[id]) : d = [c EXCEPT !.principles[id] = e]
    BY <1>9
  <2>1. PICK e \in OwnerEdits(c, c.principles[id]) : d = [c EXCEPT !.principles[id] = e]
    BY <2>0
  <2>2. DOMAIN d = DOMAIN c /\ d.scope = c.scope /\ d.labs = c.labs /\ d.aliases = c.aliases
    BY <2>1 DEF IsCatalog
  <2> QED
    BY <1>1, <2>2
<1>10. CASE \E id \in DOMAIN c.labs : \E e \in LabEdits(c.labs[id]) : d = [c EXCEPT !.labs[id] = e]
  <2>0. PICK id \in DOMAIN c.labs : \E e \in LabEdits(c.labs[id]) : d = [c EXCEPT !.labs[id] = e]
    BY <1>10
  <2>1. PICK e \in LabEdits(c.labs[id]) : d = [c EXCEPT !.labs[id] = e]
    BY <2>0
  <2>2. c.labs[id] \in Lab /\ c.labs[id].bindings # <<>> /\ c.labs[id].runs # <<>>
    BY DEF IsCatalog, Varied
  <2>3. e \in Lab /\ e.bindings # <<>> /\ e.runs # <<>>
    BY <2>2, LabEdited
  <2> QED
    BY <2>1, <2>3, LabPutIsCatalog
<1>11. CASE \E id \in DOMAIN c.adapters : \/ d = [c EXCEPT !.adapters[id].status = "draft"]
                                          \/ d = [c EXCEPT !.adapters[id].form = "blank"]
  <2>1. DOMAIN d = DOMAIN c /\ d.scope = c.scope /\ d.labs = c.labs /\ d.aliases = c.aliases
    BY <1>11 DEF IsCatalog
  <2> QED
    BY <1>1, <2>1
<1>12. \/ \E v : d = [c EXCEPT !.families = v] \/ d = [c EXCEPT !.exclusions = v]
       \/ \E v \in AliasEdits(c.aliases) : d = [c EXCEPT !.aliases = v]
       \/ d = [c EXCEPT !.scope = <<>>]
       \/ \E i \in {1} \cap DOMAIN c.scope : d = [c EXCEPT !.scope = Append(@, [@[i] EXCEPT !.id = "more"])]
       \/ \E s \in DOMAIN c.sources, v \in {"user", "other"} : d = [c EXCEPT !.sources[s] = v]
       \/ \E id \in DOMAIN c.cases : \E e \in CaseEdits(c, c.cases[id]) : d = [c EXCEPT !.cases[id] = e]
       \/ \E id \in DOMAIN c.principles : \E e \in OwnerEdits(c, c.principles[id]) : d = [c EXCEPT !.principles[id] = e]
       \/ \E id \in DOMAIN c.labs : \E e \in LabEdits(c.labs[id]) : d = [c EXCEPT !.labs[id] = e]
       \/ \E id \in DOMAIN c.adapters : \/ d = [c EXCEPT !.adapters[id].status = "draft"]
                                        \/ d = [c EXCEPT !.adapters[id].form = "blank"]
  <2> DEFINE P1 == {[c EXCEPT !.families = <<>>], [c EXCEPT !.exclusions = {[id |-> "gone", canonical |-> "nowhere"]}],
                    [c EXCEPT !.scope = <<>>]}
             P2 == {[c EXCEPT !.scope = Append(@, [@[i] EXCEPT !.id = "more"])] : i \in {1} \cap DOMAIN c.scope}
             P3 == {[c EXCEPT !.sources[s] = v] : s \in DOMAIN c.sources, v \in {"user", "other"}}
             P4 == {[c EXCEPT !.aliases = a] : a \in AliasEdits(c.aliases)}
             P5 == {{[c EXCEPT !.cases[id] = e] : e \in CaseEdits(c, c.cases[id])} : id \in DOMAIN c.cases}
             P6 == {{[c EXCEPT !.principles[id] = e] : e \in OwnerEdits(c, c.principles[id])} : id \in DOMAIN c.principles}
             P7 == {{[c EXCEPT !.labs[id] = e] : e \in LabEdits(c.labs[id])} : id \in DOMAIN c.labs}
             P8 == {[c EXCEPT !.adapters[id].status = "draft"] : id \in DOMAIN c.adapters}
             P9 == {[c EXCEPT !.adapters[id].form = "blank"] : id \in DOMAIN c.adapters}
  <2>1. Edits(c) = P1 \cup P2 \cup P3 \cup P4 \cup (UNION P5) \cup (UNION P6) \cup (UNION P7) \cup P8 \cup P9
    BY DEF Edits
  <2>2. d \in P1 => d = [c EXCEPT !.scope = <<>>] \/ \E v : d = [c EXCEPT !.families = v] \/ d = [c EXCEPT !.exclusions = v]
    BY Zenon
  <2>3. d \in P2 => \E i \in {1} \cap DOMAIN c.scope : d = [c EXCEPT !.scope = Append(@, [@[i] EXCEPT !.id = "more"])]
    BY Zenon
  <2>4. d \in P3 => \E s \in DOMAIN c.sources, v \in {"user", "other"} : d = [c EXCEPT !.sources[s] = v]
    OBVIOUS
  <2>5. d \in P4 => \E v \in AliasEdits(c.aliases) : d = [c EXCEPT !.aliases = v]
    BY Zenon
  <2>6. d \in UNION P5 => \E id \in DOMAIN c.cases : \E e \in CaseEdits(c, c.cases[id]) : d = [c EXCEPT !.cases[id] = e]
    BY Zenon
  <2>7. d \in UNION P6 => \E id \in DOMAIN c.principles : \E e \in OwnerEdits(c, c.principles[id]) :
                            d = [c EXCEPT !.principles[id] = e]
    BY Zenon
  <2>8. d \in UNION P7 => \E id \in DOMAIN c.labs : \E e \in LabEdits(c.labs[id]) : d = [c EXCEPT !.labs[id] = e]
    BY Zenon
  <2>9. d \in P8 \/ d \in P9 => \E id \in DOMAIN c.adapters : \/ d = [c EXCEPT !.adapters[id].status = "draft"]
                                                            \/ d = [c EXCEPT !.adapters[id].form = "blank"]
    BY Zenon
  <2> HIDE DEF P1, P2, P3, P4, P5, P6, P7, P8, P9
  <2>10. \/ d \in P1 \/ d \in P2 \/ d \in P3 \/ d \in P4
         \/ d \in UNION P5 \/ d \in UNION P6 \/ d \in UNION P7 \/ d \in P8 \/ d \in P9
    BY <2>1, Zenon
  <2> QED
    BY <2>2, <2>3, <2>4, <2>5, <2>6, <2>7, <2>8, <2>9, <2>10, Zenon
<1> QED
  BY <1>2, <1>4, <1>5, <1>6, <1>7, <1>8, <1>9, <1>10, <1>11, <1>12

------------------------------------------------------------------------------
(* The matrix.                                                             *)

(* A list has finitely many elements.                                      *)
LEMMA ElementsAreFinite ==
  ASSUME NEW X, NEW s \in Seq(X)
  PROVE  IsFiniteSet(ElementsOf(s))
<1>1. s \in [1 .. Len(s) -> ElementsOf(s)] /\ \A x \in ElementsOf(s) : \E i \in 1 .. Len(s) : s[i] = x
  BY ElementsAre
<1>2. IsFiniteSet(1 .. Len(s))
  <2>1. Len(s) \in Nat
    OBVIOUS
  <2> QED
    BY <2>1, FS_Interval
<1> QED
  BY <1>1, <1>2, ListedIsFinite

(* The required adapters of a run are finitely many.                       *)
LEMMA AdaptersAreFinite ==
  ASSUME NEW run \in RequiredRun
  PROVE  IsFiniteSet(RequiredAdapters(run)) /\ RequiredAdapters(run) \subseteq Ident
<1> DEFINE A == {b \in ElementsOf(run.adapters) : b.required}
           f == [a \in A |-> a.id]
<1>1. run.adapters \in Seq([id : Ident, required : BOOLEAN])
  BY DEF RequiredRun
<1>2. IsFiniteSet(A)
  <2>1. IsFiniteSet(ElementsOf(run.adapters))
    BY <1>1, ElementsAreFinite
  <2> QED
    BY <2>1, FS_Subset
<1>3. \A a \in A : a.id \in Ident
  <2>1. ElementsOf(run.adapters) \subseteq [id : Ident, required : BOOLEAN]
    BY <1>1, ElementsAre
  <2> QED
    BY <2>1
<1>4. f \in [A -> RequiredAdapters(run)] /\ \A x \in RequiredAdapters(run) : \E a \in A : f[a] = x
  BY DEF RequiredAdapters
<1>5. RequiredAdapters(run) \subseteq Ident
  BY <1>3 DEF RequiredAdapters
<1> HIDE DEF A, f
<1> QED
  BY <1>2, <1>4, <1>5, ListedIsFinite

(* The binding of a counted run.                                           *)
BindingOf(c, l, run) == BindingsNamed(c.labs[l], run.binding)[1]

(* One cell of a run.                                                      *)
CellOf(c, l, run, role, impl, adapter) ==
  [key |-> <<l, run.id, BindingOf(c, l, run).id, BindingOf(c, l, run).claim, impl, adapter>>, role |-> role,
   workload |-> run.workload, faults |-> run.faults, asserts |-> BindingOf(c, l, run).asserts]

(* The cells of a run, by what fills them.                                 *)
LEMMA CellsOfIs ==
  ASSUME NEW c, NEW l, NEW run
  PROVE  CellsOf(c, l, run)
           = {CellOf(c, l, run, "baseline", run.baseline, "")}
             \cup {CellOf(c, l, run, "variant", v, "") : v \in ElementsOf(run.variants)}
             \cup {CellOf(c, l, run, "adapter", a, a) : a \in RequiredAdapters(run)}
  BY DEF CellsOf, CellOf, BindingOf

(* A run has finitely many cells.                                          *)
LEMMA RunIsFinite ==
  ASSUME NEW c, NEW l, NEW run \in RequiredRun
  PROVE  IsFiniteSet(CellsOf(c, l, run))
<1> DEFINE V == ElementsOf(run.variants)
           A == RequiredAdapters(run)
           C1 == {CellOf(c, l, run, "baseline", run.baseline, "")}
           C2 == {CellOf(c, l, run, "variant", v, "") : v \in V}
           C3 == {CellOf(c, l, run, "adapter", a, a) : a \in A}
           f == [v \in V |-> CellOf(c, l, run, "variant", v, "")]
           g == [a \in A |-> CellOf(c, l, run, "adapter", a, a)]
<1>1. run.variants \in Seq(Ident)
  BY DEF RequiredRun
<1>2. IsFiniteSet(V)
  BY <1>1, ElementsAreFinite
<1>3. IsFiniteSet(A)
  BY AdaptersAreFinite
<1> HIDE DEF V, A
<1>4. f \in [V -> C2] /\ \A x \in C2 : \E v \in V : f[v] = x
  OBVIOUS
<1>5. g \in [A -> C3] /\ \A x \in C3 : \E a \in A : g[a] = x
  OBVIOUS
<1>6. IsFiniteSet(C1)
  BY FS_Singleton
<1>7. CellsOf(c, l, run) = C1 \cup C2 \cup C3
  BY CellsOfIs DEF V, A
<1> HIDE DEF C1, C2, C3, f, g
<1>8. IsFiniteSet(C2)
  BY <1>2, <1>4, ListedIsFinite
<1>9. IsFiniteSet(C3)
  BY <1>3, <1>5, ListedIsFinite
<1>10. IsFiniteSet(C1 \cup C2)
  BY <1>6, <1>8, FS_Union
<1>11. IsFiniteSet((C1 \cup C2) \cup C3)
  BY <1>9, <1>10, FS_Union
<1> QED
  BY <1>7, <1>11

(* The labs that count.                                                    *)
CountedLabs(c) == {l \in DOMAIN c.labs : LabCounts(c, l)}

(* Where a cell of the matrix comes from.                                  *)
LEMMA CellsCome ==
  ASSUME NEW c, NEW cell
  PROVE  cell \in MatrixCells(c) <=> \E l \in CountedLabs(c) : \E run \in CountedRuns(c, l) : cell \in CellsOf(c, l, run)
<1> DEFINE Of(l) == {CellsOf(c, l, run) : run \in CountedRuns(c, l)}
           All == {UNION Of(l) : l \in CountedLabs(c)}
<1>1. MatrixCells(c) = UNION All
  BY Zenon DEF MatrixCells, CountedLabs
<1>2. \A l : cell \in UNION Of(l) <=> \E run \in CountedRuns(c, l) : cell \in CellsOf(c, l, run)
  OBVIOUS
<1> HIDE DEF Of
<1>3. cell \in UNION All <=> \E l \in CountedLabs(c) : cell \in UNION Of(l)
  OBVIOUS
<1> HIDE DEF All
<1> QED
  BY <1>1, <1>2, <1>3

(* The runs of a lab of a catalog.                                         *)
LEMMA RunsAre ==
  ASSUME NEW c, IsCatalog(c), NEW l \in DOMAIN c.labs
  PROVE  /\ c.labs[l] \in Lab /\ c.labs[l].runs \in Seq(RequiredRun) /\ c.labs[l].bindings \in Seq(Binding)
         /\ CountedRuns(c, l) \subseteq RequiredRun /\ IsFiniteSet(CountedRuns(c, l))
<1>1. c.labs[l] \in Lab
  BY DEF IsCatalog
<1>2. c.labs[l].runs \in Seq(RequiredRun) /\ c.labs[l].bindings \in Seq(Binding)
  BY <1>1 DEF Lab
<1>3. ElementsOf(c.labs[l].runs) \subseteq RequiredRun
  BY <1>2, ElementsAre
<1>4. IsFiniteSet(ElementsOf(c.labs[l].runs))
  BY <1>2, ElementsAreFinite
<1>5. CountedRuns(c, l) \subseteq ElementsOf(c.labs[l].runs)
  BY DEF CountedRuns
<1>6. IsFiniteSet(CountedRuns(c, l))
  BY <1>4, <1>5, FS_Subset
<1> QED
  BY <1>1, <1>2, <1>3, <1>5, <1>6

(* A catalog has finitely many cells.                                      *)
LEMMA MatrixIsFinite ==
  ASSUME NEW c, IsCatalog(c)
  PROVE  IsFiniteSet(MatrixCells(c))
<1> DEFINE Of(l) == {CellsOf(c, l, run) : run \in CountedRuns(c, l)}
           L == CountedLabs(c)
           All == {UNION Of(l) : l \in L}
<1>1. ASSUME NEW l \in L
      PROVE  IsFiniteSet(UNION Of(l))
  <2>1. l \in DOMAIN c.labs
    BY DEF CountedLabs
  <2>2. CountedRuns(c, l) \subseteq RequiredRun /\ IsFiniteSet(CountedRuns(c, l))
    BY <2>1, RunsAre
  <2> DEFINE f == [run \in CountedRuns(c, l) |-> CellsOf(c, l, run)]
             S == Of(l)
  <2>3. f \in [CountedRuns(c, l) -> S] /\ \A x \in S : \E run \in CountedRuns(c, l) : f[run] = x
    OBVIOUS
  <2>4. \A T \in S : IsFiniteSet(T)
    BY <2>2, RunIsFinite
  <2> HIDE DEF f, S
  <2>5. IsFiniteSet(S)
    BY <2>2, <2>3, ListedIsFinite
  <2>6. IsFiniteSet(UNION S)
    BY <2>4, <2>5, FS_UNION
  <2> QED
    BY <2>6 DEF S
<1>2. IsFiniteSet(L)
  <2>1. IsFiniteSet(DOMAIN c.labs)
    BY DEF IsCatalog
  <2> QED
    BY <2>1, FS_Subset DEF CountedLabs
<1> DEFINE g == [l \in L |-> UNION Of(l)]
<1>3. g \in [L -> All] /\ \A x \in All : \E l \in L : g[l] = x
  <2> HIDE DEF Of
  <2> QED
    OBVIOUS
<1>4. \A T \in All : IsFiniteSet(T)
  <2> HIDE DEF Of
  <2> QED
    BY <1>1
<1>5. MatrixCells(c) = UNION All
  BY Zenon DEF MatrixCells, CountedLabs
<1> HIDE DEF L, All, g
<1>6. IsFiniteSet(All)
  BY <1>2, <1>3, ListedIsFinite
<1>7. IsFiniteSet(UNION All)
  BY <1>4, <1>6, FS_UNION
<1> QED
  BY <1>5, <1>7

(* Places: a key and a role.                                               *)
Places == [1 .. 7 -> Ident]

(* No place is before itself.                                              *)
LEMMA NotBeforeItself ==
  ASSUME NEW x \in Places
  PROVE  ~Before(x, x)
<1>1. \A i \in 1 .. 7 : Rank[x[i]] \in Nat
  BY CatalogRulesAssumption DEF Places, Ident
<1> QED
  BY <1>1 DEF Before, Places

(* What is before a place that is before another is before that one.       *)
LEMMA BeforeInTurn ==
  ASSUME NEW x \in Places, NEW y \in Places, NEW z \in Places, Before(x, y), Before(y, z)
  PROVE  Before(x, z)
<1>1. \A i \in 1 .. 7 : Rank[x[i]] \in Nat /\ Rank[y[i]] \in Nat /\ Rank[z[i]] \in Nat
  BY CatalogRulesAssumption DEF Places, Ident
<1>2. PICK i \in 1 .. 7 : Rank[x[i]] < Rank[y[i]] /\ \A j \in 1 .. i - 1 : x[j] = y[j]
  BY DEF Before, Places
<1>3. PICK k \in 1 .. 7 : Rank[y[k]] < Rank[z[k]] /\ \A j \in 1 .. k - 1 : y[j] = z[j]
  BY DEF Before, Places
<1> DEFINE h == IF i < k THEN i ELSE k
<1>4. h \in 1 .. 7 /\ Rank[x[h]] < Rank[z[h]] /\ \A j \in 1 .. h - 1 : x[j] = z[j]
  <2>1. CASE i < k
    <3>1. y[i] = z[i]
      BY <1>3, <2>1
    <3> QED
      BY <1>1, <1>2, <1>3, <2>1, <3>1
  <2>2. CASE i = k
    BY <1>1, <1>2, <1>3, <2>2
  <2>3. CASE k < i
    <3>1. x[k] = y[k]
      BY <1>2, <2>3
    <3> QED
      BY <1>1, <1>2, <1>3, <2>3, <3>1
  <2> QED
    BY <2>1, <2>2, <2>3
<1> HIDE DEF h
<1> QED
  BY <1>4 DEF Before, Places

(* Of two places one is before the other.                                  *)
LEMMA OneIsBefore ==
  ASSUME NEW x \in Places, NEW y \in Places, x # y
  PROVE  Before(x, y) \/ Before(y, x)
<1>1. PICK i \in 1 .. 7 : x[i] # y[i] /\ \A j \in 1 .. i - 1 : x[j] = y[j]
  <2>1. \E i \in 1 .. 7 : x[i] # y[i]
    BY DEF Places
  <2> DEFINE D(i) == x[i] # y[i] /\ \A j \in 1 .. i - 1 : x[j] = y[j]
  <2>2. CASE x[1] # y[1]
    BY <2>2
  <2>3. CASE x[1] = y[1] /\ x[2] # y[2]
    BY <2>3
  <2>4. CASE x[1] = y[1] /\ x[2] = y[2] /\ x[3] # y[3]
    BY <2>4
  <2>5. CASE x[1] = y[1] /\ x[2] = y[2] /\ x[3] = y[3] /\ x[4] # y[4]
    BY <2>5
  <2>6. CASE x[1] = y[1] /\ x[2] = y[2] /\ x[3] = y[3] /\ x[4] = y[4] /\ x[5] # y[5]
    BY <2>6
  <2>7. CASE x[1] = y[1] /\ x[2] = y[2] /\ x[3] = y[3] /\ x[4] = y[4] /\ x[5] = y[5] /\ x[6] # y[6]
    BY <2>7
  <2>8. CASE x[1] = y[1] /\ x[2] = y[2] /\ x[3] = y[3] /\ x[4] = y[4] /\ x[5] = y[5] /\ x[6] = y[6]
    BY <2>1, <2>8
  <2> QED
    BY <2>2, <2>3, <2>4, <2>5, <2>6, <2>7, <2>8
<1>2. x[i] \in DOMAIN Rank /\ y[i] \in DOMAIN Rank
  BY DEF Places, Ident
<1>3. Rank[x[i]] \in Nat /\ Rank[y[i]] \in Nat /\ Rank[x[i]] # Rank[y[i]]
  BY <1>1, <1>2, CatalogRulesAssumption
<1>4. Rank[x[i]] < Rank[y[i]] \/ Rank[y[i]] < Rank[x[i]]
  BY <1>3
<1> QED
  BY <1>1, <1>4 DEF Before, Places

(* A lab has one binding of a name, if it has one.                         *)
LEMMA NamedIs ==
  ASSUME NEW lab \in Lab, NEW id, Len(BindingsNamed(lab, id)) = 1
  PROVE  /\ BindingsNamed(lab, id)[1] \in Binding /\ BindingsNamed(lab, id)[1] \in ElementsOf(lab.bindings)
         /\ BindingsNamed(lab, id)[1].id = id
<1> DEFINE s == lab.bindings
           S == {i \in DOMAIN s : s[i].id = id}
<1>1. s \in Seq(Binding) /\ S \in SUBSET DOMAIN s
  BY DEF Lab
<1>2. BindingsNamed(lab, id) = Picked(s, S)
  BY Zenon DEF BindingsNamed
<1> HIDE DEF S
<1>3. PICK at : PickedAt(s, S, at)
  BY <1>1, PickedIs
<1>4. Cardinality(S) = 1
  BY <1>2, <1>3 DEF PickedAt
<1>5. Picked(s, S)[1] = s[at[1]] /\ at[1] \in S
  BY <1>3, <1>4 DEF PickedAt
<1>6. at[1] \in DOMAIN s /\ s[at[1]].id = id
  BY <1>5 DEF S
<1>7. s[at[1]] \in ElementsOf(s) /\ s[at[1]] \in Binding
  BY <1>1, <1>6 DEF ElementsOf
<1> QED
  BY <1>2, <1>5, <1>6, <1>7

(* The only binding of a name is the one that is found.                    *)
LEMMA OnlyIsFirst ==
  ASSUME NEW lab \in Lab, NEW b \in ElementsOf(lab.bindings), Len(BindingsNamed(lab, b.id)) = 1
  PROVE  BindingsNamed(lab, b.id)[1] = b
<1> DEFINE s == lab.bindings
           S == {i \in DOMAIN s : s[i].id = b.id}
<1>1. s \in Seq(Binding) /\ S \in SUBSET DOMAIN s
  BY DEF Lab
<1>2. BindingsNamed(lab, b.id) = Picked(s, S)
  BY Zenon DEF BindingsNamed
<1>3. PICK i \in S : s[i] = b
  BY DEF ElementsOf
<1> HIDE DEF S
<1>4. PICK at : PickedAt(s, S, at)
  BY <1>1, PickedIs
<1>5. Cardinality(S) = 1
  BY <1>2, <1>4 DEF PickedAt
<1>6. Picked(s, S)[1] = s[at[1]] /\ at[1] \in S
  BY <1>4, <1>5 DEF PickedAt
<1>7. IsFiniteSet(S)
  <2>1. IsFiniteSet(DOMAIN s)
    BY <1>1, FS_Interval
  <2> QED
    BY <1>1, <2>1, FS_Subset
<1>8. at[1] = i
  BY <1>3, <1>5, <1>6, <1>7, FS_Singleton
<1> QED
  BY <1>2, <1>3, <1>6, <1>8

(* A run that counts has one binding.                                      *)
LEMMA BindingOfIs ==
  ASSUME NEW c, IsCatalog(c), NEW l \in DOMAIN c.labs, NEW run \in CountedRuns(c, l)
  PROVE  /\ Len(BindingsNamed(c.labs[l], run.binding)) = 1
         /\ BindingOf(c, l, run) \in Binding /\ BindingOf(c, l, run) \in ElementsOf(c.labs[l].bindings)
         /\ BindingOf(c, l, run).id = run.binding /\ run \in ElementsOf(c.labs[l].runs)
         /\ RunIsUnique(c.labs[l], run) /\ Owned(c, BindingOf(c, l, run))
<1>1. c.labs[l] \in Lab
  BY RunsAre
<1>2. /\ run \in ElementsOf(c.labs[l].runs) /\ RunIsUnique(c.labs[l], run) /\ RunCodes(c, c.labs[l], run) = {}
      /\ Owned(c, BindingsNamed(c.labs[l], run.binding)[1])
  BY DEF CountedRuns, RunCounts
<1>3. Len(BindingsNamed(c.labs[l], run.binding)) = 1
  BY <1>2 DEF RunCodes
<1> QED
  BY <1>1, <1>2, <1>3, NamedIs DEF BindingOf

(* The place of a cell.                                                    *)
PlaceIn(c, l, run, role, impl, adapter) ==
  <<l, run.id, BindingOf(c, l, run).id, BindingOf(c, l, run).claim, impl, adapter, role>>

(* Where a cell is put.                                                    *)
LEMMA PlaceOfCellIs ==
  ASSUME NEW c, IsCatalog(c), NEW l \in DOMAIN c.labs, NEW run \in CountedRuns(c, l),
         NEW role \in Ident, NEW impl \in Ident, NEW adapter \in Ident
  PROVE  /\ PlaceOf(CellOf(c, l, run, role, impl, adapter)) = PlaceIn(c, l, run, role, impl, adapter)
         /\ PlaceIn(c, l, run, role, impl, adapter) \in Places
<1>1. run.id \in Ident
  <2>1. run \in RequiredRun
    BY RunsAre
  <2> QED
    BY <2>1 DEF RequiredRun
<1>2. BindingOf(c, l, run).id \in Ident /\ BindingOf(c, l, run).claim \in Ident
  <2>1. BindingOf(c, l, run) \in Binding
    BY BindingOfIs
  <2> QED
    BY <2>1 DEF Binding
<1>3. l \in Ident
  BY DEF IsCatalog
<1>4. PlaceOf(CellOf(c, l, run, role, impl, adapter))
        = <<l, run.id, BindingOf(c, l, run).id, BindingOf(c, l, run).claim, impl, adapter, role>>
  <2> DEFINE b == BindingOf(c, l, run)
  <2>1. PlaceOf(CellOf(c, l, run, role, impl, adapter)) = Append(<<l, run.id, b.id, b.claim, impl, adapter>>, role)
    BY DEF PlaceOf, CellOf
  <2>2. Append(<<l, run.id, b.id, b.claim, impl, adapter>>, role) = <<l, run.id, b.id, b.claim, impl, adapter, role>>
    <3> DEFINE r == run.id
               i == b.id
               k == b.claim
    <3>1. l \in Ident /\ r \in Ident /\ i \in Ident /\ k \in Ident
      BY <1>1, <1>2, <1>3
    <3> HIDE DEF r, i, k
    <3>2. Append(<<l, r, i, k, impl, adapter>>, role) = <<l, r, i, k, impl, adapter, role>>
      BY <3>1, SevenIs
    <3> QED
      BY <3>2 DEF r, i, k
  <2> QED
    BY <2>1, <2>2, Zenon
<1> QED
  BY <1>1, <1>2, <1>3, <1>4 DEF Places, PlaceIn

(* What a cell of the matrix is.                                           *)
LEMMA MatrixCellIs ==
  ASSUME NEW c, IsCatalog(c), NEW cell \in MatrixCells(c)
  PROVE  \E l \in CountedLabs(c) : \E run \in CountedRuns(c, l) : \E role, impl, adapter \in Ident :
           cell = CellOf(c, l, run, role, impl, adapter)
<1>1. PICK l \in CountedLabs(c) : \E run \in CountedRuns(c, l) : cell \in CellsOf(c, l, run)
  BY CellsCome
<1>2. PICK run \in CountedRuns(c, l) : cell \in CellsOf(c, l, run)
  BY <1>1
<1>3. run \in RequiredRun
  BY RunsAre DEF CountedLabs
<1>4. run.baseline \in Ident /\ run.variants \in Seq(Ident)
  BY <1>3 DEF RequiredRun
<1>5. ElementsOf(run.variants) \subseteq Ident
  BY <1>4, ElementsAre
<1>6. RequiredAdapters(run) \subseteq Ident
  BY <1>3, AdaptersAreFinite
<1>7. "" \in Ident /\ "baseline" \in Ident /\ "variant" \in Ident /\ "adapter" \in Ident
  BY ReleasePipelineAssumption
<1>8. \/ cell = CellOf(c, l, run, "baseline", run.baseline, "")
      \/ \E v \in ElementsOf(run.variants) : cell = CellOf(c, l, run, "variant", v, "")
      \/ \E a \in RequiredAdapters(run) : cell = CellOf(c, l, run, "adapter", a, a)
  BY <1>2, CellsOfIs
<1>9. \E role, impl, adapter \in Ident : cell = CellOf(c, l, run, role, impl, adapter)
  BY <1>4, <1>5, <1>6, <1>7, <1>8
<1> QED
  BY <1>9

(* A run that counts is the only one of its name.                          *)
LEMMA RunsDiffer ==
  ASSUME NEW c, IsCatalog(c), NEW l \in DOMAIN c.labs,
         NEW run \in CountedRuns(c, l), NEW other \in CountedRuns(c, l), run.id = other.id
  PROVE  run = other
<1> DEFINE s == c.labs[l].runs
           S == {i \in DOMAIN s : s[i].id = run.id}
<1>1. run \in ElementsOf(s) /\ other \in ElementsOf(s) /\ RunIsUnique(c.labs[l], run)
  BY BindingOfIs
<1>2. s \in Seq(RequiredRun)
  BY RunsAre
<1>3. PICK i \in DOMAIN s : s[i] = run
  BY <1>1 DEF ElementsOf
<1>4. PICK j \in DOMAIN s : s[j] = other
  BY <1>1 DEF ElementsOf
<1>5. i \in S /\ j \in S
  BY <1>3, <1>4
<1>6. Cardinality(S) = 1
  BY <1>1 DEF RunIsUnique
<1>7. IsFiniteSet(S)
  <2>1. DOMAIN s = 1 .. Len(s) /\ Len(s) \in Nat
    BY <1>2
  <2>2. IsFiniteSet(1 .. Len(s))
    BY <2>1, FS_Interval
  <2>3. S \subseteq 1 .. Len(s)
    BY <2>1
  <2> HIDE DEF S
  <2> QED
    BY <2>2, <2>3, FS_Subset
<1> HIDE DEF S
<1>8. \E x : S = {x}
  BY <1>6, <1>7, FS_Singleton
<1> QED
  BY <1>3, <1>4, <1>5, <1>8

(* Two cells of the matrix are not at one place.                           *)
LEMMA CellsDiffer ==
  ASSUME NEW c, IsCatalog(c), NEW x \in MatrixCells(c), NEW y \in MatrixCells(c)
  PROVE  PlaceOf(x) \in Places /\ (PlaceOf(x) = PlaceOf(y) => x = y)
<1>1. PICK l \in CountedLabs(c) : \E run \in CountedRuns(c, l) : \E role, impl, adapter \in Ident :
        x = CellOf(c, l, run, role, impl, adapter)
  BY MatrixCellIs
<1>2. PICK run \in CountedRuns(c, l), role \in Ident, impl \in Ident, adapter \in Ident :
        x = CellOf(c, l, run, role, impl, adapter)
  BY <1>1
<1>3. PICK l2 \in CountedLabs(c) : \E run2 \in CountedRuns(c, l2) : \E role2, impl2, adapter2 \in Ident :
        y = CellOf(c, l2, run2, role2, impl2, adapter2)
  BY MatrixCellIs
<1>4. PICK run2 \in CountedRuns(c, l2), role2 \in Ident, impl2 \in Ident, adapter2 \in Ident :
        y = CellOf(c, l2, run2, role2, impl2, adapter2)
  BY <1>3
<1>5. l \in DOMAIN c.labs /\ l2 \in DOMAIN c.labs
  BY DEF CountedLabs
<1>6. /\ PlaceOf(x) = PlaceIn(c, l, run, role, impl, adapter)
      /\ PlaceIn(c, l, run, role, impl, adapter) \in Places
  BY <1>2, <1>5, PlaceOfCellIs
<1>7. PlaceOf(y) = PlaceIn(c, l2, run2, role2, impl2, adapter2)
  BY <1>4, <1>5, PlaceOfCellIs
<1>8. ASSUME PlaceOf(x) = PlaceOf(y)
      PROVE  x = y
  <2>1. l = l2 /\ run.id = run2.id /\ impl = impl2 /\ adapter = adapter2 /\ role = role2
    BY <1>6, <1>7, <1>8 DEF PlaceIn
  <2>2. run = run2
    BY <1>5, <2>1, RunsDiffer
  <2> QED
    BY <1>2, <1>4, <2>1, <2>2
<1> QED
  BY <1>6, <1>8

(* The matrix lists its cells, each once.                                  *)
LEMMA MatrixIs ==
  ASSUME NEW c, IsCatalog(c)
  PROVE  /\ Matrix(c) \in Seq(MatrixCells(c)) /\ Exhausts(Matrix(c), Len(Matrix(c)), MatrixCells(c))
         /\ Distinct(Matrix(c))
<1> DEFINE S == MatrixCells(c)
           n == Cardinality(S)
           R == {r \in S \X S : Before(PlaceOf(r[1]), PlaceOf(r[2]))}
<1>1. IsFiniteSet(S) /\ n \in Nat
  <2>1. IsFiniteSet(S)
    BY MatrixIsFinite
  <2> QED
    BY <2>1, FS_CardinalityType
<1>2. \A x, y \in S : <<x, y>> \in R <=> Before(PlaceOf(x), PlaceOf(y))
  OBVIOUS
<1>3. \A x, y \in S : PlaceOf(x) \in Places /\ (PlaceOf(x) = PlaceOf(y) => x = y)
  BY CellsDiffer
<1>4. Matrix(c) = Evaluated([i \in 1 .. n |-> CHOOSE x \in S : Cardinality({y \in S : Before(PlaceOf(y), PlaceOf(x))}) = i - 1])
  BY DEF Matrix, Sorted
<1> HIDE DEF R, S
<1>5. Linear(S, R)
  <2>1. \A x \in S : <<x, x>> \notin R
    BY <1>2, <1>3, NotBeforeItself
  <2>2. ASSUME NEW x \in S, NEW y \in S, NEW z \in S, <<x, y>> \in R, <<y, z>> \in R
        PROVE  <<x, z>> \in R
    <3>1. Before(PlaceOf(x), PlaceOf(y)) /\ Before(PlaceOf(y), PlaceOf(z))
      BY <1>2, <2>2
    <3>2. PlaceOf(x) \in Places /\ PlaceOf(y) \in Places /\ PlaceOf(z) \in Places
      BY <1>3
    <3>3. Before(PlaceOf(x), PlaceOf(z))
      BY <3>1, <3>2, BeforeInTurn
    <3> QED
      BY <1>2, <3>3
  <2>3. ASSUME NEW x \in S, NEW y \in S, x # y
        PROVE  <<x, y>> \in R \/ <<y, x>> \in R
    <3>1. PlaceOf(x) \in Places /\ PlaceOf(y) \in Places /\ PlaceOf(x) # PlaceOf(y)
      BY <1>3, <2>3
    <3>2. Before(PlaceOf(x), PlaceOf(y)) \/ Before(PlaceOf(y), PlaceOf(x))
      BY <3>1, OneIsBefore
    <3> QED
      BY <1>2, <3>2
  <2> QED
    BY <2>1, <2>2, <2>3 DEF Linear
<1>6. PICK at \in [1 .. n -> S] :
        /\ \A i \in 1 .. n : \A x \in S : Cardinality(Below(S, R, x)) = i - 1 <=> x = at[i]
        /\ \A x \in S : \E i \in 1 .. n : at[i] = x
        /\ \A i, j \in 1 .. n : i < j => <<at[i], at[j]>> \in R
  BY <1>1, <1>5, Enumerated
<1>7. ASSUME NEW x \in S
      PROVE  {y \in S : Before(PlaceOf(y), PlaceOf(x))} = Below(S, R, x)
  BY <1>2 DEF Below
<1> DEFINE pick(i) == CHOOSE x \in S : Cardinality({y \in S : Before(PlaceOf(y), PlaceOf(x))}) = i - 1
<1>8. ASSUME NEW i \in 1 .. n
      PROVE  pick(i) = at[i]
  <2>1. \A x \in S : Cardinality({y \in S : Before(PlaceOf(y), PlaceOf(x))}) = i - 1 <=> x = at[i]
    BY <1>6, <1>7
  <2>2. at[i] \in S
    BY <1>6
  <2> QED
    BY <2>1, <2>2
<1> DEFINE q == [i \in 1 .. n |-> pick(i)]
<1>9. Matrix(c) = Evaluated(q)
  BY <1>4
<1>10. q = at
  <2> HIDE DEF pick
  <2>1. q = [i \in 1 .. n |-> at[i]]
    BY <1>8
  <2> QED
    BY <1>6, <2>1
<1> HIDE DEF q, n
<1>11. at \in Seq(S) /\ Len(at) = n
  BY <1>1, <1>6, ListIs
<1>12. Matrix(c) = at
  BY <1>9, <1>10, <1>11, EvaluatedIs
<1>13. Exhausts(at, Len(at), S)
  BY <1>6, <1>11 DEF Exhausts
<1>14. Distinct(at)
  <2>1. ASSUME NEW i \in 1 .. n, NEW j \in 1 .. n, at[i] = at[j], i < j
        PROVE  FALSE
    <3>1. <<at[i], at[i]>> \in R
      BY <1>6, <2>1
    <3> QED
      BY <1>5, <1>6, <3>1 DEF Linear
  <2>2. DOMAIN at = 1 .. n
    BY <1>6
  <2> QED
    BY <1>1, <2>1, <2>2 DEF Distinct
<1> QED
  BY <1>11, <1>12, <1>13, <1>14 DEF S

(* The expected cells are a list, whatever the matrix.                     *)
LEMMA ExpectedIs ==
  ASSUME NEW X, NEW matrix \in Seq(X)
  PROVE  /\ Expected(matrix) \in Seq(ElementsOf(Expected(matrix)))
         /\ Len(Expected(matrix)) = Len(Picked(matrix, {i \in DOMAIN matrix : Defined(matrix[i])}))
         /\ \A i \in DOMAIN Expected(matrix) :
              LET cell == Picked(matrix, {j \in DOMAIN matrix : Defined(matrix[j])})[i]
              IN Expected(matrix)[i] = [cell |-> cell, profile |-> "deep", plan |-> Experiment[cell.key].plan]
<1> DEFINE S == {i \in DOMAIN matrix : Defined(matrix[i])}
           cells == Picked(matrix, S)
           at == [i \in DOMAIN cells |-> [cell |-> cells[i], profile |-> "deep", plan |-> Experiment[cells[i].key].plan]]
           Y == {at[i] : i \in DOMAIN cells}
<1>1. Expected(matrix) = Evaluated(at)
  BY Zenon DEF Expected
<1>2. S \in SUBSET DOMAIN matrix
  OBVIOUS
<1> HIDE DEF S
<1>3. cells \in Seq(X)
  BY <1>2, PickedIs
<1> HIDE DEF cells
<1>4. DOMAIN cells = 1 .. Len(cells) /\ Len(cells) \in Nat
  BY <1>3
<1>5. at \in [1 .. Len(cells) -> Y]
  BY <1>4
<1>6. \A i \in DOMAIN cells : at[i] = [cell |-> cells[i], profile |-> "deep", plan |-> Experiment[cells[i].key].plan]
  OBVIOUS
<1> HIDE DEF at, Y
<1>7. at \in Seq(Y) /\ Len(at) = Len(cells) /\ DOMAIN at = DOMAIN cells
  BY <1>4, <1>5, ListIs
<1>8. Expected(matrix) = at
  BY <1>1, <1>7, EvaluatedIs
<1>9. at \in Seq(ElementsOf(at))
  BY <1>7, ElementsAre
<1> QED
  BY <1>6, <1>7, <1>8, <1>9 DEF cells, S

------------------------------------------------------------------------------
(* What a root holds, whatever is done to it by hand.                      *)

BodyFields == {"id", "runSet", "input", "profile", "role", "key", "plan", "status", "checks", "value", "said"}

IsBody(b) ==
  /\ b = [f \in BodyFields |-> b[f]]
  /\ b.checks \in Seq(ElementsOf(b.checks)) /\ b.value \in Int

IsRecord(r) == r = [body |-> r.body, digest |-> r.digest] /\ IsBody(r.body)

AreRecords(store) == IsFiniteSet(DOMAIN store) /\ \A id \in DOMAIN store : IsRecord(store[id])

(* A body with another value in a field that is no list and no number.     *)
LEMMA BodyPut ==
  ASSUME NEW b, IsBody(b), NEW f \in BodyFields \ {"checks", "value"}, NEW v
  PROVE  IsBody([b EXCEPT ![f] = v])
<1> DEFINE d == [b EXCEPT ![f] = v]
<1>1. DOMAIN b = BodyFields
  BY DEF IsBody
<1>2. d = [x \in BodyFields |-> IF x = f THEN v ELSE b[x]]
  BY <1>1
<1>3. "checks" \in BodyFields /\ "value" \in BodyFields /\ f # "checks" /\ f # "value"
  BY DEF BodyFields
<1> HIDE DEF d
<1>4. d["checks"] = b["checks"] /\ d["value"] = b["value"]
  BY <1>2, <1>3
<1>5. d = [x \in BodyFields |-> d[x]]
  BY <1>2
<1>6. IsBody(d)
  BY <1>4, <1>5 DEF IsBody
<1> QED
  BY <1>6 DEF d

(* A changed body is one.                                                  *)
LEMMA BodyChanged ==
  ASSUME NEW b, IsBody(b), NEW d \in BodyChanges(b)
  PROVE  IsBody(d)
<1>1. ASSUME NEW f \in BodyFields \ {"checks", "value"}, NEW v, d = [b EXCEPT ![f] = v]
      PROVE  IsBody(d)
  BY <1>1, BodyPut
<1>2. DOMAIN b = BodyFields /\ "checks" \in BodyFields /\ "value" \in BodyFields
  BY DEF IsBody, BodyFields
<1>3. CASE d = [b EXCEPT !.checks = <<>>]
  <2>1. d = [x \in BodyFields |-> d[x]] /\ d["checks"] = <<>> /\ d["value"] = b["value"]
    BY <1>2, <1>3
  <2>2. <<>> \in Seq(ElementsOf(<<>>))
    OBVIOUS
  <2> QED
    BY <2>1, <2>2 DEF IsBody
<1>4. CASE \E o \in Outcome : d = [b EXCEPT !.value = o.value]
  <2>1. PICK o \in Outcome : d = [b EXCEPT !.value = o.value]
    BY <1>4
  <2>2. o.value \in Int
    <3> DEFINE lo == -(2 ^ (Bits - 1))
               hi == 2 ^ (Bits - 1) - 1
    <3>1. o.value \in Value
      BY ReleasePipelineAssumption
    <3>2. Value = lo .. hi
      BY DEF Value
    <3> HIDE DEF lo, hi
    <3> QED
      BY <3>1, <3>2
  <2>3. d = [x \in BodyFields |-> d[x]] /\ d["checks"] = b["checks"] /\ d["value"] = o.value
    BY <1>2, <2>1
  <2> QED
    BY <2>2, <2>3 DEF IsBody
<1>5. CASE d = [b EXCEPT !.key[4] = "other"] \/ d = [b EXCEPT !.plan.name = "other"]
  <2>1. \E v : d = [b EXCEPT !["key"] = v] \/ d = [b EXCEPT !["plan"] = v]
    BY <1>5
  <2>2. "key" \in BodyFields \ {"checks", "value"} /\ "plan" \in BodyFields \ {"checks", "value"}
    BY DEF BodyFields
  <2> QED
    BY <1>1, <2>1, <2>2
<1>6. CASE \E v : \/ d = [b EXCEPT !.status = v] \/ d = [b EXCEPT !.runSet = v] \/ d = [b EXCEPT !.profile = v]
                  \/ d = [b EXCEPT !.role = v] \/ d = [b EXCEPT !.said = v] \/ d = [b EXCEPT !.id = v]
                  \/ d = [b EXCEPT !.input = v]
  <2>1. {"status", "runSet", "profile", "role", "said", "id", "input"} \subseteq BodyFields \ {"checks", "value"}
    BY DEF BodyFields
  <2> QED
    BY <1>1, <1>6, <2>1
<1>7. \/ d = [b EXCEPT !.checks = <<>>]
      \/ \E o \in Outcome : d = [b EXCEPT !.value = o.value]
      \/ d = [b EXCEPT !.key[4] = "other"] \/ d = [b EXCEPT !.plan.name = "other"]
      \/ \E v : \/ d = [b EXCEPT !.status = v] \/ d = [b EXCEPT !.runSet = v] \/ d = [b EXCEPT !.profile = v]
                \/ d = [b EXCEPT !.role = v] \/ d = [b EXCEPT !.said = v] \/ d = [b EXCEPT !.id = v]
                \/ d = [b EXCEPT !.input = v]
  <2> DEFINE P1 == {[b EXCEPT !.status = "failed"], [b EXCEPT !.runSet = "left"], [b EXCEPT !.profile = "smoke"],
                    [b EXCEPT !.role = "variant"], [b EXCEPT !.key[4] = "other"], [b EXCEPT !.plan.name = "other"],
                    [b EXCEPT !.checks = <<>>], [b EXCEPT !.said = "unsafe"], [b EXCEPT !.id = IdAt("right", 0)]}
             P2 == {[b EXCEPT !.input = i] : i \in Input}
             P3 == {[b EXCEPT !.value = o.value] : o \in Outcome}
  <2>1. BodyChanges(b) = P1 \cup P2 \cup P3
    BY DEF BodyChanges
  <2>2. d \in P1 => \/ d = [b EXCEPT !.checks = <<>>]
                    \/ d = [b EXCEPT !.key[4] = "other"] \/ d = [b EXCEPT !.plan.name = "other"]
                    \/ \E v : \/ d = [b EXCEPT !.status = v] \/ d = [b EXCEPT !.runSet = v] \/ d = [b EXCEPT !.profile = v]
                              \/ d = [b EXCEPT !.role = v] \/ d = [b EXCEPT !.said = v] \/ d = [b EXCEPT !.id = v]
    BY Zenon
  <2>3. d \in P2 => \E v : d = [b EXCEPT !.input = v]
    BY Zenon
  <2>4. d \in P3 => \E o \in Outcome : d = [b EXCEPT !.value = o.value]
    BY Zenon
  <2> HIDE DEF P1, P2, P3
  <2>5. d \in P1 \/ d \in P2 \/ d \in P3
    BY <2>1, Zenon
  <2> QED
    BY <2>2, <2>3, <2>4, <2>5, Zenon
<1> QED
  BY <1>3, <1>4, <1>5, <1>6, <1>7

(* A sealed body is a record.                                              *)
LEMMA SealedIsRecord ==
  ASSUME NEW b, IsBody(b)
  PROVE  IsRecord(Seal(b))
  BY DEF IsRecord, Seal

(* A list that is given.                                                   *)
LEMMA IsAList ==
  ASSUME NEW X, NEW s \in Seq(X)
  PROVE  s \in Seq(ElementsOf(s))
  BY ElementsAre

(* A manifest with another value in its header.                            *)
LEMMA ManifestPut ==
  ASSUME NEW m, IsManifest(m), NEW f \in {"input", "profile", "runSet"}, NEW v
  PROVE  IsManifest([m EXCEPT ![f] = v])
<1> DEFINE d == [m EXCEPT ![f] = v]
<1>1. DOMAIN m = {"input", "profile", "runSet", "selections"} /\ f # "selections"
  BY DEF IsManifest
<1>2. d.selections = m.selections /\ DOMAIN d = {"input", "profile", "runSet", "selections"}
  BY <1>1
<1>3. d = [input |-> d.input, profile |-> d.profile, runSet |-> d.runSet, selections |-> d.selections]
  <2>1. d = [m EXCEPT !["input"] = v] \/ d = [m EXCEPT !["profile"] = v] \/ d = [m EXCEPT !["runSet"] = v]
    OBVIOUS
  <2> HIDE DEF d
  <2> QED
    BY <1>1, <2>1
<1> HIDE DEF d
<1>4. IsManifest(d)
  BY <1>2, <1>3 DEF IsManifest
<1> QED
  BY <1>4 DEF d

(* A manifest with other selections.                                       *)
LEMMA SelectionsPut ==
  ASSUME NEW m, IsManifest(m), NEW X, NEW sels \in Seq(X), \A s \in X : IsSelection(s)
  PROVE  IsManifest([m EXCEPT !.selections = sels])
<1> DEFINE d == [m EXCEPT !.selections = sels]
<1>1. DOMAIN m = {"input", "profile", "runSet", "selections"}
  BY DEF IsManifest
<1>2. d.selections = sels /\ DOMAIN d = {"input", "profile", "runSet", "selections"}
  BY <1>1
<1>3. d = [input |-> d.input, profile |-> d.profile, runSet |-> d.runSet, selections |-> d.selections]
  BY <1>2
<1> HIDE DEF d
<1>4. sels \in Seq(ElementsOf(sels)) /\ ElementsOf(sels) \subseteq X
  BY ElementsAre
<1>5. IsManifest(d)
  BY <1>2, <1>3, <1>4 DEF IsManifest
<1> QED
  BY <1>5 DEF d

(* A manifest with another value in a field of one selection.              *)
LEMMA SelectionChanged ==
  ASSUME NEW m, IsManifest(m), NEW i \in DOMAIN m.selections, NEW f \in {"id", "role", "digest"}, NEW v
  PROVE  IsManifest([m EXCEPT !.selections = [m.selections EXCEPT ![i] = [@ EXCEPT ![f] = v]]])
<1> DEFINE s == m.selections[i]
           t == [s EXCEPT ![f] = v]
           X == ElementsOf(m.selections) \cup {t}
           sels == [m.selections EXCEPT ![i] = t]
<1>1. m.selections \in Seq(ElementsOf(m.selections)) /\ s \in ElementsOf(m.selections) /\ IsSelection(s)
  BY DEF IsManifest, ElementsOf
<1>2. DOMAIN s = {"role", "key", "id", "digest"}
  BY <1>1 DEF IsSelection
<1>3. t = [role |-> t.role, key |-> t.key, id |-> t.id, digest |-> t.digest]
  BY <1>2
<1> HIDE DEF t, s
<1>4. IsSelection(t)
  BY <1>3 DEF IsSelection
<1>5. m.selections \in Seq(X)
  BY <1>1
<1>6. t \in X /\ \A x \in X : IsSelection(x)
  BY <1>4 DEF IsManifest
<1> HIDE DEF X
<1>7. sels \in Seq(X)
  BY <1>5, <1>6
<1>8. sels = [m.selections EXCEPT ![i] = [@ EXCEPT ![f] = v]]
  BY DEF t, s
<1> HIDE DEF sels
<1> QED
  BY <1>6, <1>7, <1>8, SelectionsPut

(* A manifest changed by hand is a manifest.                               *)
LEMMA ManifestChanged ==
  ASSUME NEW m, IsManifest(m), NEW d \in ManifestChanges(m)
  PROVE  IsManifest(d)
<1> DEFINE sels == m.selections
           P1 == {[m EXCEPT !.profile = "smoke"], [m EXCEPT !.runSet = "left"]}
           P2 == {[m EXCEPT !.input = i] : i \in Input}
           P3 == {[m EXCEPT !.selections = Without(@, i)] : i \in Ends(m.selections)}
           P4 == {[m EXCEPT !.selections[i].id = m.selections[j].id] : i \in Ends(m.selections), j \in Ends(m.selections)}
           P5 == {[m EXCEPT !.selections[i].role = "variant"] : i \in Ends(m.selections)}
           P6 == UNION {{[m EXCEPT !.selections[i].digest = r.digest] : r \in ElementsOf(root.right.store)} : i \in Ends(m.selections)}
<1>1. DOMAIN m = {"input", "profile", "runSet", "selections"} /\ sels \in Seq(ElementsOf(sels))
      /\ \A s \in ElementsOf(sels) : IsSelection(s)
  BY DEF IsManifest
<1>2. ASSUME NEW i \in Ends(sels)
      PROVE  i \in DOMAIN sels
  BY DEF Ends
<1>3. ASSUME NEW f \in {"input", "profile", "runSet"}, NEW v, d = [m EXCEPT ![f] = v]
      PROVE  IsManifest(d)
  BY <1>3, ManifestPut
<1>4. ASSUME NEW i \in Ends(sels), NEW f \in {"id", "role", "digest"}, NEW v,
             d = [m EXCEPT !.selections = [m.selections EXCEPT ![i] = [@ EXCEPT ![f] = v]]]
      PROVE  IsManifest(d)
  BY <1>2, <1>4, SelectionChanged
<1>5. ManifestChanges(m) = P1 \cup P2 \cup P3 \cup P4 \cup P5 \cup P6
  BY DEF ManifestChanges
<1>6. d \in P1 => IsManifest(d)
  BY <1>3
<1>7. d \in P2 => IsManifest(d)
  BY <1>3
<1>8. d \in P3 => IsManifest(d)
  <2>1. ASSUME NEW i \in Ends(sels), d = [m EXCEPT !.selections = Without(@, i)]
        PROVE  IsManifest(d)
    <3>1. Without(sels, i) \in Seq(ElementsOf(sels))
      BY <1>1, <1>2, WithoutIsList
    <3>2. d = [m EXCEPT !.selections = Without(sels, i)]
      BY <2>1
    <3> QED
      BY <1>1, <3>1, <3>2, SelectionsPut
  <2> QED
    BY <2>1
<1>9. d \in P4 => IsManifest(d)
  <2>1. ASSUME NEW i \in Ends(sels), NEW j \in Ends(sels), d = [m EXCEPT !.selections[i].id = m.selections[j].id]
        PROVE  IsManifest(d)
    BY <1>4, <2>1
  <2> QED
    BY <2>1
<1>10. d \in P5 => IsManifest(d)
  <2>1. ASSUME NEW i \in Ends(sels), d = [m EXCEPT !.selections[i].role = "variant"]
        PROVE  IsManifest(d)
    BY <1>4, <2>1
  <2> QED
    BY <2>1
<1>11. d \in P6 => IsManifest(d)
  <2>1. ASSUME NEW i \in Ends(sels), NEW r \in ElementsOf(root.right.store),
               d = [m EXCEPT !.selections[i].digest = r.digest]
        PROVE  IsManifest(d)
    BY <1>4, <2>1
  <2> QED
    BY <2>1
<1> HIDE DEF P1, P2, P3, P4, P5, P6
<1> QED
  BY <1>5, <1>6, <1>7, <1>8, <1>9, <1>10, <1>11, Zenon

(* Another record, or one record less, in a store.                         *)
LEMMA StorePut ==
  ASSUME NEW store, AreRecords(store), NEW id, NEW r, IsRecord(r)
  PROVE  AreRecords([x \in DOMAIN store \cup {id} |-> IF x = id THEN r ELSE store[x]])
<1> DEFINE d == [x \in DOMAIN store \cup {id} |-> IF x = id THEN r ELSE store[x]]
<1>1. IsFiniteSet(DOMAIN store)
  BY DEF AreRecords
<1>2. IsFiniteSet(DOMAIN store \cup {id})
  BY <1>1, FS_AddElement
<1>3. ASSUME NEW x \in DOMAIN store \cup {id}
      PROVE  IsRecord(d[x])
  BY DEF AreRecords
<1>4. DOMAIN d = DOMAIN store \cup {id}
  OBVIOUS
<1> HIDE DEF d
<1>5. AreRecords(d)
  BY <1>2, <1>3, <1>4 DEF AreRecords
<1> QED
  BY <1>5 DEF d

(* A store without one of its files still is a store of records.           *)
LEMMA StoreWithout ==
  ASSUME NEW store, AreRecords(store), NEW id
  PROVE  AreRecords([x \in DOMAIN store \ {id} |-> store[x]])
<1> DEFINE d == [x \in DOMAIN store \ {id} |-> store[x]]
<1>1. IsFiniteSet(DOMAIN store)
  BY DEF AreRecords
<1>2. IsFiniteSet(DOMAIN store \ {id})
  BY <1>1, FS_RemoveElement
<1>3. ASSUME NEW x \in DOMAIN store \ {id}
      PROVE  IsRecord(d[x])
  BY DEF AreRecords
<1>4. DOMAIN d = DOMAIN store \ {id}
  OBVIOUS
<1> HIDE DEF d
<1>5. AreRecords(d)
  BY <1>2, <1>3, <1>4 DEF AreRecords
<1> QED
  BY <1>5 DEF d

(* A store changed by hand holds records.                                  *)
LEMMA StoreChanged ==
  ASSUME NEW store, AreRecords(store), NEW d \in StoreChanges(store)
  PROVE  AreRecords(d)
<1> DEFINE touched == {IdAt("right", i) : i \in {1, Cardinality(DOMAIN store)}} \cap DOMAIN store
           Put(id, r) == [x \in DOMAIN store \cup {id} |-> IF x = id THEN r ELSE store[x]]
           P1 == {[x \in DOMAIN store \ {id} |-> store[x]] : id \in touched}
           P2 == UNION {{Put(id, Seal(b)) : b \in BodyChanges(store[id].body)} : id \in touched}
           P3 == UNION {{Put(id, [store[id] EXCEPT !.body = b]) : b \in BodyChanges(store[id].body)} : id \in touched}
           P4 == UNION {{Put(IdAt("right", 0), Seal([store[id].body EXCEPT !.id = IdAt("right", 0), !.runSet = side]))
                         : side \in Side} : id \in touched}
<1>1. StoreChanges(store) = P1 \cup P2 \cup P3 \cup P4
  BY DEF StoreChanges
<1>2. ASSUME NEW id \in touched
      PROVE  id \in DOMAIN store /\ IsRecord(store[id]) /\ IsBody(store[id].body)
  <2>1. id \in DOMAIN store
    OBVIOUS
  <2> QED
    BY <2>1 DEF AreRecords, IsRecord
<1> HIDE DEF touched
<1>3. ASSUME NEW id, NEW r, IsRecord(r)
      PROVE  AreRecords(Put(id, r))
  BY <1>3, StorePut
<1> HIDE DEF Put
<1>4. d \in P1 => AreRecords(d)
  <2>1. ASSUME NEW id \in touched, d = [x \in DOMAIN store \ {id} |-> store[x]]
        PROVE  AreRecords(d)
    BY <2>1, StoreWithout
  <2> QED
    BY <2>1
<1>5. d \in P2 => AreRecords(d)
  <2>1. ASSUME NEW id \in touched, NEW b \in BodyChanges(store[id].body), d = Put(id, Seal(b))
        PROVE  AreRecords(d)
    <3>1. IsBody(b)
      BY <1>2, BodyChanged
    <3>2. IsRecord(Seal(b))
      BY <3>1, SealedIsRecord
    <3> QED
      BY <1>3, <2>1, <3>2
  <2> QED
    BY <2>1
<1>6. d \in P3 => AreRecords(d)
  <2>1. ASSUME NEW id \in touched, NEW b \in BodyChanges(store[id].body), d = Put(id, [store[id] EXCEPT !.body = b])
        PROVE  AreRecords(d)
    <3>1. IsBody(b)
      BY <1>2, BodyChanged
    <3>2. store[id] = [body |-> store[id].body, digest |-> store[id].digest]
      BY <1>2 DEF IsRecord
    <3>3. [store[id] EXCEPT !.body = b] = [body |-> b, digest |-> store[id].digest]
      BY <3>2
    <3>4. IsRecord([store[id] EXCEPT !.body = b])
      BY <3>1, <3>3 DEF IsRecord
    <3> QED
      BY <1>3, <2>1, <3>4
  <2> QED
    BY <2>1
<1>7. d \in P4 => AreRecords(d)
  <2>1. ASSUME NEW id \in touched, NEW side \in Side,
               d = Put(IdAt("right", 0), Seal([store[id].body EXCEPT !.id = IdAt("right", 0), !.runSet = side]))
        PROVE  AreRecords(d)
    <3> DEFINE b == [store[id].body EXCEPT !["id"] = IdAt("right", 0)]
               e == [b EXCEPT !["runSet"] = side]
    <3>1. "id" \in BodyFields \ {"checks", "value"} /\ "runSet" \in BodyFields \ {"checks", "value"}
      BY DEF BodyFields
    <3>2. IsBody(b)
      BY <1>2, <3>1, BodyPut
    <3> HIDE DEF b
    <3>3. IsBody(e)
      BY <3>1, <3>2, BodyPut
    <3>4. e = [store[id].body EXCEPT !.id = IdAt("right", 0), !.runSet = side]
      BY DEF b
    <3> HIDE DEF e
    <3>5. IsRecord(Seal(e))
      BY <3>3, SealedIsRecord
    <3> QED
      BY <1>3, <2>1, <3>4, <3>5
  <2> QED
    BY <2>1
<1> HIDE DEF P1, P2, P3, P4
<1> QED
  BY <1>1, <1>4, <1>5, <1>6, <1>7, Zenon

(* The lists in a cell of the matrix.                                      *)
LEMMA CellListsAre ==
  ASSUME NEW c, IsCatalog(c), NEW cell \in MatrixCells(c)
  PROVE  cell.asserts \in Seq(Text) /\ cell.faults \in Seq(Text)
<1>1. PICK l \in CountedLabs(c) : \E run \in CountedRuns(c, l) : \E role, impl, adapter \in Ident :
        cell = CellOf(c, l, run, role, impl, adapter)
  BY MatrixCellIs
<1>2. PICK run \in CountedRuns(c, l) : \E role, impl, adapter \in Ident : cell = CellOf(c, l, run, role, impl, adapter)
  BY <1>1
<1>3. PICK role \in Ident, impl \in Ident, adapter \in Ident : cell = CellOf(c, l, run, role, impl, adapter)
  BY <1>2
<1>4. cell.asserts = BindingOf(c, l, run).asserts /\ cell.faults = run.faults
  BY <1>3 DEF CellOf
<1>5. l \in DOMAIN c.labs
  BY DEF CountedLabs
<1>6. run \in RequiredRun
  BY <1>5, RunsAre
<1>7. BindingOf(c, l, run) \in Binding
  BY <1>5, BindingOfIs
<1> QED
  BY <1>4, <1>6, <1>7 DEF Binding, RequiredRun

(* The expected cells are cells of the matrix.                             *)
LEMMA ExpectedCellIs ==
  ASSUME NEW c, IsCatalog(c), NEW i \in DOMAIN Expected(Matrix(c))
  PROVE  /\ Expected(Matrix(c))[i].cell \in MatrixCells(c) /\ Defined(Expected(Matrix(c))[i].cell)
         /\ Expected(Matrix(c))[i] = [cell |-> Expected(Matrix(c))[i].cell, profile |-> "deep",
                                      plan |-> Experiment[Expected(Matrix(c))[i].cell.key].plan]
<1> DEFINE matrix == Matrix(c)
           S == {j \in DOMAIN matrix : Defined(matrix[j])}
           cells == Picked(matrix, S)
<1>1. matrix \in Seq(MatrixCells(c))
  BY MatrixIs
<1> HIDE DEF matrix
<1>2. /\ Expected(matrix) \in Seq(ElementsOf(Expected(matrix))) /\ Len(Expected(matrix)) = Len(cells)
      /\ \A j \in DOMAIN Expected(matrix) :
           LET cell == cells[j] IN Expected(matrix)[j] = [cell |-> cell, profile |-> "deep", plan |-> Experiment[cell.key].plan]
  BY <1>1, ExpectedIs
<1>3. i \in DOMAIN Expected(matrix)
  BY DEF matrix
<1>4. Expected(matrix)[i] = [cell |-> cells[i], profile |-> "deep", plan |-> Experiment[cells[i].key].plan]
  BY <1>2, <1>3
<1>5. S \in SUBSET DOMAIN matrix /\ \A j \in S : Defined(matrix[j])
  OBVIOUS
<1>6. DOMAIN Expected(matrix) = 1 .. Len(cells)
  BY <1>2
<1> HIDE DEF S
<1>7. PICK at : PickedAt(matrix, S, at)
  BY <1>1, <1>5, PickedIs
<1>8. cells[i] = matrix[at[i]] /\ at[i] \in S
  BY <1>3, <1>6, <1>7 DEF PickedAt
<1>9. cells[i] \in MatrixCells(c) /\ Defined(cells[i])
  BY <1>1, <1>5, <1>8
<1> HIDE DEF cells
<1>10. Expected(matrix)[i].cell = cells[i]
  BY <1>4
<1> QED
  BY <1>4, <1>9, <1>10 DEF matrix

(* The records of a run are records.                                       *)
LEMMA AttemptsAre ==
  ASSUME NEW c, IsCatalog(c), NEW outcome \in Outcome, NEW side
  PROVE  AreRecords(Attempts(side, Expected(Matrix(c)), outcome))
<1> DEFINE expected == Expected(Matrix(c))
           f == [i \in DOMAIN expected |-> IdAt(side, i)]
           names == {IdAt(side, i) : i \in DOMAIN expected}
           d == Attempts(side, expected, outcome)
<1>1. expected \in Seq(ElementsOf(expected))
  BY MatrixIs, ExpectedIs
<1>2. \A i \in DOMAIN expected : expected[i].cell.asserts \in Seq(Text)
  BY ExpectedCellIs, CellListsAre
<1> HIDE DEF expected
<1>3. DOMAIN expected = 1 .. Len(expected) /\ Len(expected) \in Nat
  BY <1>1
<1>4. IsFiniteSet(names)
  <2>1. f \in [1 .. Len(expected) -> names] /\ \A x \in names : \E i \in 1 .. Len(expected) : f[i] = x
    BY <1>3
  <2>2. IsFiniteSet(1 .. Len(expected))
    BY <1>3, FS_Interval
  <2> HIDE DEF names, f
  <2> QED
    BY <2>1, <2>2, ListedIsFinite
<1>5. outcome.value \in Int
  <2> DEFINE lo == -(2 ^ (Bits - 1))
             hi == 2 ^ (Bits - 1) - 1
  <2>1. outcome.value \in Value
    BY ReleasePipelineAssumption
  <2>2. Value = lo .. hi
    BY DEF Value
  <2> HIDE DEF lo, hi
  <2> QED
    BY <2>1, <2>2
<1>6. ASSUME NEW i \in DOMAIN expected
      PROVE  IsRecord(RecordAt(side, expected[i], i, outcome))
  <2> DEFINE e == expected[i]
             asserts == e.cell.asserts
             checks == [j \in DOMAIN asserts |-> [id |-> asserts[j], passed |-> TRUE]]
             Y == {checks[j] : j \in DOMAIN asserts}
             b == [id |-> IdAt(side, i), runSet |-> side, input |-> CurrentInput, profile |-> e.profile,
                   role |-> e.cell.role, key |-> e.cell.key, plan |-> e.plan, status |-> "passed",
                   checks |-> checks, value |-> outcome.value, said |-> outcome.said]
  <2>1. asserts \in Seq(Text)
    BY <1>2
  <2> HIDE DEF asserts
  <2>2. DOMAIN asserts = 1 .. Len(asserts) /\ Len(asserts) \in Nat
    BY <2>1
  <2>3. checks \in [1 .. Len(asserts) -> Y]
    BY <2>2
  <2> HIDE DEF checks, Y
  <2>4. checks \in Seq(Y)
    BY <2>2, <2>3, ListIs
  <2>5. checks \in Seq(ElementsOf(checks))
    BY <2>4, IsAList
  <2>6. IsBody(b)
    BY <1>5, <2>5 DEF IsBody, BodyFields
  <2>7. RecordAt(side, e, i, outcome) = Seal(b)
    BY Zenon DEF RecordAt, checks, asserts
  <2> HIDE DEF b
  <2>8. IsRecord(Seal(b))
    BY <2>6, SealedIsRecord
  <2> QED
    BY <2>7, <2>8
<1>7. DOMAIN d = names
  BY DEF Attempts
<1>8. ASSUME NEW i \in DOMAIN expected
      PROVE  d[IdAt(side, i)] = RecordAt(side, expected[i], i, outcome)
  <2>1. IdAt(side, i)[2] = i /\ IdAt(side, i) \in names
    BY DEF IdAt
  <2> HIDE DEF names
  <2>2. d = [id \in names |-> RecordAt(side, expected[id[2]], id[2], outcome)]
    BY Zenon DEF Attempts, names
  <2> HIDE DEF d
  <2> QED
    BY <2>1, <2>2
<1> HIDE DEF d
<1>9. ASSUME NEW id \in names
      PROVE  IsRecord(d[id])
  BY <1>6, <1>8
<1>10. AreRecords(d)
  BY <1>4, <1>7, <1>9 DEF AreRecords
<1> QED
  BY <1>10 DEF d, expected

(* What Build makes is a manifest.                                         *)
LEMMA BuiltIsManifest ==
  ASSUME NEW input, NEW X, NEW expected \in Seq(X), NEW current
  PROVE  IsManifest(Manifest(input, expected, current))
<1> DEFINE m == Manifest(input, expected, current)
           sels == [i \in 1 .. Len(expected) |-> SelectionOf(RecordFor(current, expected[i]))]
           Y == {sels[i] : i \in 1 .. Len(expected)}
<1>1. m.selections = sels
  BY BuiltSelections
<1>2. sels \in [1 .. Len(expected) -> Y] /\ Len(expected) \in Nat
  OBVIOUS
<1>3. \A s \in Y : IsSelection(s)
  <2>1. ASSUME NEW r
        PROVE  IsSelection(SelectionOf(r))
    BY DEF IsSelection, SelectionOf
  <2> QED
    BY <2>1
<1> HIDE DEF sels, Y
<1>4. sels \in Seq(Y)
  BY <1>2, ListIs
<1>5. sels \in Seq(ElementsOf(sels)) /\ ElementsOf(sels) \subseteq Y
  BY <1>4, ElementsAre
<1>6. m = [input |-> m.input, profile |-> m.profile, runSet |-> m.runSet, selections |-> m.selections]
  BY DEF Manifest
<1> HIDE DEF m
<1>7. IsManifest(m)
  BY <1>1, <1>3, <1>5, <1>6 DEF IsManifest
<1> QED
  BY <1>7 DEF m

------------------------------------------------------------------------------
(* The state.                                                              *)

IsRoot(r) ==
  /\ r = [release |-> r.release, store |-> r.store]
  /\ AreRecords(r.store)
  /\ \A m \in r.release : IsManifest(m) /\ \A n \in r.release : m = n

CatalogHolds == IsCatalog(catalog) /\ Varied(catalog)
RootsHold == root = [side \in Side |-> root[side]] /\ \A side \in Side : IsRoot(root[side])
StateHolds == CatalogHolds /\ RootsHold

(* Another root in the place of one.                                       *)
LEMMA RootPut ==
  ASSUME RootsHold, NEW side \in Side, NEW r, IsRoot(r), root' = [root EXCEPT ![side] = r]
  PROVE  RootsHold'
<1>1. root' = [s \in Side |-> IF s = side THEN r ELSE root[s]]
  BY DEF RootsHold
<1>2. \A s \in Side : IsRoot(root'[s])
  BY <1>1 DEF RootsHold
<1> QED
  BY <1>1, <1>2 DEF RootsHold

(* The state holds at the beginning.                                       *)
LEMMA StateInit == Init => StateHolds
<1> SUFFICES ASSUME Init PROVE StateHolds
  OBVIOUS
<1>1. CatalogHolds
  BY ReleasePipelineAssumption DEF Init, CatalogHolds, Varied
<1>2. IsRoot([release |-> {}, store |-> <<>>])
  <2>1. DOMAIN << >> = {}
    OBVIOUS
  <2>2. IsFiniteSet({})
    BY FS_EmptySet
  <2> QED
    BY <2>1, <2>2 DEF IsRoot, AreRecords
<1>3. RootsHold
  <2> DEFINE r == [release |-> {}, store |-> <<>>]
  <2>1. root = [side \in Side |-> r]
    BY DEF Init
  <2> HIDE DEF r
  <2>2. IsRoot(r)
    BY <1>2 DEF r
  <2>3. \A side \in Side : IsRoot(root[side])
    BY <2>1, <2>2
  <2>4. root = [side \in Side |-> root[side]]
    BY <2>1
  <2> QED
    BY <2>3, <2>4 DEF RootsHold
<1> QED
  BY <1>1, <1>3 DEF StateHolds

(* A run that starts in an empty root leaves a root.                       *)
LEMMA FreshRunKeeps ==
  ASSUME StateHolds, NEW side \in Side, FreshRun(side)
  PROVE  RootsHold'
<1>1. PICK outcome \in Outcome :
        \/ root' = root
        \/ \E built \in BOOLEAN :
             LET expected == Expected(Matrix(catalog))
                 store    == Attempts(side, expected, outcome)
                 current  == ElementsOf(store)
             IN root' = [root EXCEPT ![side] =
                           [release |-> IF built THEN {Manifest(CurrentInput, expected, current)} ELSE {},
                            store |-> store]]
  BY Zenon DEF FreshRun, AllDefined, Buildable
<1>2. CASE root' = root
  BY <1>2 DEF RootsHold, StateHolds
<1>3. ASSUME NEW built \in BOOLEAN,
             LET expected == Expected(Matrix(catalog))
                 store    == Attempts(side, expected, outcome)
                 current  == ElementsOf(store)
             IN root' = [root EXCEPT ![side] =
                           [release |-> IF built THEN {Manifest(CurrentInput, expected, current)} ELSE {},
                            store |-> store]]
      PROVE  RootsHold'
  <2> DEFINE expected == Expected(Matrix(catalog))
             store    == Attempts(side, expected, outcome)
             current  == ElementsOf(store)
             m == Manifest(CurrentInput, expected, current)
             r == [release |-> IF built THEN {m} ELSE {}, store |-> store]
  <2>1. IsCatalog(catalog) /\ RootsHold
    BY DEF StateHolds, CatalogHolds
  <2>2. AreRecords(store)
    BY <2>1, AttemptsAre
  <2>3. expected \in Seq(ElementsOf(expected))
    BY <2>1, MatrixIs, ExpectedIs
  <2>4. root' = [root EXCEPT ![side] = r]
    BY <1>3, Zenon
  <2> HIDE DEF expected, store, current
  <2>5. IsManifest(m)
    BY <2>3, BuiltIsManifest
  <2> HIDE DEF m
  <2>6. IsRoot(r)
    BY <2>2, <2>5 DEF IsRoot
  <2> HIDE DEF r
  <2> QED
    BY <2>1, <2>4, <2>6, RootPut
<1> QED
  BY <1>1, <1>2, <1>3

(* Whatever is changed by hand in a root, it stays one.                    *)
LEMMA TamperKeeps ==
  ASSUME StateHolds, Tamper
  PROVE  RootsHold'
<1> DEFINE right == root.right
           store == right.store
<1>1. RootsHold /\ "right" \in Side
  BY DEF StateHolds, Side
<1>2. IsRoot(right) /\ AreRecords(store)
  BY <1>1 DEF RootsHold, IsRoot
<1>3. right = [release |-> right.release, store |-> store]
  BY <1>2 DEF IsRoot
<1>4. DOMAIN root = Side /\ root.right = root["right"]
  BY <1>1 DEF RootsHold
<1>5. ASSUME NEW r, IsRoot(r), root' = [root EXCEPT !["right"] = r]
      PROVE  RootsHold'
  BY <1>1, <1>5, RootPut
<1>6. ASSUME NEW m \in right.release, NEW n \in ManifestChanges(m), root' = [root EXCEPT !.right.release = {n}]
      PROVE  RootsHold'
  <2>1. IsManifest(m)
    BY <1>2 DEF IsRoot
  <2>2. IsManifest(n)
    BY <2>1, ManifestChanged
  <2> DEFINE r == [release |-> {n}, store |-> store]
  <2>3. IsRoot(r)
    BY <1>2, <2>2 DEF IsRoot
  <2>4. r = [right EXCEPT !.release = {n}]
    BY <1>3
  <2>5. root' = [root EXCEPT !["right"] = [right EXCEPT !.release = {n}]]
    BY <1>6
  <2> HIDE DEF r
  <2> QED
    BY <1>5, <2>3, <2>4, <2>5
<1>7. ASSUME NEW s \in StoreChanges(store), root' = [root EXCEPT !.right.store = s]
      PROVE  RootsHold'
  <2>1. AreRecords(s)
    BY <1>2, StoreChanged
  <2> DEFINE r == [release |-> right.release, store |-> s]
  <2>2. IsRoot(r)
    BY <1>2, <2>1 DEF IsRoot
  <2>3. r = [right EXCEPT !.store = s]
    BY <1>3
  <2>4. root' = [root EXCEPT !["right"] = [right EXCEPT !.store = s]]
    BY <1>7
  <2> HIDE DEF r
  <2> QED
    BY <1>5, <2>2, <2>3, <2>4
<1>8. ASSUME NEW m \in right.release, NEW i \in Ends(m.selections), m.selections[i].id \in DOMAIN store,
             NEW b \in BodyChanges(store[m.selections[i].id].body),
             root' = [root EXCEPT !.right.store[m.selections[i].id] = Seal(b),
                                  !.right.release = {[m EXCEPT !.selections[i].digest = Hash(b)]}]
      PROVE  RootsHold'
  <2> DEFINE id == m.selections[i].id
             n == [m EXCEPT !.selections[i].digest = Hash(b)]
             s == [store EXCEPT ![id] = Seal(b)]
             r == [release |-> {n}, store |-> s]
  <2>1. IsManifest(m) /\ i \in DOMAIN m.selections
    BY <1>2 DEF IsRoot, Ends
  <2>2. IsManifest(n)
    BY <2>1, SelectionChanged
  <2>3. IsRecord(Seal(b))
    <3>1. IsBody(store[id].body)
      BY <1>2, <1>8 DEF AreRecords, IsRecord
    <3>2. IsBody(b)
      BY <3>1, BodyChanged
    <3> QED
      BY <3>2, SealedIsRecord
  <2>4. AreRecords(s)
    <3>1. DOMAIN s = DOMAIN store /\ \A x \in DOMAIN store : s[x] = IF x = id THEN Seal(b) ELSE store[x]
      OBVIOUS
    <3> HIDE DEF s, id
    <3> QED
      BY <1>2, <2>3, <3>1 DEF AreRecords
  <2>5. root' = [root EXCEPT !["right"] = [release |-> {n}, store |-> s]]
    <3> DEFINE sealed == Seal(b)
               x == id
    <3>1. root' = [root EXCEPT !.right.store[x] = sealed, !.right.release = {n}]
      BY <1>8
    <3> HIDE DEF n, sealed, x
    <3>2. [root EXCEPT !.right.store[x] = sealed, !.right.release = {n}]
            = [root EXCEPT !["right"] = [[right EXCEPT !.store = [store EXCEPT ![x] = sealed]] EXCEPT !.release = {n}]]
      BY <1>4
    <3>3. [[right EXCEPT !.store = [store EXCEPT ![x] = sealed]] EXCEPT !.release = {n}]
            = [release |-> {n}, store |-> [store EXCEPT ![x] = sealed]]
      <4> DEFINE y == [store EXCEPT ![x] = sealed]
                 z == {n}
      <4> HIDE DEF y, z
      <4>1. [right EXCEPT !.store = y] = [release |-> right.release, store |-> y]
        BY <1>3
      <4>2. [[release |-> right.release, store |-> y] EXCEPT !.release = z] = [release |-> z, store |-> y]
        OBVIOUS
      <4> QED
        BY <4>1, <4>2 DEF y, z
    <3> QED
      BY <3>1, <3>2, <3>3 DEF sealed, x
  <2> HIDE DEF n, s
  <2>6. IsRoot(r)
    BY <2>2, <2>4 DEF IsRoot
  <2> HIDE DEF r
  <2> QED
    BY <1>5, <2>5, <2>6 DEF r
<1> QED
  BY <1>6, <1>7, <1>8 DEF Tamper

(* Every step keeps catalog and roots what they are.                       *)
LEMMA StateNext == StateHolds /\ [Next]_vars => StateHolds'
<1> SUFFICES ASSUME StateHolds, [Next]_vars PROVE StateHolds'
  OBVIOUS
<1>1. ASSUME catalog' = catalog PROVE CatalogHolds'
  BY <1>1 DEF StateHolds, CatalogHolds, Varied
<1>2. ASSUME root' = root PROVE RootsHold'
  BY <1>2 DEF StateHolds, RootsHold
<1>3. CASE Ask
  BY <1>1, <1>2, <1>3 DEF Ask, StateHolds
<1>4. ASSUME NEW side \in Side, Run(side)
      PROVE  StateHolds'
  <2>1. catalog' = catalog /\ (FreshRun(side) \/ root' = root)
    BY <1>4 DEF Run, SecondRun
  <2>2. RootsHold'
    BY <1>2, <2>1, FreshRunKeeps
  <2> QED
    BY <1>1, <2>1, <2>2 DEF StateHolds
<1>5. CASE Take
  BY <1>1, <1>2, <1>5 DEF Take, StateHolds
<1>6. CASE ReportHeld
  BY <1>1, <1>2, <1>6 DEF ReportHeld, StateHolds
<1>7. CASE Dismiss
  BY <1>1, <1>2, <1>7 DEF Dismiss, StateHolds
<1>8. CASE Deed
  <2>1. CASE Edit
    <3>1. catalog' \in Edits(catalog) /\ root' = root
      BY <2>1 DEF Edit
    <3>2. IsCatalog(catalog') /\ Varied(catalog')
      BY <3>1, CatalogEdited DEF StateHolds, CatalogHolds
    <3>3. CatalogHolds'
      BY <3>2 DEF CatalogHolds, Varied
    <3> QED
      BY <1>2, <3>1, <3>3 DEF StateHolds
  <2>2. CASE Tamper
    <3>1. catalog' = catalog
      BY <2>2 DEF Tamper
    <3> QED
      BY <1>1, <2>2, <3>1, TamperKeeps DEF StateHolds
  <2>3. CASE Scribble
    BY <1>1, <1>2, <2>3 DEF Scribble, StateHolds
  <2> QED
    BY <1>8, <2>1, <2>2, <2>3 DEF Deed
<1>9. CASE UNCHANGED vars
  BY <1>1, <1>2, <1>9 DEF vars, StateHolds
<1> QED
  BY <1>3, <1>4, <1>5, <1>6, <1>7, <1>8, <1>9 DEF Next

(* In every state the catalog is one, the roots hold records and at most   *)
(* one manifest each, whatever was edited and changed by hand.             *)
THEOREM StateAlwaysHolds == Spec => []StateHolds
  BY StateInit, StateNext, PTL DEF Spec

(* AuditIsExact of every state.                                            *)
LEMMA AuditIsExactHere == StateHolds => AuditIsExact
<1> SUFFICES ASSUME StateHolds, NEW side \in Side, NEW m \in root[side].release
             PROVE  LET expected == Expected(Matrix(catalog))
                        store    == root[side].store
                        current  == {r \in ElementsOf(store) : r.body.runSet = m.runSet}
                    IN Audit(m, expected, store) = {}
                       <=> /\ Lists(store)
                           /\ Buildable(m.input, expected, current) /\ Manifest(m.input, expected, current) = m
  BY Zenon DEF AuditIsExact
<1> DEFINE expected == Expected(Matrix(catalog))
           store == root[side].store
<1>1. IsManifest(m) /\ IsFiniteSet(DOMAIN store)
  BY DEF StateHolds, RootsHold, IsRoot, AreRecords
<1>2. expected \in Seq(ElementsOf(expected))
  BY MatrixIs, ExpectedIs DEF StateHolds, CatalogHolds
<1>3. Current(store, m.runSet) = {r \in ElementsOf(store) : r.body.runSet = m.runSet}
  BY DEF Current
<1> HIDE DEF expected, store
<1>4. Audit(m, expected, store) = {} <=>
        /\ Lists(store) /\ Buildable(m.input, expected, Current(store, m.runSet))
        /\ Manifest(m.input, expected, Current(store, m.runSet)) = m
  BY <1>1, <1>2, AuditorsAgree
<1> QED
  BY <1>3, <1>4 DEF expected, store

(* The auditor accepts exactly the release the publisher would build of    *)
(* the records that are there: whatever the catalog was edited to, the     *)
(* cells it needs and the experiments registered for them, and whatever    *)
(* was done to the files of the evidence root.                             *)
THEOREM AuditExact == Spec => []AuditIsExact
  BY StateAlwaysHolds, AuditIsExactHere, PTL

------------------------------------------------------------------------------
(* A release that passes the audit.                                        *)

(* All places.                                                             *)
LEMMA PickAll ==
  ASSUME NEW X, NEW s \in Seq(X), NEW S, S = DOMAIN s
  PROVE  Picked(s, S) = s
<1> DEFINE n == Len(s)
           pick(i) == CHOOSE j \in S : Cardinality({k \in S : k < j}) = i - 1
<1>1. n \in Nat /\ S = 1 .. n /\ s \in [1 .. n -> X]
  OBVIOUS
<1>2. Cardinality(S) = n
  <2>1. ASSUME NEW k \in Nat PROVE Cardinality(1 .. k) = k
    BY FS_Interval
  <2> HIDE DEF n
  <2> QED
    BY <1>1, <2>1
<1>3. ASSUME NEW j \in S
      PROVE  Cardinality({k \in S : k < j}) = j - 1
  <2>1. {k \in S : k < j} = 1 .. j - 1 /\ j - 1 \in Nat
    BY <1>1
  <2>2. ASSUME NEW k \in Nat PROVE Cardinality(1 .. k) = k
    BY FS_Interval
  <2> DEFINE T == {k \in S : k < j}
  <2> HIDE DEF T
  <2>3. T = 1 .. j - 1
    BY <2>1 DEF T
  <2>4. Cardinality(T) = j - 1
    BY <2>1, <2>2, <2>3
  <2> QED
    BY <2>4 DEF T
<1>4. ASSUME NEW i \in 1 .. n
      PROVE  pick(i) = i
  <2>1. \A j \in S : Cardinality({k \in S : k < j}) = i - 1 <=> j = i
    BY <1>1, <1>3
  <2> QED
    BY <1>1, <2>1
<1> DEFINE q == [i \in 1 .. n |-> s[pick(i)]]
<1>5. Picked(s, S) = Evaluated(q)
  BY <1>2, Zenon DEF Picked
<1> HIDE DEF pick
<1>6. q = s
  BY <1>1, <1>4
<1> HIDE DEF q
<1> QED
  BY <1>5, <1>6, EvaluatedIs

Sound(m, expected, store) ==
  /\ IsManifest(m) /\ AreRecords(store) /\ expected \in Seq(ElementsOf(expected))
  /\ Agrees(m, expected, store)

(* A side whose audit finds nothing.                                       *)
LEMMA SoundIs ==
  ASSUME StateHolds, NEW side \in Side, SnapshotCodes(side, Expected(Matrix(catalog))) = {}
  PROVE  /\ Sound(ReleaseOf(side), Expected(Matrix(catalog)), root[side].store)
         /\ root[side].release # {} /\ ReleaseOf(side).input = CurrentInput /\ ReleaseOf(side).profile = "deep"
<1> DEFINE expected == Expected(Matrix(catalog))
           store == root[side].store
           m == ReleaseOf(side)
<1>1. Storage(side) = "loaded" /\ m.profile = "deep" /\ Audit(m, expected, store) = {}
  <2>1. SnapshotCodes(side, expected) = {}
    OBVIOUS
  <2>2. {"snapshot_missing"} # {} /\ {"manifest_invalid"} # {} /\ {"profile_mismatch"} # {}
    OBVIOUS
  <2>3. Storage(side) \in {"missing", "loaded", "invalid"}
    BY DEF Storage
  <2> HIDE DEF expected, m
  <2>4. Storage(side) # "missing" /\ Storage(side) # "invalid"
    BY <2>1, <2>2 DEF SnapshotCodes, StorageCodes
  <2> QED
    BY <2>1, <2>2, <2>3, <2>4 DEF SnapshotCodes, StorageCodes, m
<1>2. root[side].release # {} /\ m.input = CurrentInput
  BY <1>1 DEF Storage
<1>3. m \in root[side].release
  BY <1>2 DEF ReleaseOf
<1>4. IsManifest(m) /\ AreRecords(store)
  BY <1>3 DEF StateHolds, RootsHold, IsRoot
<1>5. expected \in Seq(ElementsOf(expected))
  BY MatrixIs, ExpectedIs DEF StateHolds, CatalogHolds
<1> HIDE DEF expected, store, m
<1>6. Agrees(m, expected, store)
  BY <1>1, <1>4, <1>5, AuditIsAgreement
<1>7. Sound(m, expected, store)
  BY <1>4, <1>5, <1>6 DEF Sound
<1> QED
  BY <1>1, <1>2, <1>7 DEF expected, store, m

(* The snapshot of a release that is sound.                                *)
IsSnapshot(a, m, expected, store) ==
  /\ a = [manifest |-> m, expected |-> expected, records |-> a.records, seal |-> BindingSeal(m, expected, a.records)]
  /\ AreSelected(a.records, m, expected, store) /\ Intact(a)

(* What the commands make of a sound release is such a snapshot.           *)
LEMMA SnapshotIs ==
  ASSUME NEW m, NEW expected, NEW store, Sound(m, expected, store)
  PROVE  IsSnapshot(Audited(m, expected, store), m, expected, store)
<1> DEFINE a == Audited(m, expected, store)
<1>1. /\ IsManifest(m) /\ expected \in Seq(ElementsOf(expected)) /\ Agrees(m, expected, store)
  BY DEF Sound
<1>2. Audit(m, expected, store) = {}
  BY <1>1, AuditIsAgreement
<1>3. Bound(m, expected, a.records)
  BY <1>2 DEF Audit, If
<1>4. AreSelected(a.records, m, expected, store)
  BY <1>1, AuditedRecords
<1>5. a = [manifest |-> m, expected |-> expected, records |-> a.records, seal |-> BindingSeal(m, expected, a.records)]
  BY DEF Audited
<1>6. a.seal = BindingSeal(a.manifest, a.expected, a.records) /\ a.seal # <<>> /\ a.manifest = m /\ a.expected = expected
  BY <1>5 DEF BindingSeal
<1> HIDE DEF a
<1>7. Intact(a)
  BY <1>3, <1>6 DEF Intact
<1>8. IsSnapshot(a, m, expected, store)
  BY <1>4, <1>5, <1>7 DEF IsSnapshot
<1> QED
  BY <1>8 DEF a

(* What is known of the record of a cell.                                  *)
Proves(r, m, expected, store, i) ==
  /\ m.selections[i].id \in DOMAIN store /\ r = store[m.selections[i].id] /\ r.body.id = m.selections[i].id
  /\ m.selections[i].key = expected[i].cell.key /\ r.body.key = expected[i].cell.key
  /\ IsRecord(r) /\ MatchesExpected(r, expected[i]) /\ ValidExpectedCell(expected[i])

(* The record a sound release selects for a cell proves that cell.         *)
LEMMA RecordProves ==
  ASSUME NEW m, NEW expected, NEW store, Sound(m, expected, store),
         NEW a, IsSnapshot(a, m, expected, store), NEW i \in DOMAIN expected
  PROVE  Proves(a.records[i], m, expected, store, i)
<1> DEFINE r == a.records[i]
           s == m.selections[i]
<1>1. AgreesAt(m, expected, store, i) /\ ValidExpected(expected) /\ Lists(store)
  BY DEF Sound, Agrees
<1>2. r = store[s.id]
  BY DEF IsSnapshot, AreSelected
<1>3. s.id \in DOMAIN store /\ s.key = expected[i].cell.key /\ MatchesExpected(r, expected[i])
  BY <1>1, <1>2 DEF AgreesAt
<1>4. r.body.id = s.id
  BY <1>1, <1>2, <1>3 DEF Lists, Loads
<1>5. r.body.key = expected[i].cell.key
  BY <1>3 DEF MatchesExpected
<1>6. IsRecord(r)
  BY <1>2, <1>3 DEF Sound, AreRecords
<1>7. ValidExpectedCell(expected[i])
  BY <1>1 DEF ValidExpected, ElementsOf
<1> QED
  BY <1>2, <1>3, <1>4, <1>5, <1>6, <1>7 DEF Proves

(* No two cells have one key.                                              *)
LEMMA KeysDiffer ==
  ASSUME NEW m, NEW expected, NEW store, Sound(m, expected, store)
  PROVE  \A i, j \in DOMAIN expected : expected[i].cell.key = expected[j].cell.key => i = j
<1> DEFINE keys == [i \in DOMAIN expected |-> expected[i].cell.key]
<1>1. Distinct(keys)
  BY DEF Sound, Agrees, ValidExpected
<1> QED
  BY <1>1 DEF Distinct

(* The one record a side has for a cell.                                   *)
LEMMA RecordOfIs ==
  ASSUME NEW side \in Side, NEW expected, Sound(ReleaseOf(side), expected, root[side].store),
         NEW a, IsSnapshot(a, ReleaseOf(side), expected, root[side].store), NEW i \in DOMAIN expected
  PROVE  RecordOf(side, expected[i].cell.key) = a.records[i]
<1> DEFINE m == ReleaseOf(side)
           store == root[side].store
           key == expected[i].cell.key
           chosen(r) == \E s \in ElementsOf(m.selections) : s.key = key /\ s.id = r.body.id
<1>1. RecordOf(side, key) = CHOOSE r \in ElementsOf(store) : chosen(r)
  BY DEF RecordOf
<1>2. \A j \in DOMAIN expected : Proves(a.records[j], m, expected, store, j)
  BY RecordProves
<1>3. \A j \in DOMAIN expected : expected[j].cell.key = key => j = i
  BY KeysDiffer
<1>4. Sound(m, expected, store)
  OBVIOUS
<1> HIDE DEF m, store, key
<1>5. DOMAIN m.selections = DOMAIN expected
  <2>1. m.selections \in Seq(ElementsOf(m.selections)) /\ expected \in Seq(ElementsOf(expected))
        /\ Len(m.selections) = Len(expected)
    BY <1>4 DEF Sound, IsManifest, Agrees
  <2> QED
    BY <2>1
<1>6. Lists(store)
  BY <1>4 DEF Sound, Agrees
<1>7. a.records[i] \in ElementsOf(store) /\ chosen(a.records[i])
  <2>1. Proves(a.records[i], m, expected, store, i)
    BY <1>2
  <2>2. m.selections[i] \in ElementsOf(m.selections)
    BY <1>5 DEF ElementsOf
  <2>3. a.records[i] \in ElementsOf(store)
    BY <2>1 DEF Proves, ElementsOf
  <2> QED
    BY <2>1, <2>2, <2>3 DEF Proves, key
<1>8. ASSUME NEW r \in ElementsOf(store), chosen(r)
      PROVE  r = a.records[i]
  <2>1. PICK s \in ElementsOf(m.selections) : s.key = key /\ s.id = r.body.id
    BY <1>8
  <2>2. PICK j \in DOMAIN expected : s = m.selections[j]
    BY <1>5 DEF ElementsOf
  <2>3. Proves(a.records[j], m, expected, store, j)
    BY <1>2
  <2>4. j = i
    BY <1>3, <2>1, <2>2, <2>3 DEF Proves
  <2>5. PICK x \in DOMAIN store : r = store[x]
    BY DEF ElementsOf
  <2>6. r.body.id = x
    BY <1>6, <2>5 DEF Lists, Loads
  <2> QED
    BY <2>1, <2>2, <2>3, <2>4, <2>5, <2>6 DEF Proves
<1> HIDE DEF chosen
<1>9. (CHOOSE r \in ElementsOf(store) : chosen(r)) = a.records[i]
  BY <1>7, <1>8
<1> QED
  BY <1>1, <1>9 DEF key

------------------------------------------------------------------------------
(* The comparison of two sides that are sound.                             *)

(* The elements that are picked.                                           *)
LEMMA PickedElements ==
  ASSUME NEW X, NEW s \in Seq(X), NEW S \in SUBSET DOMAIN s
  PROVE  ElementsOf(Picked(s, S)) = {s[j] : j \in S}
<1>1. PICK at : PickedAt(s, S, at)
  BY PickedIs
<1> DEFINE n == Cardinality(S)
<1>2. /\ n \in Nat /\ at \in [1 .. n -> S] /\ Picked(s, S) = [i \in 1 .. n |-> s[at[i]]]
      /\ \A j \in S : \E i \in 1 .. n : at[i] = j
  BY <1>1 DEF PickedAt
<1> DEFINE P == Picked(s, S)
<1> HIDE DEF n, P
<1>3. DOMAIN P = 1 .. n /\ \A i \in 1 .. n : P[i] = s[at[i]] /\ at[i] \in S
  BY <1>2 DEF P
<1>4. \A x \in ElementsOf(P) : x \in {s[j] : j \in S}
  BY <1>3 DEF ElementsOf
<1>5. \A j \in S : s[j] \in ElementsOf(P)
  BY <1>2, <1>3 DEF ElementsOf
<1>6. ElementsOf(P) = {s[j] : j \in S}
  BY <1>4, <1>5
<1> QED
  BY <1>6 DEF P

(* Picked elements that differ in the list differ.                         *)
LEMMA PickedOnce ==
  ASSUME NEW X, NEW s \in Seq(X), NEW S \in SUBSET DOMAIN s
  PROVE  \A i, j \in DOMAIN Picked(s, S) :
           i # j => \E k, l \in S : k # l /\ Picked(s, S)[i] = s[k] /\ Picked(s, S)[j] = s[l]
<1>1. PICK at : PickedAt(s, S, at)
  BY PickedIs
<1> DEFINE n == Cardinality(S)
<1>2. /\ n \in Nat /\ at \in [1 .. n -> S] /\ Picked(s, S) = [i \in 1 .. n |-> s[at[i]]]
      /\ \A i, j \in 1 .. n : i < j => at[i] < at[j]
  BY <1>1 DEF PickedAt
<1> HIDE DEF n
<1>3. S \subseteq Int
  OBVIOUS
<1>4. ASSUME NEW i \in 1 .. n, NEW j \in 1 .. n, i # j
      PROVE  at[i] # at[j]
  <2>1. i < j \/ j < i
    BY <1>4
  <2>2. at[i] \in Int /\ at[j] \in Int
    BY <1>2, <1>3
  <2> QED
    BY <1>2, <2>1, <2>2
<1> QED
  BY <1>2, <1>4

(* One record for each cell.                                               *)
LEMMA AtCellIs ==
  ASSUME NEW m, NEW expected, NEW store, Sound(m, expected, store),
         NEW a, IsSnapshot(a, m, expected, store), NEW j \in DOMAIN expected
  PROVE  AtCell(a, expected[j].cell.key) = {j}
<1>1. DOMAIN a.records = DOMAIN expected
  BY DEF IsSnapshot, AreSelected
<1>2. \A i \in DOMAIN expected : a.records[i].body.key = expected[i].cell.key
  BY RecordProves DEF Proves
<1>3. \A i \in DOMAIN expected : expected[i].cell.key = expected[j].cell.key => i = j
  BY KeysDiffer
<1> QED
  BY <1>1, <1>2, <1>3 DEF AtCell

(* What two records that pass for one cell checked is the same.            *)
LEMMA ChecksAgree ==
  ASSUME NEW l, NEW r, NEW e, IsRecord(l), IsRecord(r), MatchesExpected(l, e), MatchesExpected(r, e)
  PROVE  SameChecks(l.body, r.body) /\ l.body.role = r.body.role
<1>1. /\ l.body.checks \in Seq(ElementsOf(l.body.checks)) /\ r.body.checks \in Seq(ElementsOf(r.body.checks))
  BY DEF IsRecord, IsBody
<1>2. ChecksMatch(l.body, e) /\ ChecksMatch(r.body, e) /\ l.body.role = r.body.role
  BY DEF MatchesExpected
<1>3. Len(l.body.checks) = Len(r.body.checks)
  BY <1>2 DEF ChecksMatch
<1>4. DOMAIN l.body.checks = DOMAIN r.body.checks
  BY <1>1, <1>3
<1> QED
  BY <1>2, <1>3, <1>4 DEF SameChecks, ChecksMatch

(* The sides match, cell by cell.                                          *)
LEMMA SidesCompare ==
  ASSUME NEW lm, NEW rm, NEW expected, NEW ls, NEW rs, Sound(lm, expected, ls), Sound(rm, expected, rs),
         NEW l, IsSnapshot(l, lm, expected, ls), NEW r, IsSnapshot(r, rm, expected, rs),
         lm.input = rm.input, lm.profile = rm.profile
  PROVE  Comparable(l, r)
<1>1. /\ Intact(l) /\ Intact(r) /\ l.manifest = lm /\ r.manifest = rm /\ l.expected = expected /\ r.expected = expected
      /\ Len(l.records) = Len(expected) /\ Len(r.records) = Len(expected)
      /\ DOMAIN l.records = DOMAIN expected /\ DOMAIN r.records = DOMAIN expected
  BY DEF IsSnapshot, AreSelected
<1>2. ASSUME NEW j \in DOMAIN expected
      PROVE  /\ r.records[j].body.key = expected[j].cell.key
             /\ AtCell(l, expected[j].cell.key) = {j} /\ AtCell(r, expected[j].cell.key) = {j}
             /\ l.records[j].body.role = r.records[j].body.role
             /\ SameChecks(l.records[j].body, r.records[j].body)
  <2>1. Proves(l.records[j], lm, expected, ls, j) /\ Proves(r.records[j], rm, expected, rs, j)
    BY RecordProves
  <2>2. AtCell(l, expected[j].cell.key) = {j} /\ AtCell(r, expected[j].cell.key) = {j}
    BY AtCellIs
  <2> QED
    BY <2>1, <2>2, ChecksAgree DEF Proves
<1>3. \A j : Cardinality({j}) = 1
  BY FS_Singleton
<1>4. ASSUME NEW j \in DOMAIN r.records
      PROVE  LET b == r.records[j].body IN
             /\ Cardinality(AtCell(l, b.key)) = 1 /\ Cardinality(AtCell(r, b.key)) = 1
             /\ \A i \in AtCell(l, b.key) :
                  /\ l.records[i].body.role = b.role /\ l.expected[i] = r.expected[j]
                  /\ SameChecks(l.records[i].body, b)
  <2>1. r.records[j].body.key = expected[j].cell.key /\ j \in DOMAIN expected
    BY <1>1, <1>2
  <2>2. AtCell(l, r.records[j].body.key) = {j} /\ AtCell(r, r.records[j].body.key) = {j}
    BY <1>2, <2>1
  <2> QED
    BY <1>1, <1>2, <1>3, <2>1, <2>2
<1>5. l.manifest.input = r.manifest.input /\ l.manifest.profile = r.manifest.profile
      /\ Len(l.records) = Len(r.records)
  BY <1>1
<1> QED
  BY <1>1, <1>4, <1>5, Zenon DEF Comparable

(* The rows of all cells, and those that are changed.                      *)
RowsOf(expected, l, r) == [j \in DOMAIN expected |-> DiffRow(expected[j], l.records[j].body, r.records[j].body)]
ChangedAt(expected, l, r) == {j \in DOMAIN expected : Changed(RowsOf(expected, l, r)[j])}

(* The rows of a diff are those of the cells that changed, in their order. *)
LEMMA DiffRowsAre ==
  ASSUME NEW lm, NEW rm, NEW expected, NEW ls, NEW rs, Sound(lm, expected, ls), Sound(rm, expected, rs),
         NEW l, IsSnapshot(l, lm, expected, ls), NEW r, IsSnapshot(r, rm, expected, rs)
  PROVE  /\ DiffRows(l, r) = Picked(RowsOf(expected, l, r), ChangedAt(expected, l, r))
         /\ \E X : RowsOf(expected, l, r) \in Seq(X)
         /\ DOMAIN RowsOf(expected, l, r) = DOMAIN expected
<1> DEFINE RowAt(j) == DiffRow(r.expected[j],
                               l.records[CHOOSE i \in AtCell(l, r.records[j].body.key) : TRUE].body,
                               r.records[j].body)
           rows == [j \in DOMAIN r.records |-> RowAt(j)]
           all == RowsOf(expected, l, r)
           Y == {all[j] : j \in DOMAIN expected}
<1>1. DiffRows(l, r) = Picked(rows, {j \in DOMAIN rows : Changed(rows[j])})
  BY DEF DiffRows
<1>2. r.expected = expected /\ DOMAIN r.records = DOMAIN expected
  BY DEF IsSnapshot, AreSelected
<1>3. ASSUME NEW j \in DOMAIN expected
      PROVE  RowAt(j) = DiffRow(expected[j], l.records[j].body, r.records[j].body)
  <2>1. r.records[j].body.key = expected[j].cell.key
    BY RecordProves DEF Proves
  <2>2. AtCell(l, r.records[j].body.key) = {j}
    BY <2>1, AtCellIs
  <2>3. (CHOOSE i \in AtCell(l, r.records[j].body.key) : TRUE) = j
    BY <2>2
  <2> QED
    BY <1>2, <2>3
<1>4. rows = all
  BY <1>2, <1>3 DEF RowsOf
<1>5. DOMAIN all = DOMAIN expected
  BY DEF RowsOf
<1>6. expected \in Seq(ElementsOf(expected))
  BY DEF Sound
<1>7. DOMAIN expected = 1 .. Len(expected) /\ Len(expected) \in Nat
  BY <1>6
<1>8. all \in [1 .. Len(expected) -> Y]
  BY <1>7 DEF RowsOf
<1>9. all \in Seq(Y)
  <2> HIDE DEF all, Y
  <2> QED
    BY <1>7, <1>8, ListIs
<1>10. {j \in DOMAIN rows : Changed(rows[j])} = ChangedAt(expected, l, r)
  <2> HIDE DEF rows
  <2> QED
    BY <1>4, <1>5 DEF ChangedAt
<1> HIDE DEF rows, Y
<1> QED
  BY <1>1, <1>4, <1>5, <1>9, <1>10

(* Where two records measured or said something else.                      *)
Differ(l, r) == l.body.value # r.body.value \/ l.body.said # r.body.said

(* What a comparison says of two snapshots.                                *)
Compares(d, expected, l, r) ==
  /\ d.status # "no-baseline" /\ DiffPrintable(d)
  /\ {row.cell.key : row \in ElementsOf(d.rows)}
       = {expected[j].cell.key : j \in {i \in DOMAIN expected : Differ(l.records[i], r.records[i])}}
  /\ \A row \in ElementsOf(d.rows) : \E j \in DOMAIN expected :
       /\ row.cell.key = expected[j].cell.key
       /\ \A x \in row.metrics : x.left = l.records[j].body.value /\ x.left + x.delta = r.records[j].body.value

(* The diff of two sound snapshots compares them.                          *)
LEMMA DiffCompares ==
  ASSUME NEW lm, NEW rm, NEW expected, NEW ls, NEW rs, Sound(lm, expected, ls), Sound(rm, expected, rs),
         NEW l, IsSnapshot(l, lm, expected, ls), NEW r, IsSnapshot(r, rm, expected, rs)
  PROVE  Compares(Diff(l, r), expected, l, r)
<1> DEFINE d == Diff(l, r)
           all == RowsOf(expected, l, r)
           S == ChangedAt(expected, l, r)
           P == Picked(all, S)
<1>1. d.rows = P /\ d.input = rm.input /\ d.profile = rm.profile
      /\ d.status = IF P = <<>> THEN "no-changes" ELSE "changes"
  <2>1. r.manifest = rm
    BY DEF IsSnapshot
  <2>2. DiffRows(l, r) = P
    BY DiffRowsAre
  <2> QED
    BY <2>1, <2>2 DEF Diff
<1>2. PICK X : all \in Seq(X)
  BY DiffRowsAre
<1>3. S \in SUBSET DOMAIN all
  <2>1. DOMAIN all = DOMAIN expected
    BY DEF RowsOf
  <2>2. S \subseteq DOMAIN expected
    BY DEF ChangedAt
  <2> QED
    BY <2>1, <2>2
<1>4. ElementsOf(P) = {all[j] : j \in S}
  BY <1>2, <1>3, PickedElements
<1>5. \A i, j \in DOMAIN P : i # j => \E k, n \in S : k # n /\ P[i] = all[k] /\ P[j] = all[n]
  BY <1>2, <1>3, PickedOnce
<1>6. ASSUME NEW j \in DOMAIN expected
      PROVE  /\ all[j].cell = expected[j].cell
             /\ all[j].metrics = MetricChanges(l.records[j].body, r.records[j].body)
             /\ all[j].texts = TextChanges(l.records[j].body, r.records[j].body)
  BY DEF RowsOf, DiffRow
<1>7. S \subseteq DOMAIN expected /\ \A j \in DOMAIN expected : j \in S <=> Changed(all[j])
  BY DEF ChangedAt
<1> HIDE DEF all, S
<1>8. ASSUME NEW j \in DOMAIN expected
      PROVE  Changed(all[j]) <=> Differ(l.records[j], r.records[j])
  BY <1>6 DEF Changed, MetricChanges, TextChanges, Differ
<1>9. ASSUME NEW j \in DOMAIN expected
      PROVE  /\ l.records[j].body.value \in Int /\ r.records[j].body.value \in Int
             /\ l.records[j].body.said # "unsafe" /\ r.records[j].body.said # "unsafe"
             /\ ValidRole(expected[j].cell.role, expected[j].cell.key)
  <2>1. Proves(l.records[j], lm, expected, ls, j) /\ Proves(r.records[j], rm, expected, rs, j)
    BY RecordProves
  <2> QED
    BY <2>1 DEF Proves, IsRecord, IsBody, MatchesExpected, Portable, ValidExpectedCell
<1>10. ASSUME NEW j \in DOMAIN expected, NEW x \in all[j].metrics
       PROVE  /\ x.left # x.right /\ x.delta = Delta(x.left, x.right)
              /\ x.left = l.records[j].body.value /\ x.left + x.delta = r.records[j].body.value
  <2> DEFINE left == l.records[j].body.value
             right == r.records[j].body.value
  <2>1. left # right /\ x = [left |-> left, right |-> right, delta |-> Delta(left, right)]
    BY <1>6, <1>10 DEF MetricChanges
  <2>2. left \in Int /\ right \in Int
    BY <1>9
  <2> HIDE DEF left, right
  <2>3. left + Delta(left, right) = right
    BY <2>2 DEF Delta
  <2> QED
    BY <2>1, <2>3 DEF left, right
<1>11. ASSUME NEW j \in DOMAIN expected, NEW t \in all[j].texts
       PROVE  t.left # t.right /\ "unsafe" \notin {t.left, t.right}
  <2> DEFINE left == l.records[j].body.said
             right == r.records[j].body.said
  <2>1. left # right /\ t = [left |-> left, right |-> right]
    BY <1>6, <1>11 DEF TextChanges
  <2>2. left # "unsafe" /\ right # "unsafe"
    BY <1>9
  <2> HIDE DEF left, right
  <2> QED
    BY <2>1, <2>2
<1>12. Distinct([i \in DOMAIN P |-> P[i].cell.key])
  <2>1. \A k, n \in S : k # n => all[k].cell.key # all[n].cell.key
    BY <1>6, <1>7, KeysDiffer
  <2> HIDE DEF P
  <2> QED
    BY <1>5, <2>1 DEF Distinct
<1> HIDE DEF P
<1>13. DiffPrintable(d)
  <2>1. d.input \in Input /\ d.profile \in Profile
    BY <1>1 DEF Sound, Agrees, ValidManifest
  <2>2. d.status = "changes" <=> d.rows # <<>>
    BY <1>1
  <2>3. ASSUME NEW row \in ElementsOf(d.rows)
        PROVE  /\ ValidRole(row.cell.role, row.cell.key) /\ Changed(row)
               /\ \A m \in row.metrics : m.left # m.right /\ m.delta = Delta(m.left, m.right)
               /\ \A t \in row.texts : t.left # t.right /\ "unsafe" \notin {t.left, t.right}
    <3>1. PICK j \in S : row = all[j]
      BY <1>1, <1>4
    <3> QED
      BY <1>6, <1>7, <1>9, <1>10, <1>11, <3>1
  <2>4. Distinct([i \in DOMAIN d.rows |-> d.rows[i].cell.key])
    BY <1>1, <1>12
  <2> HIDE DEF d
  <2> QED
    BY <2>1, <2>2, <2>3, <2>4 DEF DiffPrintable
<1> HIDE DEF d
<1>14. {row.cell.key : row \in ElementsOf(d.rows)}
         = {expected[j].cell.key : j \in {i \in DOMAIN expected : Differ(l.records[i], r.records[i])}}
  <2>1. {i \in DOMAIN expected : Differ(l.records[i], r.records[i])} = S
    BY <1>7, <1>8
  <2>2. \A j \in S : all[j].cell.key = expected[j].cell.key
    BY <1>6, <1>7
  <2>3. ElementsOf(d.rows) = {all[j] : j \in S}
    BY <1>1, <1>4
  <2> QED
    BY <2>1, <2>2, <2>3
<1>15. \A row \in ElementsOf(d.rows) : \E j \in DOMAIN expected :
         /\ row.cell.key = expected[j].cell.key
         /\ \A x \in row.metrics : x.left = l.records[j].body.value /\ x.left + x.delta = r.records[j].body.value
  BY <1>1, <1>4, <1>6, <1>7, <1>10
<1>16. d.status # "no-baseline"
  BY <1>1
<1>17. Compares(d, expected, l, r)
  BY <1>13, <1>14, <1>15, <1>16 DEF Compares
<1> QED
  BY <1>17 DEF d

------------------------------------------------------------------------------
(* diff.                                                                   *)

(* A manifest is there where there is a release.                           *)
LEMMA MissingIs ==
  ASSUME NEW side
  PROVE  Storage(side) = "missing" <=> root[side].release = {}
  BY DEF Storage

(* The first release says so.                                              *)
LEMMA NoBaselineIs ==
  ASSUME NEW m, NEW expected, NEW store, Sound(m, expected, store), NEW a, IsSnapshot(a, m, expected, store)
  PROVE  Intact(a) /\ DiffPrintable(NoBaselineDiff(a)) /\ NoBaselineDiff(a).status = "no-baseline"
<1> DEFINE d == NoBaselineDiff(a)
<1>1. /\ d.input = m.input /\ d.profile = m.profile /\ d.rows = <<>> /\ d.status = "no-baseline"
      /\ Intact(a)
  BY DEF NoBaselineDiff, IsSnapshot
<1>2. m.input \in Input /\ m.profile \in Profile
  BY DEF Sound, Agrees, ValidManifest
<1>3. DOMAIN d.rows = {} /\ ElementsOf(d.rows) = {}
  BY <1>1 DEF ElementsOf
<1> HIDE DEF d
<1>4. Distinct([i \in DOMAIN d.rows |-> d.rows[i].cell.key])
  BY <1>3 DEF Distinct
<1>5. DiffPrintable(d)
  BY <1>1, <1>2, <1>3, <1>4 DEF DiffPrintable
<1> QED
  BY <1>1, <1>5 DEF d

(* One snapshot, one model.                                                *)
LEMMA ModelsAre ==
  ASSUME NEW lefts, NEW r, Intact(r),
         \/ lefts = {} /\ DiffPrintable(NoBaselineDiff(r))
         \/ \E l : lefts = {l} /\ Comparable(l, r) /\ DiffPrintable(Diff(l, r))
  PROVE  /\ lefts = {} => DiffModels(lefts, r) = {NoBaselineDiff(r)}
         /\ \A l : lefts = {l} => DiffModels(lefts, r) = {Diff(l, r)}
<1>1. lefts = {} => DiffModels(lefts, r) = {NoBaselineDiff(r)}
  BY DEF DiffModels
<1>2. ASSUME NEW l, lefts = {l}
      PROVE  DiffModels(lefts, r) = {Diff(l, r)}
  <2>1. Comparable(l, r) /\ DiffPrintable(Diff(l, r)) /\ lefts # {}
    BY <1>2
  <2>2. {x \in lefts : Comparable(x, r)} = {l}
    BY <1>2, <2>1
  <2>3. {m \in {Diff(l, r)} : DiffPrintable(m)} = {Diff(l, r)}
    BY <2>1
  <2>4. DiffModels(lefts, r) = UNION {{m \in {Diff(x, r)} : DiffPrintable(m)} : x \in {x \in lefts : Comparable(x, r)}}
    BY <2>1 DEF DiffModels
  <2> QED
    BY <2>2, <2>3, <2>4
<1> QED
  BY <1>1, <1>2

RowsTell(d, expected) ==
  LET Differs(key) == \/ RecordOf("left", key).body.value # RecordOf("right", key).body.value
                      \/ RecordOf("left", key).body.said # RecordOf("right", key).body.said
  IN /\ {row.cell.key : row \in ElementsOf(d.rows)}
          = {e.cell.key : e \in {x \in ElementsOf(expected) : Differs(x.cell.key)}}
     /\ \A row \in ElementsOf(d.rows) : \A x \in row.metrics :
          /\ x.left = RecordOf("left", row.cell.key).body.value
          /\ x.left + x.delta = RecordOf("right", row.cell.key).body.value

DiffBody(a) ==
  LET expected == Expected(Matrix(catalog))
      IsSound(side) == SnapshotCodes(side, expected) = {}
  IN /\ (a.exit = 0) <=> (IsSound("right") /\ (root.left.release = {} \/ IsSound("left")))
     /\ \A m \in a.model :
          /\ (m.status = "no-baseline") <=> (root.left.release = {})
          /\ m.status # "no-baseline" => RowsTell(m, expected)

(* What a comparison says is said of the records of the cells.             *)
LEMMA ComparesRecords ==
  ASSUME NEW expected, Sound(ReleaseOf("left"), expected, root["left"].store),
         Sound(ReleaseOf("right"), expected, root["right"].store),
         NEW l, IsSnapshot(l, ReleaseOf("left"), expected, root["left"].store),
         NEW r, IsSnapshot(r, ReleaseOf("right"), expected, root["right"].store),
         NEW d, Compares(d, expected, l, r)
  PROVE  RowsTell(d, expected)
<1> DEFINE Differs(key) == \/ RecordOf("left", key).body.value # RecordOf("right", key).body.value
                           \/ RecordOf("left", key).body.said # RecordOf("right", key).body.said
<1>1. ASSUME NEW j \in DOMAIN expected
      PROVE  /\ RecordOf("left", expected[j].cell.key) = l.records[j]
             /\ RecordOf("right", expected[j].cell.key) = r.records[j]
  <2>1. "left" \in Side /\ "right" \in Side
    BY DEF Side
  <2> QED
    BY <2>1, RecordOfIs
<1>2. {row.cell.key : row \in ElementsOf(d.rows)}
        = {expected[j].cell.key : j \in {i \in DOMAIN expected : Differ(l.records[i], r.records[i])}}
  BY DEF Compares
<1>3. \A j \in DOMAIN expected : Differ(l.records[j], r.records[j]) <=> Differs(expected[j].cell.key)
  BY <1>1 DEF Differ
<1> HIDE DEF Differs
<1>4. {expected[j].cell.key : j \in {i \in DOMAIN expected : Differ(l.records[i], r.records[i])}}
        = {e.cell.key : e \in {x \in ElementsOf(expected) : Differs(x.cell.key)}}
  <2> DEFINE A == {expected[j].cell.key : j \in {i \in DOMAIN expected : Differ(l.records[i], r.records[i])}}
             B == {e.cell.key : e \in {x \in ElementsOf(expected) : Differs(x.cell.key)}}
  <2>1. ASSUME NEW k \in A PROVE k \in B
    <3>1. PICK j \in DOMAIN expected : Differ(l.records[j], r.records[j]) /\ k = expected[j].cell.key
      OBVIOUS
    <3>2. expected[j] \in ElementsOf(expected) /\ Differs(expected[j].cell.key)
      BY <1>3, <3>1 DEF ElementsOf
    <3> QED
      BY <3>1, <3>2
  <2>2. ASSUME NEW k \in B PROVE k \in A
    <3>1. PICK e \in ElementsOf(expected) : Differs(e.cell.key) /\ k = e.cell.key
      OBVIOUS
    <3>2. PICK j \in DOMAIN expected : e = expected[j]
      BY DEF ElementsOf
    <3> QED
      BY <1>3, <3>1, <3>2
  <2> HIDE DEF A, B
  <2>3. A = B
    BY <2>1, <2>2
  <2> QED
    BY <2>3 DEF A, B
<1>5. \A row \in ElementsOf(d.rows) : \A x \in row.metrics :
        /\ x.left = RecordOf("left", row.cell.key).body.value
        /\ x.left + x.delta = RecordOf("right", row.cell.key).body.value
  BY <1>1 DEF Compares
<1> QED
  BY <1>2, <1>4, <1>5 DEF Differs, RowsTell

(* What diff answers.                                                      *)
LEMMA DiffAnswers ==
  ASSUME StateHolds, DefinitionExit = 0, NEW a \in DiffAnswer
  PROVE  DiffBody(a)
<1> DEFINE expected == Expected(Matrix(catalog))
           IsSound(side) == SnapshotCodes(side, expected) = {}
           right == LoadDiff("right", expected, FALSE)
           left == LoadDiff("left", expected, TRUE)
           models == UNION {DiffModels(left.found, r) : r \in right.found}
           L == Snapshot("left", expected)
           R == Snapshot("right", expected)
           Shown(m) ==
             /\ (m.status = "no-baseline") <=> (root.left.release = {})
             /\ m.status # "no-baseline" => RowsTell(m, expected)
<1>1. DiffAnswer = IF right.found = {} THEN Answer("diff", right.exit, {})
                   ELSE IF left.exit # 0 THEN Answer("diff", left.exit, {})
                   ELSE Answer("diff", IF models = {} THEN 4 ELSE 0, models)
  BY DEF DiffAnswer
<1>2. SUFFICES /\ (a.exit = 0) <=> (IsSound("right") /\ (root.left.release = {} \/ IsSound("left")))
               /\ \A m \in a.model : Shown(m)
  BY Zenon DEF DiffBody
<1>3. /\ IsSound("right") => right = [found |-> {R}, exit |-> 0]
      /\ ~IsSound("right") => right.found = {} /\ right.exit = 4
  BY DEF LoadDiff
<1>4. /\ IsSound("left") => left = [found |-> {L}, exit |-> 0]
      /\ ~IsSound("left") /\ root.left.release = {} => left = [found |-> {}, exit |-> 0]
      /\ ~IsSound("left") /\ root.left.release # {} => left.exit = 4
  BY MissingIs DEF LoadDiff
<1>5. \A exit, model : \A x \in Answer("diff", exit, model) : x.exit = exit /\ x.model = model
  BY DEF Answer
<1>6. IsSound("left") => root.left.release # {}
  BY SoundIs DEF Side
<1>7. ASSUME NEW side \in Side, IsSound(side)
      PROVE  /\ Sound(ReleaseOf(side), expected, root[side].store)
             /\ IsSnapshot(Snapshot(side, expected), ReleaseOf(side), expected, root[side].store)
             /\ ReleaseOf(side).input = CurrentInput /\ ReleaseOf(side).profile = "deep"
  <2>1. Sound(ReleaseOf(side), expected, root[side].store)
        /\ ReleaseOf(side).input = CurrentInput /\ ReleaseOf(side).profile = "deep"
    BY <1>7, SoundIs
  <2>2. IsSnapshot(Audited(ReleaseOf(side), expected, root[side].store), ReleaseOf(side), expected, root[side].store)
    BY <2>1, SnapshotIs
  <2> QED
    BY <2>1, <2>2 DEF Snapshot
<1>8. "left" \in Side /\ "right" \in Side
  BY DEF Side
<1> HIDE DEF expected, right, left, L, R
<1>9. CASE ~IsSound("right")
  BY <1>1, <1>3, <1>5, <1>9
<1>10. CASE IsSound("right") /\ ~IsSound("left") /\ root.left.release # {}
  <2>1. DiffAnswer = Answer("diff", left.exit, {}) /\ left.exit = 4
    BY <1>1, <1>3, <1>4, <1>10
  <2> QED
    BY <1>5, <1>10, <2>1
<1>11. CASE IsSound("right") /\ root.left.release = {}
  <2>1. left = [found |-> {}, exit |-> 0] /\ right = [found |-> {R}, exit |-> 0]
    BY <1>3, <1>4, <1>6, <1>11
  <2>2. Intact(R) /\ DiffPrintable(NoBaselineDiff(R)) /\ NoBaselineDiff(R).status = "no-baseline"
    BY <1>7, <1>8, <1>11, NoBaselineIs DEF R
  <2>3. DiffModels({}, R) = {NoBaselineDiff(R)}
    BY <2>2, ModelsAre
  <2>4. models = {NoBaselineDiff(R)}
    BY <2>1, <2>3
  <2> HIDE DEF models
  <2>5. DiffAnswer = Answer("diff", 0, models)
    BY <1>1, <2>1, <2>4
  <2>6. a.exit = 0 /\ a.model = models
    BY <1>5, <2>5
  <2>7. Shown(NoBaselineDiff(R))
    BY <1>11, <2>2
  <2> HIDE DEF Shown
  <2> QED
    BY <1>11, <2>4, <2>6, <2>7
<1>12. CASE IsSound("right") /\ IsSound("left")
  <2>1. left = [found |-> {L}, exit |-> 0] /\ right = [found |-> {R}, exit |-> 0]
    BY <1>3, <1>4, <1>12
  <2>2. /\ Sound(ReleaseOf("left"), expected, root["left"].store)
        /\ IsSnapshot(L, ReleaseOf("left"), expected, root["left"].store)
        /\ Sound(ReleaseOf("right"), expected, root["right"].store)
        /\ IsSnapshot(R, ReleaseOf("right"), expected, root["right"].store)
        /\ ReleaseOf("left").input = ReleaseOf("right").input /\ ReleaseOf("left").profile = ReleaseOf("right").profile
    BY <1>7, <1>8, <1>12 DEF L, R
  <2>3. Comparable(L, R)
    BY <2>2, SidesCompare
  <2>4. Compares(Diff(L, R), expected, L, R)
    BY <2>2, DiffCompares
  <2>5. DiffPrintable(Diff(L, R)) /\ Diff(L, R).status # "no-baseline" /\ Intact(R)
    BY <2>2, <2>4 DEF Compares, IsSnapshot
  <2>6. DiffModels({L}, R) = {Diff(L, R)}
    BY <2>3, <2>5, ModelsAre
  <2>7. models = {Diff(L, R)}
    BY <2>1, <2>6
  <2> HIDE DEF models
  <2>8. DiffAnswer = Answer("diff", 0, models)
    BY <1>1, <2>1, <2>7
  <2>9. a.exit = 0 /\ a.model = models
    BY <1>5, <2>8
  <2>10. Shown(Diff(L, R))
    BY <1>6, <1>12, <2>2, <2>4, <2>5, ComparesRecords
  <2> HIDE DEF Shown
  <2> QED
    BY <1>12, <2>7, <2>9, <2>10
<1> QED
  BY <1>9, <1>10, <1>11, <1>12

(* An answer to diff is the one to the catalog and the roots that are      *)
(* there: nothing is changed before it is dismissed.                       *)
DiffHolds == \A a \in answer : a.command = "diff" => answer = DiffAnswer

(* An answer depends on the releases and the catalog, and on nothing else. *)
LEMMA DiffStays == root' = root /\ catalog' = catalog => DiffAnswer' = DiffAnswer
<1>1. catalog' = catalog => DefinitionExit' = DefinitionExit
  BY DEF DefinitionExit, CatalogExit
<1> QED
  BY <1>1 DEF DiffAnswer, LoadDiff, SnapshotCodes, Snapshot, StorageCodes, Storage, ReleaseOf

(* Only diff answers as diff.                                              *)
LEMMA OtherAnswers ==
  /\ \A a \in CoverageAnswer : a.command = "coverage"
  /\ \A a \in ReleaseAnswer : a.command = "validate"
  /\ \A a \in Report : a.command = "report"
  /\ \A snapshot, validation : \A a \in ReportAnswer(snapshot, validation) : a.command = "report"
<1>1. \A command, exit, model : \A a \in Answer(command, exit, model) : a.command = command
  BY DEF Answer
<1>2. \A snapshot, validation : \A a \in ReportAnswer(snapshot, validation) : a.command = "report"
  BY <1>1 DEF ReportAnswer
<1>3. \A a \in CoverageAnswer : a.command = "coverage"
  BY <1>1 DEF CoverageAnswer
<1>4. \A a \in ReleaseAnswer : a.command = "validate"
  BY <1>1 DEF ReleaseAnswer
<1>5. \A a \in Report : a.command = "report"
  BY <1>1, <1>2 DEF Report
<1> QED
  BY <1>2, <1>3, <1>4, <1>5

(* No step leaves an answer to diff that is not that of the present state. *)
LEMMA DiffNext == DiffHolds /\ [Next]_vars => DiffHolds'
<1> SUFFICES ASSUME DiffHolds, [Next]_vars PROVE DiffHolds'
  OBVIOUS
<1>1. ASSUME UNCHANGED <<catalog, root, answer>> PROVE DiffHolds'
  BY <1>1, DiffStays DEF DiffHolds
<1>2. ASSUME \A a \in answer' : a.command # "diff" PROVE DiffHolds'
  BY <1>2 DEF DiffHolds
<1>3. ASSUME answer' = NoAnswer PROVE DiffHolds'
  BY <1>3 DEF DiffHolds, NoAnswer
<1>4. \A exit : \A a \in Answer("run", exit, {}) : a.command # "diff"
  BY DEF Answer
<1>5. CASE Ask
  <2>1. root' = root /\ catalog' = catalog
    BY <1>5 DEF Ask
  <2>2. answer' = DiffAnswer \/ \A a \in answer' : a.command # "diff"
    BY <1>5, OtherAnswers DEF Ask
  <2> QED
    BY <1>2, <2>1, <2>2, DiffStays DEF DiffHolds
<1>6. ASSUME NEW side \in Side, Run(side)
      PROVE  DiffHolds'
  <2>1. answer' = NoAnswer \/ \E exit : answer' = Answer("run", exit, {})
    BY <1>6, Zenon DEF Run, FreshRun, SecondRun
  <2> QED
    BY <1>2, <1>3, <1>4, <2>1
<1>7. CASE Take
  BY <1>3, <1>7 DEF Take
<1>8. CASE ReportHeld
  <2>1. \A a \in answer' : a.command # "diff"
    BY <1>8, OtherAnswers DEF ReportHeld
  <2> QED
    BY <1>2, <2>1
<1>9. CASE Dismiss
  BY <1>3, <1>9 DEF Dismiss
<1>10. CASE Deed
  BY <1>3, <1>10 DEF Deed
<1>11. CASE UNCHANGED vars
  BY <1>1, <1>11 DEF vars
<1> QED
  BY <1>5, <1>6, <1>7, <1>8, <1>9, <1>10, <1>11 DEF Next

(* Where the invariants hold, the answer of diff is exact.                 *)
LEMMA DiffIsExactHere == StateHolds /\ DiffHolds => DiffIsExact
<1> SUFFICES ASSUME StateHolds, DiffHolds, NEW a \in answer, a.command = "diff", DefinitionExit = 0
             PROVE  DiffBody(a)
  BY Zenon DEF DiffIsExact, DiffBody, RowsTell
<1>1. a \in DiffAnswer
  BY DEF DiffHolds
<1> QED
  BY <1>1, DiffAnswers

(* diff compares every two releases that pass the audit, names exactly the *)
(* cells in which they differ, and its deltas lead from left to right, for *)
(* every catalog, all measured values and whatever was done to the files.  *)
THEOREM DiffExact == Spec => []DiffIsExact
<1>1. Init => DiffHolds
  BY DEF Init, DiffHolds, NoAnswer
<1>2. Spec => []DiffHolds
  BY <1>1, DiffNext, PTL DEF Spec
<1> QED
  BY <1>2, StateAlwaysHolds, DiffIsExactHere, PTL

------------------------------------------------------------------------------
(* What a valid catalog gives a report.                                    *)

(* The codes of the references.                                            *)
LEMMA ReferencesAre ==
  ASSUME NEW c, NEW mode, Validate(c, mode) = {}
  PROVE  /\ \A id \in DOMAIN c.cases : CaseCodes(c, id) = {}
         /\ \A kind \in OwnerKinds : \A id \in DOMAIN Owners(c, kind) : OwnerCodes(c, kind, id) = {}
         /\ \A l \in DOMAIN c.labs : LabReferenceCodes(c, l) = {}
<1> DEFINE P == UNION {CaseCodes(c, id) : id \in DOMAIN c.cases}
           Q == UNION {UNION {OwnerCodes(c, kind, id) : id \in DOMAIN Owners(c, kind)} : kind \in OwnerKinds}
           R == UNION {LabReferenceCodes(c, l) : l \in DOMAIN c.labs}
<1>1. ReferenceCodes(c) = {}
  BY DEF Validate
<1>2. P \subseteq ReferenceCodes(c) /\ Q \subseteq ReferenceCodes(c) /\ R \subseteq ReferenceCodes(c)
  <2> DEFINE D == If(~Distinct(c.families), "duplicate_scope_family")
                  \cup If(~Distinct([i \in DOMAIN c.scope |-> c.scope[i].id]), "duplicate_scope_case")
                  \cup If(\E s \in ElementsOf(c.scope) : s.family \notin ElementsOf(c.families), "unknown_family")
                  \cup If(\E x \in c.exclusions : Resolve(c, "case", x.canonical) \notin ScopeCases(c), "unknown_reference")
                  \cup If("other" \in ElementsOf(c.sources), "invalid_source_url")
                  \cup If(\E claim \in ClaimsOf(c) : Cardinality(ClaimOwners(c, claim)) > 1, "duplicate_claim_id")
             E == If(\E a \in ElementsOf(c.adapters) : ~KnownSources(c, a), "dangling_source")
  <2>1. ReferenceCodes(c) = D \cup P \cup Q \cup R \cup E
    BY Zenon DEF ReferenceCodes
  <2> HIDE DEF D, P, Q, R, E
  <2> QED
    BY <2>1
<1>3. P = {} /\ Q = {} /\ R = {}
  <2> HIDE DEF P, Q, R
  <2> QED
    BY <1>1, <1>2
<1>4. \A id \in DOMAIN c.cases : CaseCodes(c, id) = {}
  BY <1>3
<1>5. \A kind \in OwnerKinds : \A id \in DOMAIN Owners(c, kind) : OwnerCodes(c, kind, id) = {}
  BY <1>3
<1>6. \A l \in DOMAIN c.labs : LabReferenceCodes(c, l) = {}
  BY <1>3
<1> QED
  BY <1>4, <1>5, <1>6

(* A code that is left out of an empty set of codes.                       *)
LEMMA KnownAre ==
  ASSUME NEW c, NEW mode, Validate(c, mode) = {}
  PROVE  /\ \A id \in DOMAIN c.cases : id \in ScopeCases(c)
         /\ \A kind \in OwnerKinds : \A id \in DOMAIN Owners(c, kind) : KnownSources(c, Owners(c, kind)[id])
         /\ \A l \in DOMAIN c.labs : KnownSources(c, c.labs[l])
<1>1. ASSUME NEW id \in DOMAIN c.cases
      PROVE  id \in ScopeCases(c)
  <2>1. CaseCodes(c, id) = {}
    BY ReferencesAre
  <2>2. If(id \notin ScopeCases(c), "case_outside_scope") = {}
    BY <2>1 DEF CaseCodes
  <2> QED
    BY <2>2 DEF If
<1>2. ASSUME NEW kind \in OwnerKinds, NEW id \in DOMAIN Owners(c, kind)
      PROVE  KnownSources(c, Owners(c, kind)[id])
  <2>1. OwnerCodes(c, kind, id) = {}
    BY ReferencesAre
  <2>2. If(~KnownSources(c, Owners(c, kind)[id]), "dangling_source") = {}
    BY <2>1 DEF OwnerCodes
  <2> QED
    BY <2>2 DEF If
<1>3. ASSUME NEW l \in DOMAIN c.labs
      PROVE  KnownSources(c, c.labs[l])
  <2>1. LabReferenceCodes(c, l) = {}
    BY ReferencesAre
  <2>2. If(~KnownSources(c, c.labs[l]), "dangling_source") = {}
    BY <2>1 DEF LabReferenceCodes
  <2> QED
    BY <2>2 DEF If
<1> QED
  BY <1>1, <1>2, <1>3

(* Every cell of the matrix has its owner.                                 *)
LEMMA OwnerIsFound ==
  ASSUME NEW c, IsCatalog(c), NEW cell \in MatrixCells(c)
  PROVE  /\ OwnerFound(c, cell)
         /\ CellBindings(c, cell)[1].kind \in OwnerKinds /\ cell.key[1] \in DOMAIN c.labs
<1>1. PICK l \in CountedLabs(c) : \E run \in CountedRuns(c, l) : \E role, impl, adapter \in Ident :
        cell = CellOf(c, l, run, role, impl, adapter)
  BY MatrixCellIs
<1>2. PICK run \in CountedRuns(c, l) : \E role, impl, adapter \in Ident : cell = CellOf(c, l, run, role, impl, adapter)
  BY <1>1
<1>3. PICK role \in Ident, impl \in Ident, adapter \in Ident : cell = CellOf(c, l, run, role, impl, adapter)
  BY <1>2
<1> DEFINE b == BindingOf(c, l, run)
<1>4. l \in DOMAIN c.labs
  BY DEF CountedLabs
<1>5. /\ Len(BindingsNamed(c.labs[l], run.binding)) = 1 /\ b \in Binding /\ b.id = run.binding /\ Owned(c, b)
  BY <1>4, BindingOfIs
<1>6. cell.key[1] = l /\ cell.key[3] = b.id /\ cell.key[4] = b.claim
  BY <1>3 DEF CellOf
<1>7. CellBindings(c, cell) = BindingsNamed(c.labs[l], run.binding)
  BY <1>5, <1>6 DEF CellBindings
<1>8. CellBindings(c, cell)[1] = b
  BY <1>7 DEF BindingOf
<1> HIDE DEF b
<1>9. b.kind \in OwnerKinds
  BY <1>5 DEF Binding
<1>10. OwnerOf(c, b)[2] \in DOMAIN Owners(c, b.kind)
  <2>1. OwnerOf(c, b) = <<b.kind, Resolve(c, b.kind, b.owner)>>
    BY DEF OwnerOf
  <2>2. OwnerOf(c, b) \in ClaimOwners(c, b.claim)
    BY <1>5 DEF Owned
  <2>3. PICK kind \in OwnerKinds : \E id \in DOMAIN Owners(c, kind) : OwnerOf(c, b) = <<kind, id>>
    BY <2>2 DEF ClaimOwners
  <2> QED
    BY <2>1, <2>3
<1> QED
  BY <1>4, <1>5, <1>6, <1>7, <1>8, <1>9, <1>10 DEF OwnerFound

(* Its sources are known.                                                  *)
LEMMA CitedAreKnown ==
  ASSUME NEW c, IsCatalog(c), NEW mode, Validate(c, mode) = {}, NEW cell \in MatrixCells(c),
         NEW s \in CitedSources(c, cell)
  PROVE  s \in DOMAIN c.sources
<1> DEFINE b == CellBindings(c, cell)[1]
           owners == Owners(c, b.kind)
           id == OwnerOf(c, b)[2]
<1>1. b.kind \in OwnerKinds /\ cell.key[1] \in DOMAIN c.labs /\ OwnerFound(c, cell)
  BY OwnerIsFound
<1>2. id \in DOMAIN owners
  BY <1>1 DEF OwnerFound
<1>3. KnownSources(c, owners[id]) /\ KnownSources(c, c.labs[cell.key[1]])
  BY <1>1, <1>2, KnownAre
<1>4. PICK x \in c.labs[cell.key[1]].sources \cup owners[id].sources : s = Resolve(c, "source", x)
  BY DEF CitedSources
<1> QED
  BY <1>3, <1>4 DEF KnownSources

(* A valid catalog never counts more complete cases than the scope has.    *)
LEMMA CoverageFits ==
  ASSUME NEW c, IsCatalog(c), NEW mode, Validate(c, mode) = {}
  PROVE  CoveragePrintable(Coverage(c))
<1>1. c.scope \in Seq([id : Text, family : Text])
  BY DEF IsCatalog
<1>2. IsFiniteSet(ElementsOf(c.scope))
  BY <1>1, ElementsAreFinite
<1>3. ASSUME NEW T, T \subseteq ElementsOf(c.scope)
      PROVE  IsFiniteSet({s.id : s \in T})
  <2>1. IsFiniteSet(T)
    BY <1>2, <1>3, FS_Subset
  <2> DEFINE f == [s \in T |-> s.id]
             S == {s.id : s \in T}
  <2>2. f \in [T -> S] /\ \A x \in S : \E s \in T : f[s] = x
    OBVIOUS
  <2> HIDE DEF f, S
  <2>3. IsFiniteSet(S)
    BY <2>1, <2>2, ListedIsFinite
  <2> QED
    BY <2>3 DEF S
<1>4. ASSUME NEW A, NEW B, IsFiniteSet(B), A \subseteq B
      PROVE  Cardinality(A) <= Cardinality(B)
  BY <1>4, FS_Subset
<1>5. IsFiniteSet(ScopeCases(c))
  BY <1>3 DEF ScopeCases
<1>6. CompleteCases(c) \subseteq ScopeCases(c)
  BY KnownAre DEF CompleteCases
<1>7. Coverage(c).complete <= Coverage(c).baseline
  BY <1>4, <1>5, <1>6 DEF Coverage
<1>8. ASSUME NEW f \in ElementsOf(c.families)
      PROVE  FamilyCoverage(c, f).complete <= FamilyCoverage(c, f).required
  <2> DEFINE T == {t \in ElementsOf(c.scope) : t.family = f}
             members == {s.id : s \in T}
             done == {id \in members \cap CompleteCases(c) : c.cases[id].family = f}
  <2>1. IsFiniteSet(members)
    <3>1. T \subseteq ElementsOf(c.scope)
      OBVIOUS
    <3> HIDE DEF T
    <3> QED
      BY <1>3, <3>1
  <2>2. done \subseteq members
    OBVIOUS
  <2>3. FamilyCoverage(c, f) = [required |-> Cardinality(members), complete |-> Cardinality(done)]
    BY DEF FamilyCoverage
  <2> HIDE DEF members, done
  <2> QED
    BY <1>4, <2>1, <2>2, <2>3
<1>9. Coverage(c).families = [f \in ElementsOf(c.families) |-> FamilyCoverage(c, f)]
  BY DEF Coverage
<1> QED
  BY <1>7, <1>8, <1>9 DEF CoveragePrintable

(* The matrix is what is expected where all cells are defined.             *)
LEMMA AllExpected ==
  ASSUME NEW X, NEW matrix \in Seq(X), AllDefined(matrix)
  PROVE  /\ Len(Expected(matrix)) = Len(matrix) /\ DOMAIN Expected(matrix) = DOMAIN matrix
         /\ \A i \in DOMAIN matrix : Expected(matrix)[i].cell = matrix[i]
<1> DEFINE S == {i \in DOMAIN matrix : Defined(matrix[i])}
<1>1. S = DOMAIN matrix
  BY DEF AllDefined, ElementsOf
<1>2. Picked(matrix, S) = matrix
  <2> HIDE DEF S
  <2> QED
    BY <1>1, PickAll
<1>3. /\ Expected(matrix) \in Seq(ElementsOf(Expected(matrix))) /\ Len(Expected(matrix)) = Len(Picked(matrix, S))
      /\ \A i \in DOMAIN Expected(matrix) :
           LET cell == Picked(matrix, S)[i] IN Expected(matrix)[i] = [cell |-> cell, profile |-> "deep", plan |-> Experiment[cell.key].plan]
  BY ExpectedIs
<1> HIDE DEF S
<1>4. Len(Expected(matrix)) = Len(matrix) /\ DOMAIN Expected(matrix) = DOMAIN matrix
  BY <1>2, <1>3
<1>5. ASSUME NEW i \in DOMAIN matrix
      PROVE  Expected(matrix)[i].cell = matrix[i]
  BY <1>2, <1>3, <1>4
<1> QED
  BY <1>4, <1>5

(* The row of a record that passes for its cell.                           *)
LEMMA RowIsPrintable ==
  ASSUME NEW r, NEW e, IsRecord(r), MatchesExpected(r, e), ValidExpectedCell(e), NEW X, e.cell.asserts \in Seq(X)
  PROVE  RowPrintable(RowOf(e.cell, r))
<1> DEFINE row == RowOf(e.cell, r)
           checks == r.body.checks
           asserts == e.cell.asserts
<1>1. checks \in Seq(ElementsOf(checks))
  BY DEF IsRecord, IsBody
<1>2. ChecksMatch(r.body, e) /\ r.body.status = "passed" /\ r.body.plan = e.plan /\ r.body.said # "unsafe"
  BY DEF MatchesExpected, Portable
<1>3. Len(checks) = Len(asserts) /\ \A i \in DOMAIN checks : checks[i].id = asserts[i] /\ checks[i].passed
  BY <1>2 DEF ChecksMatch
<1>4. row.cell = e.cell /\ row.status = "passed" /\ row.plan = e.plan /\ row.checks = checks /\ row.said # "unsafe"
  BY <1>2 DEF RowOf
<1> HIDE DEF row
<1>5. [i \in DOMAIN checks |-> checks[i].id] = asserts
  <2> HIDE DEF checks, asserts
  <2>1. asserts \in Seq(X)
    BY DEF asserts
  <2>2. DOMAIN checks = DOMAIN asserts
    BY <1>1, <1>3, <2>1
  <2>3. asserts = [i \in DOMAIN asserts |-> asserts[i]]
    BY <2>1
  <2> QED
    BY <1>3, <2>2, <2>3
<1>6. \A check \in ElementsOf(checks) : check.passed
  BY <1>3 DEF ElementsOf
<1>7. /\ ValidRole(e.cell.role, e.cell.key) /\ e.plan.workload = e.cell.workload
      /\ Distinct(e.cell.faults) /\ Distinct(e.cell.asserts)
  BY DEF ValidExpectedCell
<1> HIDE DEF checks, asserts
<1>8. RowPrintable(row)
  BY <1>4, <1>5, <1>6, <1>7 DEF RowPrintable, asserts
<1> QED
  BY <1>8 DEF row

------------------------------------------------------------------------------
(* report.                                                                 *)

(* The rows of the report of a sound release can be printed.               *)
LEMMA ReportIsPrintable ==
  ASSUME NEW c, IsCatalog(c), Validate(c, "development") = {}, AllDefined(Matrix(c)),
         NEW m, NEW store, Sound(m, Expected(Matrix(c)), store),
         NEW a, IsSnapshot(a, m, Expected(Matrix(c)), store)
  PROVE  Printable(ReportOf(c, [coverage |-> Coverage(c), matrix |-> Matrix(c)], a))
<1> DEFINE matrix == Matrix(c)
           expected == Expected(matrix)
           model == ReportOf(c, [coverage |-> Coverage(c), matrix |-> matrix], a)
<1>1. matrix \in Seq(MatrixCells(c))
  BY MatrixIs
<1>2. DOMAIN expected = DOMAIN matrix /\ \A i \in DOMAIN matrix : expected[i].cell = matrix[i]
  BY <1>1, AllExpected
<1>3. \A i \in DOMAIN matrix : matrix[i].asserts \in Seq(Text)
  BY <1>1, CellListsAre
<1>4. DOMAIN a.records = DOMAIN expected /\ a.manifest = m
  BY DEF IsSnapshot, AreSelected
<1>5. \A i \in DOMAIN expected : Proves(a.records[i], m, expected, store, i)
  BY RecordProves
<1>6. Sound(m, expected, store)
  OBVIOUS
<1>7. CoveragePrintable(Coverage(c))
  BY CoverageFits
<1>8. /\ model.input = m.input /\ model.profile = m.profile /\ model.coverage = Coverage(c)
      /\ model.rows = [i \in DOMAIN a.records |-> RowOf(matrix[i], a.records[i])]
  BY <1>4 DEF ReportOf
<1> HIDE DEF matrix, expected, model
<1>9. m.input \in Input /\ m.profile \in Profile /\ Distinct([i \in DOMAIN m.selections |-> m.selections[i].id])
  BY <1>6 DEF Sound, Agrees, ValidManifest
<1>10. DOMAIN m.selections = DOMAIN expected
  <2>1. m.selections \in Seq(ElementsOf(m.selections)) /\ expected \in Seq(ElementsOf(expected))
        /\ Len(m.selections) = Len(expected)
    BY <1>6 DEF Sound, IsManifest, Agrees
  <2> QED
    BY <2>1
<1>11. DOMAIN model.rows = DOMAIN expected /\ \A i \in DOMAIN expected : model.rows[i] = RowOf(matrix[i], a.records[i])
  BY <1>4, <1>8
<1>12. ASSUME NEW i \in DOMAIN expected
       PROVE  RowPrintable(model.rows[i]) /\ model.rows[i].id = m.selections[i].id
  <2>1. Proves(a.records[i], m, expected, store, i)
    BY <1>5
  <2>2. RowPrintable(RowOf(expected[i].cell, a.records[i]))
    <3>1. expected[i].cell.asserts \in Seq(Text)
      BY <1>2, <1>3
    <3> QED
      BY <2>1, <3>1, RowIsPrintable DEF Proves
  <2>3. model.rows[i] = RowOf(expected[i].cell, a.records[i])
    BY <1>2, <1>11
  <2>4. RowOf(expected[i].cell, a.records[i]).id = a.records[i].body.id
    BY DEF RowOf
  <2> QED
    BY <2>1, <2>2, <2>3, <2>4 DEF Proves
<1>13. Distinct([i \in DOMAIN model.rows |-> model.rows[i].id])
  BY <1>9, <1>10, <1>11, <1>12 DEF Distinct
<1>14. \A row \in ElementsOf(model.rows) : RowPrintable(row)
  BY <1>11, <1>12 DEF ElementsOf
<1>15. Printable(model)
  BY <1>7, <1>8, <1>9, <1>13, <1>14 DEF Printable
<1> QED
  BY <1>15 DEF model, matrix

(* All that can stop the report of a sound release are its sources.        *)
LEMMA ReportableIs ==
  ASSUME NEW c, IsCatalog(c), CatalogLoads(c), Validate(c, "development") = {}, AllDefined(Matrix(c)),
         NEW m, NEW store, Sound(m, Expected(Matrix(c)), store),
         NEW a, IsSnapshot(a, m, Expected(Matrix(c)), store)
  PROVE  Reportable(c, [coverage |-> Coverage(c), matrix |-> Matrix(c)], a) <=>
           \A cell \in ElementsOf(Matrix(c)) : \A s \in CitedSources(c, cell) : c.sources[s] = "direct"
<1> DEFINE matrix == Matrix(c)
           expected == Expected(matrix)
           v == [coverage |-> Coverage(c), matrix |-> matrix]
<1>1. matrix \in Seq(MatrixCells(c)) /\ ElementsOf(matrix) \subseteq MatrixCells(c)
  BY MatrixIs, ElementsAre
<1>2. Len(expected) = Len(matrix) /\ DOMAIN expected = DOMAIN matrix /\ \A i \in DOMAIN matrix : expected[i].cell = matrix[i]
  BY <1>1, AllExpected
<1>3. /\ Intact(a) /\ a.expected = expected /\ Len(a.records) = Len(expected) /\ DOMAIN a.records = DOMAIN expected
  BY DEF IsSnapshot, AreSelected
<1>4. AliasesFit(c)
  BY DEF CatalogLoads
<1>5. Printable(ReportOf(c, v, a))
  BY ReportIsPrintable
<1>6. \A i \in DOMAIN matrix : OwnerFound(c, matrix[i])
  BY <1>1, OwnerIsFound
<1>7. \A cell \in ElementsOf(matrix) : \A s \in CitedSources(c, cell) : s \in DOMAIN c.sources
  BY <1>1, CitedAreKnown
<1>8. v.coverage = Coverage(c) /\ v.matrix = matrix /\ Matrix(c) = matrix
  OBVIOUS
<1> HIDE DEF v, expected, matrix
<1>9. Reportable(c, v, a) <=> \A cell \in ElementsOf(matrix) : \A s \in CitedSources(c, cell) : Linkable(c, s)
  <2>1. \A i \in DOMAIN a.records : v.matrix[i] = a.expected[i].cell /\ OwnerFound(c, v.matrix[i])
    BY <1>2, <1>3, <1>6, <1>8
  <2>2. Len(v.matrix) = Len(a.expected) /\ Len(a.records) = Len(a.expected)
    BY <1>2, <1>3, <1>8
  <2> QED
    BY <1>3, <1>4, <1>5, <1>8, <2>1, <2>2, Zenon DEF Reportable
<1>10. Reportable(c, v, a) <=> \A cell \in ElementsOf(matrix) : \A s \in CitedSources(c, cell) : c.sources[s] = "direct"
  BY <1>7, <1>9 DEF Linkable
<1> QED
  BY <1>10 DEF v, matrix

(* What a caller holds.                                                    *)

FourFields(s) == s = [manifest |-> s.manifest, expected |-> s.expected, records |-> s.records, seal |-> s.seal]

IsHeld(h, truth) ==
  /\ h = [snapshot |-> h.snapshot, validation |-> h.validation, truth |-> truth]
  /\ FourFields(h.snapshot) /\ h.snapshot.seal \in {<<>>, truth[1].seal}
  /\ h.validation = [coverage |-> h.validation.coverage, matrix |-> h.validation.matrix]

(* The seal of a snapshot tells it from every other one.                   *)
LEMMA SealTells ==
  ASSUME NEW s, FourFields(s), Intact(s), NEW t, FourFields(t), t.seal = BindingSeal(t.manifest, t.expected, t.records),
         s.seal \in {<<>>, t.seal}
  PROVE  s = t
<1>1. s.seal = t.seal /\ s.seal = BindingSeal(s.manifest, s.expected, s.records)
  BY DEF Intact
<1>2. <<Hash(s.manifest), Hash(s.expected), Hash(s.records)>> = <<Hash(t.manifest), Hash(t.expected), Hash(t.records)>>
  BY <1>1 DEF BindingSeal
<1>3. \A x, y : Hash(x) = Hash(y) => x = y
  BY DEF Hash
<1>4. s.manifest = t.manifest /\ s.expected = t.expected /\ s.records = t.records
  BY <1>2, <1>3
<1> QED
  BY <1>1, <1>4 DEF FourFields

(* Changed in its caller's hands, a snapshot keeps its fields, and its     *)
(* seal unless that is taken off.                                          *)
LEMMA SnapshotChanged ==
  ASSUME NEW s, FourFields(s), NEW d \in SnapshotChanges(s)
  PROVE  FourFields(d) /\ d.seal \in {<<>>, s.seal}
<1> DEFINE P1 == {[s EXCEPT !.seal = <<>>], [s EXCEPT !.records = Without(@, Len(@))]}
           P2 == {[s EXCEPT !.manifest = m] : m \in ManifestChanges(s.manifest)}
           P3 == {[s EXCEPT !.expected[i].plan.name = "other"] : i \in Ends(s.expected)}
           P4 == UNION {{[s EXCEPT !.records[i] = Seal(b)] : b \in BodyChanges(s.records[i].body)} : i \in Ends(s.records)}
           P5 == UNION {{[s EXCEPT !.records[i] = Seal(b), !.manifest.selections[i].digest = Hash(b)]
                         : b \in BodyChanges(s.records[i].body)} : i \in Ends(s.records)}
           Kept == FourFields(d) /\ d.seal \in {<<>>, s.seal}
<1>1. SnapshotChanges(s) = P1 \cup P2 \cup P3 \cup P4 \cup P5
  BY DEF SnapshotChanges
<1>2. s = [manifest |-> s.manifest, expected |-> s.expected, records |-> s.records, seal |-> s.seal]
  BY DEF FourFields
<1>3. ASSUME NEW v, d = [s EXCEPT !.seal = <<>>] \/ d = [s EXCEPT !.records = v]
                    \/ d = [s EXCEPT !.manifest = v] \/ d = [s EXCEPT !.expected = v]
      PROVE  Kept
  <2>1. CASE d = [s EXCEPT !.seal = <<>>]
    BY <1>2, <2>1 DEF FourFields
  <2>2. CASE d = [s EXCEPT !.records = v]
    BY <1>2, <2>2 DEF FourFields
  <2>3. CASE d = [s EXCEPT !.manifest = v]
    BY <1>2, <2>3 DEF FourFields
  <2>4. CASE d = [s EXCEPT !.expected = v]
    BY <1>2, <2>4 DEF FourFields
  <2> QED
    BY <1>3, <2>1, <2>2, <2>3, <2>4
<1>4. ASSUME NEW v, NEW w, d = [[s EXCEPT !.records = v] EXCEPT !.manifest = w]
      PROVE  Kept
  BY <1>2, <1>4 DEF FourFields
<1>5. d \in P1 => Kept
  <2>1. d \in P1 => \E v : d = [s EXCEPT !.seal = <<>>] \/ d = [s EXCEPT !.records = v]
    OBVIOUS
  <2> HIDE DEF P1, Kept
  <2> QED
    BY <1>3, <2>1
<1>6. d \in P2 => Kept
  <2>1. d \in P2 => \E v : d = [s EXCEPT !.manifest = v]
    OBVIOUS
  <2> HIDE DEF P2, Kept
  <2> QED
    BY <1>3, <2>1
<1>7. d \in P3 => Kept
  <2>1. d \in P3 => \E v : d = [s EXCEPT !.expected = v]
    OBVIOUS
  <2> HIDE DEF P3, Kept
  <2> QED
    BY <1>3, <2>1
<1>8. d \in P4 => Kept
  <2>1. d \in P4 => \E v : d = [s EXCEPT !.records = v]
    OBVIOUS
  <2> HIDE DEF P4, Kept
  <2> QED
    BY <1>3, <2>1
<1>9. d \in P5 => Kept
  <2>1. ASSUME NEW i \in Ends(s.records), NEW b \in BodyChanges(s.records[i].body),
               d = [s EXCEPT !.records[i] = Seal(b), !.manifest.selections[i].digest = Hash(b)]
        PROVE  \E v, w : d = [[s EXCEPT !.records = v] EXCEPT !.manifest = w]
    BY <2>1
  <2>2. d \in P5 => \E v, w : d = [[s EXCEPT !.records = v] EXCEPT !.manifest = w]
    BY <2>1
  <2> HIDE DEF P5, Kept
  <2> QED
    BY <1>4, <2>2
<1> HIDE DEF P1, P2, P3, P4, P5
<1> QED
  BY <1>1, <1>5, <1>6, <1>7, <1>8, <1>9

(* What a caller holds is what was audited, but for what was done to it;   *)
(* nothing else is changed while it is held.                               *)

Truth == <<Snapshot("right", Expected(Matrix(catalog))), Validation>>

HeldHolds ==
  \A h \in held :
    /\ IsHeld(h, Truth) /\ \A g \in held : g = h
    /\ DefinitionExit = 0 /\ SnapshotCodes("right", Expected(Matrix(catalog))) = {}
    /\ \A a \in answer : answer = ReportAnswer(h.snapshot, h.validation)

(* What a caller was given is the truth as long as nobody changes a file.  *)
LEMMA TruthStays ==
  root' = root /\ catalog' = catalog =>
    /\ Truth' = Truth /\ DefinitionExit' = DefinitionExit
    /\ SnapshotCodes("right", Expected(Matrix(catalog)))' = SnapshotCodes("right", Expected(Matrix(catalog)))
    /\ \A s, v : ReportAnswer(s, v)' = ReportAnswer(s, v)
<1> SUFFICES ASSUME root' = root, catalog' = catalog
             PROVE  /\ Truth' = Truth /\ DefinitionExit' = DefinitionExit
                    /\ SnapshotCodes("right", Expected(Matrix(catalog)))' = SnapshotCodes("right", Expected(Matrix(catalog)))
                    /\ \A s, v : ReportAnswer(s, v)' = ReportAnswer(s, v)
  OBVIOUS
<1>1. Truth' = Truth
  BY DEF Truth, Snapshot, Validation, ReleaseOf
<1>2. DefinitionExit' = DefinitionExit
  BY DEF DefinitionExit, CatalogExit
<1>3. SnapshotCodes("right", Expected(Matrix(catalog)))' = SnapshotCodes("right", Expected(Matrix(catalog)))
  BY DEF SnapshotCodes, StorageCodes, Storage, ReleaseOf
<1>4. \A s, v : ReportAnswer(s, v)' = ReportAnswer(s, v)
  BY DEF ReportAnswer
<1> QED
  BY <1>1, <1>2, <1>3, <1>4

(* What is held may be changed by its caller.                              *)
LEMMA HeldScribbled ==
  ASSUME NEW h, NEW truth, IsHeld(h, truth),
         NEW k, \/ \E s \in SnapshotChanges(h.snapshot) : k = [h EXCEPT !.snapshot = s]
                \/ k = [h EXCEPT !.validation.coverage.complete = 0]
                \/ k = [h EXCEPT !.validation.matrix = Without(@, 1)]
  PROVE  IsHeld(k, truth)
<1>1. /\ h = [snapshot |-> h.snapshot, validation |-> h.validation, truth |-> truth]
      /\ FourFields(h.snapshot) /\ h.snapshot.seal \in {<<>>, truth[1].seal}
      /\ h.validation = [coverage |-> h.validation.coverage, matrix |-> h.validation.matrix]
  BY DEF IsHeld
<1>2. ASSUME NEW s \in SnapshotChanges(h.snapshot), k = [h EXCEPT !.snapshot = s]
      PROVE  IsHeld(k, truth)
  <2>1. FourFields(s) /\ s.seal \in {<<>>, h.snapshot.seal}
    BY <1>1, SnapshotChanged
  <2>2. k = [snapshot |-> s, validation |-> h.validation, truth |-> truth]
    BY <1>1, <1>2
  <2> QED
    BY <1>1, <2>1, <2>2 DEF IsHeld
<1>3. ASSUME NEW v, k = [h EXCEPT !.validation = v], v = [coverage |-> v.coverage, matrix |-> v.matrix]
      PROVE  IsHeld(k, truth)
  <2>1. k = [snapshot |-> h.snapshot, validation |-> v, truth |-> truth]
    BY <1>1, <1>3
  <2> QED
    BY <1>1, <1>3, <2>1 DEF IsHeld
<1>4. ASSUME NEW x, NEW y, k = [h EXCEPT !.validation = y],
             y = [h.validation EXCEPT !.coverage = x] \/ y = [h.validation EXCEPT !.matrix = x]
      PROVE  IsHeld(k, truth)
  <2>1. y = [coverage |-> y.coverage, matrix |-> y.matrix]
    <3>1. CASE y = [h.validation EXCEPT !.coverage = x]
      BY <1>1, <3>1
    <3>2. CASE y = [h.validation EXCEPT !.matrix = x]
      BY <1>1, <3>2
    <3> QED
      BY <1>4, <3>1, <3>2
  <2> QED
    BY <1>3, <1>4, <2>1
<1>5. CASE k = [h EXCEPT !.validation.coverage.complete = 0]
  <2>1. \E x : k = [h EXCEPT !.validation = [h.validation EXCEPT !.coverage = x]]
    BY <1>5
  <2> QED
    BY <1>4, <2>1
<1>6. CASE k = [h EXCEPT !.validation.matrix = Without(@, 1)]
  <2>1. \E x : k = [h EXCEPT !.validation = [h.validation EXCEPT !.matrix = x]]
    BY <1>6
  <2> QED
    BY <1>4, <2>1
<1> QED
  BY <1>2, <1>5, <1>6

(* No step breaks what is known of a snapshot in a caller's hands.         *)
LEMMA HeldNext == StateHolds /\ HeldHolds /\ [Next]_vars => HeldHolds'
<1> SUFFICES ASSUME StateHolds, HeldHolds, [Next]_vars PROVE HeldHolds'
  OBVIOUS
<1>1. ASSUME held' = {} PROVE HeldHolds'
  BY <1>1 DEF HeldHolds
<1>2. ASSUME root' = root, catalog' = catalog
      PROVE  /\ Truth' = Truth /\ DefinitionExit' = DefinitionExit
             /\ SnapshotCodes("right", Expected(Matrix(catalog)))' = SnapshotCodes("right", Expected(Matrix(catalog)))
             /\ \A s, v : ReportAnswer(s, v)' = ReportAnswer(s, v)
  BY <1>2, TruthStays
<1>3. CASE Ask
  BY <1>1, <1>3 DEF Ask
<1>4. ASSUME NEW side \in Side, Run(side) PROVE HeldHolds'
  BY <1>1, <1>4 DEF Run
<1>5. CASE Take
  <2> DEFINE s == Snapshot("right", Expected(Matrix(catalog)))
             k == [snapshot |-> s, validation |-> Validation, truth |-> Truth]
  <2>1. /\ root' = root /\ catalog' = catalog /\ answer' = {} /\ held' = {k} /\ DefinitionExit = 0
        /\ SnapshotCodes("right", Expected(Matrix(catalog))) = {}
    BY <1>5 DEF Take, NoAnswer, Truth
  <2>2. FourFields(s)
    BY DEF FourFields, Snapshot, Audited
  <2>3. Validation = [coverage |-> Validation.coverage, matrix |-> Validation.matrix]
    BY DEF Validation
  <2>4. Truth[1] = s
    BY DEF Truth
  <2> HIDE DEF s
  <2>5. IsHeld(k, Truth)
    BY <2>2, <2>3, <2>4 DEF IsHeld
  <2> HIDE DEF k
  <2> QED
    BY <1>2, <2>1, <2>5 DEF HeldHolds
<1>6. CASE ReportHeld
  <2>1. PICK h \in held : answer' = ReportAnswer(h.snapshot, h.validation)
    BY <1>6 DEF ReportHeld
  <2>2. root' = root /\ catalog' = catalog /\ held' = held
    BY <1>6 DEF ReportHeld
  <2> QED
    BY <1>2, <2>1, <2>2 DEF HeldHolds
<1>7. CASE Dismiss
  <2>1. root' = root /\ catalog' = catalog /\ held' = held /\ answer' = {}
    BY <1>7 DEF Dismiss, NoAnswer
  <2> QED
    BY <1>2, <2>1 DEF HeldHolds
<1>8. CASE Deed
  <2>1. answer' = {}
    BY <1>8 DEF Deed, NoAnswer
  <2>2. CASE Edit
    BY <1>1, <2>2 DEF Edit
  <2>3. CASE Tamper
    BY <1>1, <2>3 DEF Tamper
  <2>4. CASE Scribble
    <3>1. root' = root /\ catalog' = catalog
      BY <2>4 DEF Scribble
    <3>2. PICK h \in held : \E k :
            /\ held' = {k}
            /\ \/ \E s \in SnapshotChanges(h.snapshot) : k = [h EXCEPT !.snapshot = s]
               \/ k = [h EXCEPT !.validation.coverage.complete = 0]
               \/ k = [h EXCEPT !.validation.matrix = Without(@, 1)]
      BY <2>4 DEF Scribble
    <3>3. PICK k :
            /\ held' = {k}
            /\ \/ \E s \in SnapshotChanges(h.snapshot) : k = [h EXCEPT !.snapshot = s]
               \/ k = [h EXCEPT !.validation.coverage.complete = 0]
               \/ k = [h EXCEPT !.validation.matrix = Without(@, 1)]
      BY <3>2
    <3>4. IsHeld(h, Truth) /\ DefinitionExit = 0 /\ SnapshotCodes("right", Expected(Matrix(catalog))) = {}
      BY DEF HeldHolds
    <3>5. IsHeld(k, Truth)
      BY <3>3, <3>4, HeldScribbled
    <3> QED
      BY <1>2, <2>1, <3>1, <3>3, <3>4, <3>5 DEF HeldHolds
  <2> QED
    BY <1>8, <2>2, <2>3, <2>4 DEF Deed
<1>9. CASE UNCHANGED vars
  <2>1. root' = root /\ catalog' = catalog /\ held' = held /\ answer' = answer
    BY <1>9 DEF vars
  <2> QED
    BY <1>2, <2>1 DEF HeldHolds
<1> QED
  BY <1>3, <1>4, <1>5, <1>6, <1>7, <1>8, <1>9 DEF Next

(* Where the invariants hold, a report shows what was audited or nothing.  *)
LEMMA ReportIsAuditedHere == StateHolds /\ HeldHolds => ReportIsAudited
<1> SUFFICES ASSUME StateHolds, HeldHolds, NEW h \in held, NEW a \in answer
             PROVE  /\ a.exit = 0 => <<h.snapshot, h.validation>> = h.truth
                    /\ <<h.snapshot, h.validation>> = h.truth =>
                         ((a.exit = 0) <=> \A cell \in ElementsOf(h.validation.matrix) :
                                             \A s \in CitedSources(catalog, cell) : catalog.sources[s] = "direct")
  BY Zenon DEF ReportIsAudited
<1> DEFINE expected == Expected(Matrix(catalog))
           m == ReleaseOf("right")
           store == root["right"].store
           t == Snapshot("right", expected)
<1>1. /\ IsHeld(h, Truth) /\ DefinitionExit = 0 /\ SnapshotCodes("right", expected) = {}
      /\ answer = ReportAnswer(h.snapshot, h.validation)
  BY DEF HeldHolds
<1>2. IsCatalog(catalog)
  BY DEF StateHolds, CatalogHolds
<1>3. CatalogLoads(catalog) /\ Validate(catalog, "development") = {} /\ AllDefined(Matrix(catalog))
  BY <1>1 DEF DefinitionExit, CatalogExit
<1>4. Sound(m, expected, store)
  BY <1>1, SoundIs DEF Side
<1>5. IsSnapshot(t, m, expected, store)
  <2>1. t = Audited(m, expected, store)
    BY DEF Snapshot
  <2> QED
    BY <1>4, <2>1, SnapshotIs
<1>6. h.truth = <<t, Validation>> /\ Truth[1] = t
  BY <1>1 DEF IsHeld, Truth
<1>7. (a.exit = 0) <=> Reportable(catalog, h.validation, h.snapshot)
  BY <1>1 DEF ReportAnswer, Answer
<1>8. Validation = [coverage |-> Coverage(catalog), matrix |-> Matrix(catalog)]
  BY DEF Validation
<1>9. Reportable(catalog, Validation, t) <=>
        \A cell \in ElementsOf(Matrix(catalog)) : \A s \in CitedSources(catalog, cell) : catalog.sources[s] = "direct"
  BY <1>2, <1>3, <1>4, <1>5, <1>8, ReportableIs
<1> HIDE DEF expected, m, store, t
<1>10. ASSUME Reportable(catalog, h.validation, h.snapshot)
       PROVE  h.snapshot = t /\ h.validation = Validation
  <2>1. Intact(h.snapshot) /\ h.validation.coverage = Coverage(catalog) /\ h.validation.matrix = Matrix(catalog)
    BY <1>10, Zenon DEF Reportable
  <2>2. h.validation = Validation
    BY <1>1, <1>8, <2>1 DEF IsHeld
  <2>3. FourFields(h.snapshot) /\ h.snapshot.seal \in {<<>>, t.seal}
    BY <1>1, <1>6 DEF IsHeld
  <2>4. t = [manifest |-> m, expected |-> expected, records |-> t.records, seal |-> BindingSeal(m, expected, t.records)]
    BY <1>5 DEF IsSnapshot
  <2>5. FourFields(t) /\ t.seal = BindingSeal(t.manifest, t.expected, t.records)
    BY <2>4 DEF FourFields
  <2>6. h.snapshot = t
    BY <2>1, <2>3, <2>5, SealTells
  <2> QED
    BY <2>2, <2>6
<1>11. a.exit = 0 => <<h.snapshot, h.validation>> = h.truth
  BY <1>6, <1>7, <1>10
<1>12. ASSUME <<h.snapshot, h.validation>> = h.truth
       PROVE  (a.exit = 0) <=> \A cell \in ElementsOf(h.validation.matrix) :
                                 \A s \in CitedSources(catalog, cell) : catalog.sources[s] = "direct"
  <2>1. h.snapshot = t /\ h.validation = Validation
    BY <1>6, <1>12
  <2>2. h.validation.matrix = Matrix(catalog)
    BY <1>8, <2>1
  <2> QED
    BY <1>7, <1>9, <2>1, <2>2
<1> QED
  BY <1>11, <1>12

(* Nothing but what was audited is reported, however a caller changed the  *)
(* snapshot it holds, and of a sound release whose sources have plain      *)
(* links and titles that may be printed the report is never refused.       *)
THEOREM ReportAudited == Spec => []ReportIsAudited
<1>1. Init => HeldHolds
  BY DEF Init, HeldHolds
<1>2. Spec => []HeldHolds
  BY <1>1, HeldNext, StateAlwaysHolds, PTL DEF Spec
<1> QED
  BY <1>2, StateAlwaysHolds, ReportIsAuditedHere, PTL

------------------------------------------------------------------------------
(* Chains of aliases.                                                      *)

(* The name after id, id itself where the chain ends.                      *)
NameAfter(c, kind, id) == IF NextNames(c, kind, id) = {} THEN id ELSE CHOOSE t \in NextNames(c, kind, id) : TRUE

(* A walk of n steps.                                                      *)
IsWalk(w, n, c, kind, id) == w = [i \in 0 .. n |-> IF i = 0 THEN id ELSE NameAfter(c, kind, w[i - 1])]

(* There is a walk of any number of steps.                                 *)
LEMMA WalkExists ==
  ASSUME NEW c, NEW kind, NEW id, NEW n \in Nat
  PROVE  \E w : IsWalk(w, n, c, kind, id)
<1> DEFINE A == {k \in Nat : \E w : IsWalk(w, k, c, kind, id)}
<1>1. 0 \in A
  <2>1. IsWalk([i \in 0 .. 0 |-> id], 0, c, kind, id)
    BY DEF IsWalk
  <2> QED
    BY <2>1
<1>2. ASSUME NEW k \in Nat, k \in A
      PROVE  k + 1 \in A
  <2>1. PICK w : IsWalk(w, k, c, kind, id)
    BY <1>2
  <2> DEFINE v == [i \in 0 .. k + 1 |-> IF i = k + 1 THEN NameAfter(c, kind, w[k]) ELSE w[i]]
  <2>2. ASSUME NEW i \in 0 .. k + 1
        PROVE  v[i] = IF i = 0 THEN id ELSE NameAfter(c, kind, v[i - 1])
    <3>1. CASE i = k + 1
      <4>1. v[i - 1] = w[k] /\ v[i] = NameAfter(c, kind, w[k])
        BY <3>1
      <4> QED
        BY <3>1, <4>1
    <3>2. CASE i \in 1 .. k
      <4>1. v[i] = w[i] /\ v[i - 1] = w[i - 1]
        BY <3>2
      <4>2. w[i] = NameAfter(c, kind, w[i - 1])
        BY <2>1, <3>2 DEF IsWalk
      <4> QED
        BY <3>2, <4>1, <4>2
    <3>3. CASE i = 0
      BY <2>1, <3>3 DEF IsWalk
    <3> QED
      BY <3>1, <3>2, <3>3
  <2>3. v = [i \in 0 .. k + 1 |-> v[i]]
    OBVIOUS
  <2> HIDE DEF v
  <2>4. IsWalk(v, k + 1, c, kind, id)
    BY <2>2, <2>3 DEF IsWalk
  <2> QED
    BY <2>4
<1> HIDE DEF A
<1>3. n \in A
  BY <1>1, <1>2, Counting
<1> QED
  BY <1>3 DEF A

(* Resolve ends a walk of as many steps as there are aliases.              *)
LEMMA ResolveWalks ==
  ASSUME NEW c, NEW kind, NEW id, Len(c.aliases) \in Nat
  PROVE  \E w : IsWalk(w, Len(c.aliases), c, kind, id) /\ Resolve(c, kind, id) = w[Len(c.aliases)]
<1> DEFINE N == Len(c.aliases)
           w == CHOOSE v : IsWalk(v, N, c, kind, id)
<1>1. IsWalk(w, N, c, kind, id)
  BY WalkExists
<1>2. Resolve(c, kind, id) = w[N]
  BY DEF Resolve, IsWalk, NameAfter
<1> QED
  BY <1>1, <1>2
(* The names n steps lead to.                                              *)
IsReach(r, n, kind, id) ==
  r = [i \in 0 .. n |-> IF i = 0 THEN {id} ELSE r[i - 1] \cup UNION {NextNames(catalog, kind, x) : x \in r[i - 1]}]

(* There is such a function for any number of steps.                       *)
LEMMA ReachExists ==
  ASSUME NEW kind, NEW id, NEW n \in Nat
  PROVE  \E r : IsReach(r, n, kind, id)
<1> DEFINE After(s) == s \cup UNION {NextNames(catalog, kind, x) : x \in s}
           A == {k \in Nat : \E r : IsReach(r, k, kind, id)}
<1>1. 0 \in A
  <2>1. IsReach([i \in 0 .. 0 |-> {id}], 0, kind, id)
    BY DEF IsReach
  <2> QED
    BY <2>1
<1>2. ASSUME NEW k \in Nat, k \in A
      PROVE  k + 1 \in A
  <2>1. PICK r : IsReach(r, k, kind, id)
    BY <1>2
  <2>2. \A i \in 0 .. k : r[i] = IF i = 0 THEN {id} ELSE After(r[i - 1])
    BY <2>1 DEF IsReach
  <2> DEFINE v == [i \in 0 .. k + 1 |-> IF i = k + 1 THEN After(r[k]) ELSE r[i]]
  <2> HIDE DEF After
  <2>3. ASSUME NEW i \in 0 .. k + 1
        PROVE  v[i] = IF i = 0 THEN {id} ELSE After(v[i - 1])
    <3>1. CASE i = k + 1
      <4>1. v[i - 1] = r[k] /\ v[i] = After(r[k])
        BY <3>1
      <4> QED
        BY <3>1, <4>1
    <3>2. CASE i \in 1 .. k
      <4>1. v[i] = r[i] /\ v[i - 1] = r[i - 1] /\ r[i] = After(r[i - 1])
        BY <2>2, <3>2
      <4> QED
        BY <3>2, <4>1
    <3>3. CASE i = 0
      BY <2>2, <3>3
    <3> QED
      BY <3>1, <3>2, <3>3
  <2>4. v = [i \in 0 .. k + 1 |-> v[i]]
    OBVIOUS
  <2> HIDE DEF v
  <2>5. v = [i \in 0 .. k + 1 |-> IF i = 0 THEN {id} ELSE After(v[i - 1])]
    BY <2>3, <2>4
  <2>6. IsReach(v, k + 1, kind, id)
    BY <2>5 DEF IsReach, After
  <2> QED
    BY <2>6
<1> HIDE DEF A
<1>3. n \in A
  BY <1>1, <1>2, Counting
<1> QED
  BY <1>3 DEF A

(* Names are where as many steps as there are aliases lead.                *)
LEMMA NamesReach ==
  ASSUME NEW kind, NEW id, Len(catalog.aliases) \in Nat
  PROVE  \E r : IsReach(r, Len(catalog.aliases), kind, id) /\ Names(kind, id) = r[Len(catalog.aliases)]
<1> DEFINE N == Len(catalog.aliases)
           r == CHOOSE v : IsReach(v, N, kind, id)
<1>1. IsReach(r, N, kind, id)
  BY ReachExists
<1>2. Names(kind, id) = r[N]
  BY DEF Names, IsReach
<1> QED
  BY <1>1, <1>2

(* Where a walk is, the names lead.                                        *)
LEMMA ResolvedIsNamed ==
  ASSUME NEW kind, NEW id, Len(catalog.aliases) \in Nat
  PROVE  Resolve(catalog, kind, id) \in Names(kind, id)
<1> DEFINE N == Len(catalog.aliases)
<1>1. PICK w : IsWalk(w, N, catalog, kind, id) /\ Resolve(catalog, kind, id) = w[N]
  BY ResolveWalks
<1>2. PICK r : IsReach(r, N, kind, id) /\ Names(kind, id) = r[N]
  BY NamesReach
<1> DEFINE A == {k \in Nat : k <= N => w[k] \in r[k]}
<1>3. 0 \in A
  BY <1>1, <1>2 DEF IsWalk, IsReach
<1>4. ASSUME NEW k \in Nat, k \in A
      PROVE  k + 1 \in A
  <2> SUFFICES ASSUME k + 1 <= N PROVE w[k + 1] \in r[k + 1]
    OBVIOUS
  <2>1. w[k] \in r[k]
    BY <1>4
  <2>2. w[k + 1] = NameAfter(catalog, kind, w[k])
    BY <1>1 DEF IsWalk
  <2>3. r[k + 1] = r[k] \cup UNION {NextNames(catalog, kind, x) : x \in r[k]}
    BY <1>2 DEF IsReach
  <2>4. NameAfter(catalog, kind, w[k]) = w[k] \/ NameAfter(catalog, kind, w[k]) \in NextNames(catalog, kind, w[k])
    BY DEF NameAfter
  <2> QED
    BY <2>1, <2>2, <2>3, <2>4
<1> HIDE DEF A
<1>5. N \in A
  BY <1>3, <1>4, Counting
<1> QED
  BY <1>1, <1>2, <1>5 DEF A

(* No name has two aliases.                                                *)
LEMMA OneNameAfter ==
  ASSUME NEW c, AliasesLoad(c), c.aliases \in Seq(Alias), NEW kind, NEW id, NEW t \in NextNames(c, kind, id)
  PROVE  t = NameAfter(c, kind, id)
<1>1. ASSUME NEW u \in NextNames(c, kind, id)
      PROVE  u = t
  <2> DEFINE at == [i \in DOMAIN c.aliases |-> <<c.aliases[i].kind, c.aliases[i].from>>]
  <2>1. Distinct(at)
    BY DEF AliasesLoad
  <2>2. PICK i \in DOMAIN c.aliases : c.aliases[i].kind = kind /\ c.aliases[i].from = id /\ t = c.aliases[i].to
    BY DEF NextNames, ElementsOf
  <2>3. PICK j \in DOMAIN c.aliases : c.aliases[j].kind = kind /\ c.aliases[j].from = id /\ u = c.aliases[j].to
    BY DEF NextNames, ElementsOf
  <2>4. at[i] = at[j] /\ DOMAIN at = DOMAIN c.aliases
    BY <2>2, <2>3
  <2> HIDE DEF at
  <2>5. i = j
    BY <2>1, <2>4 DEF Distinct
  <2> QED
    BY <2>2, <2>3, <2>5
<1> QED
  BY <1>1 DEF NameAfter

(* The names that are reached lie on the walk.                             *)
LEMMA NamesAreWalked ==
  ASSUME NEW kind, NEW id, AliasesLoad(catalog), catalog.aliases \in Seq(Alias),
         NEW w, IsWalk(w, Len(catalog.aliases), catalog, kind, id), NEW x \in Names(kind, id)
  PROVE  \E i \in 0 .. Len(catalog.aliases) : x = w[i]
<1> DEFINE N == Len(catalog.aliases)
<1>1. N \in Nat
  OBVIOUS
<1>2. PICK r : IsReach(r, N, kind, id) /\ Names(kind, id) = r[N]
  BY <1>1, NamesReach
<1> DEFINE A == {k \in Nat : k <= N => \A y \in r[k] : \E i \in 0 .. k : y = w[i]}
<1>3. 0 \in A
  BY <1>1, <1>2 DEF IsWalk, IsReach
<1>4. ASSUME NEW k \in Nat, k \in A
      PROVE  k + 1 \in A
  <2> SUFFICES ASSUME k + 1 <= N, NEW y \in r[k + 1] PROVE \E i \in 0 .. k + 1 : y = w[i]
    OBVIOUS
  <2>1. \A z \in r[k] : \E i \in 0 .. k : z = w[i]
    BY <1>1, <1>4
  <2>2. r[k + 1] = r[k] \cup UNION {NextNames(catalog, kind, z) : z \in r[k]}
    BY <1>1, <1>2 DEF IsReach
  <2>3. CASE y \in r[k]
    BY <2>1, <2>3
  <2>4. ASSUME NEW z \in r[k], y \in NextNames(catalog, kind, z)
        PROVE  \E i \in 0 .. k + 1 : y = w[i]
    <3>1. PICK i \in 0 .. k : z = w[i]
      BY <2>1
    <3>2. y = NameAfter(catalog, kind, z)
      BY <2>4, OneNameAfter
    <3>3. w[i + 1] = NameAfter(catalog, kind, w[i])
      BY <1>1 DEF IsWalk
    <3> QED
      BY <3>1, <3>2, <3>3
  <2> QED
    BY <2>2, <2>3, <2>4
<1> HIDE DEF A
<1>5. N \in A
  BY <1>1, <1>3, <1>4, Counting
<1> QED
  BY <1>1, <1>2, <1>5 DEF A

(* A walk that has come to a name without an alias stays there.            *)
LEMMA WalkStays ==
  ASSUME NEW c, NEW kind, NEW id, NEW n \in Nat, NEW w, IsWalk(w, n, c, kind, id),
         NEW i \in 0 .. n, NextNames(c, kind, w[i]) = {}
  PROVE  w[n] = w[i]
<1> DEFINE A == {k \in Nat : i + k <= n => w[i + k] = w[i]}
<1>1. 0 \in A
  OBVIOUS
<1>2. ASSUME NEW k \in Nat, k \in A
      PROVE  k + 1 \in A
  <2> SUFFICES ASSUME i + (k + 1) <= n PROVE w[i + (k + 1)] = w[i]
    OBVIOUS
  <2>1. w[i + k] = w[i]
    BY <1>2
  <2>2. w[i + (k + 1)] = NameAfter(c, kind, w[i + k])
    BY DEF IsWalk
  <2> QED
    BY <2>1, <2>2 DEF NameAfter
<1> HIDE DEF A
<1>3. n - i \in A
  BY <1>1, <1>2, Counting
<1> QED
  BY <1>3 DEF A

(* Of the names an identifier leads to, the one with an entity of its own  *)
(* is the one it is resolved to.                                           *)
LEMMA NamedIsResolved ==
  ASSUME NEW kind, NEW id, AliasesLoad(catalog), AliasesFit(catalog), catalog.aliases \in Seq(Alias),
         NEW x \in Names(kind, id), x \in Canonical(catalog, kind)
  PROVE  x = Resolve(catalog, kind, id)
<1> DEFINE N == Len(catalog.aliases)
<1>1. N \in Nat
  OBVIOUS
<1>2. PICK w : IsWalk(w, N, catalog, kind, id) /\ Resolve(catalog, kind, id) = w[N]
  BY <1>1, ResolveWalks
<1>3. PICK i \in 0 .. N : x = w[i]
  BY <1>2, NamesAreWalked
<1>4. NextNames(catalog, kind, x) = {}
  BY DEF NextNames, AliasesFit
<1>5. w[N] = w[i]
  BY <1>1, <1>2, <1>3, <1>4, WalkStays
<1> QED
  BY <1>2, <1>3, <1>5

------------------------------------------------------------------------------
(* validate --release.                                                     *)

(* What is complete in a valid catalog has all its fields.                 *)
LEMMA CompleteIsWhole ==
  ASSUME NEW c, NEW mode, Validate(c, mode) = {}
  PROVE  /\ \A id \in DOMAIN c.cases : Complete(c.cases[id]) => ~MissingOwnerFields("case", c.cases[id])
         /\ \A id \in DOMAIN c.principles :
              Complete(c.principles[id]) => ~MissingOwnerFields("principle", c.principles[id])
         /\ \A id \in DOMAIN c.labs : Complete(c.labs[id]) => ~MissingLabFields(c.labs[id])
         /\ \A id \in DOMAIN c.adapters : Complete(c.adapters[id]) => ~MissingAdapterFields(c.adapters[id])
<1> DEFINE A == If(~(ElementsOf(c.families) \subseteq Family), "unknown_family")
           P == UNION {FormCodes(e, MissingOwnerFields("case", e)) : e \in ElementsOf(c.cases)}
           Q == UNION {FormCodes(e, MissingOwnerFields("principle", e)) : e \in ElementsOf(c.principles)}
           R == UNION {FormCodes(e, MissingLabFields(e)) : e \in ElementsOf(c.labs)}
           S == UNION {FormCodes(e, MissingAdapterFields(e)) : e \in ElementsOf(c.adapters)}
           B == If(\E lab \in ElementsOf(c.labs) : lab.kind \notin {"scenario", "primitive"}, "unknown_reference")
<1>1. SchemaCodes(c) = {}
  BY DEF Validate
<1>2. SchemaCodes(c) = A \cup P \cup Q \cup R \cup S \cup B
  BY Zenon DEF SchemaCodes
<1>3. P = {} /\ Q = {} /\ R = {} /\ S = {}
  <2> HIDE DEF A, P, Q, R, S, B
  <2> QED
    BY <1>1, <1>2
<1>4. ASSUME NEW e, NEW missing, FormCodes(e, missing) = {}, Complete(e)
      PROVE  ~missing
  <2>1. If(Complete(e) /\ missing, "complete_contract_empty") = {}
    BY <1>4 DEF FormCodes
  <2> QED
    BY <1>4, <2>1 DEF If
<1>5. \A e \in ElementsOf(c.cases) : FormCodes(e, MissingOwnerFields("case", e)) = {}
  BY <1>3
<1>6. \A e \in ElementsOf(c.principles) : FormCodes(e, MissingOwnerFields("principle", e)) = {}
  BY <1>3
<1>7. \A e \in ElementsOf(c.labs) : FormCodes(e, MissingLabFields(e)) = {}
  BY <1>3
<1>8. \A e \in ElementsOf(c.adapters) : FormCodes(e, MissingAdapterFields(e)) = {}
  BY <1>3
<1> QED
  BY <1>4, <1>5, <1>6, <1>7, <1>8 DEF ElementsOf

(* What a release needs to be complete is complete.                        *)
LEMMA NeededIsComplete ==
  ASSUME NEW c, Validate(c, "release") = {}
  PROVE  /\ \A p \in RequiredPrinciples(c) \cap DOMAIN c.principles : Complete(c.principles[p])
         /\ \A l \in RequiredAsIs(c) : Complete(c.labs[l])
         /\ ScopeCases(c) \subseteq CompleteCases(c)
         /\ \A s \in ElementsOf(c.scope) : s.id \in CompleteCases(c) => c.cases[s.id].family = s.family
<1>1. DependencyCodes(c, "release") = {} /\ ReleaseCodes(c) = {}
  BY DEF Validate
<1> DEFINE P == \/ \E p \in RequiredPrinciples(c) \cap DOMAIN c.principles : ~Complete(c.principles[p])
                \/ \E l \in RequiredAsIs(c) : ~Complete(c.labs[l])
<1>2. If("release" = "release" /\ P, "dependency_incomplete") = {}
  BY <1>1 DEF DependencyCodes
<1>3. ~P
  <2> HIDE DEF P
  <2> QED
    BY <1>2, NoCode
<1> DEFINE Q == Coverage(c).missing # {} \/ Coverage(c).unexpected # {}
           R == \E s \in ElementsOf(c.scope) : s.id \in CompleteCases(c) /\ c.cases[s.id].family # s.family
<1>4. If(Q, "release_scope_incomplete") = {} /\ If(R, "release_family_mismatch") = {}
  BY <1>1 DEF ReleaseCodes
<1>5. ~Q /\ ~R
  <2> HIDE DEF Q, R
  <2> QED
    BY <1>4, NoCode
<1>6. Coverage(c).missing = ScopeCases(c) \ CompleteCases(c)
  BY DEF Coverage
<1> QED
  BY <1>3, <1>5, <1>6

(* The labs of a valid catalog have no codes.                              *)
LEMMA LabsAreFit ==
  ASSUME NEW c, NEW mode, Validate(c, mode) = {}, NEW l \in DOMAIN c.labs
  PROVE  LabCodes(c, c.labs[l]) = {}
<1> DEFINE P == UNION {LabCodes(c, lab) : lab \in ElementsOf(c.labs)}
           A == SchemaCodes(c) \cup ReferenceCodes(c) \cup DependencyCodes(c, mode)
           B == IF mode = "release" THEN ReleaseCodes(c) ELSE {}
<1>1. Validate(c, mode) = A \cup P \cup B
  BY Zenon DEF Validate
<1>2. P = {}
  <2> HIDE DEF A, P, B
  <2> QED
    BY <1>1
<1> QED
  BY <1>2 DEF ElementsOf

(* A binding of such a lab is the only one of its name, its claim is its   *)
(* owner's, and a run that is the only one of its own name uses it.        *)
LEMMA BindingIsUsed ==
  ASSUME NEW c, NEW lab, LabCodes(c, lab) = {}, NEW b \in ElementsOf(lab.bindings)
  PROVE  /\ Owned(c, b) /\ Len(BindingsNamed(lab, b.id)) = 1
         /\ \E run \in ElementsOf(lab.runs) :
              run.binding = b.id /\ RunIsUnique(lab, run) /\ RunCodes(c, lab, run) = {}
<1> DEFINE C1 == If(~Distinct([i \in DOMAIN lab.bindings |-> lab.bindings[i].id]), "duplicate_binding_id")
           P2 == \E x \in ElementsOf(lab.bindings) : ~Owned(c, x)
           P3 == \E run \in ElementsOf(lab.runs) : ~RunIsUnique(lab, run)
           C4 == UNION {RunCodes(c, lab, run) : run \in ElementsOf(lab.runs)}
           P5 == \E x \in ElementsOf(lab.bindings) : \/ Len(BindingsNamed(lab, x.id)) # 1
                                                     \/ \A run \in ElementsOf(lab.runs) : run.binding # x.id
<1>1. LabCodes(c, lab) = C1 \cup If(P2, "foreign_claim") \cup If(P3, "duplicate_required_run") \cup C4
                         \cup If(P5, "unused_binding")
  BY Zenon DEF LabCodes
<1>2. ~P2 /\ ~P3 /\ C4 = {} /\ ~P5
  <2> HIDE DEF C1, P2, P3, C4, P5
  <2>1. If(P2, "foreign_claim") = {} /\ If(P3, "duplicate_required_run") = {} /\ C4 = {} /\ If(P5, "unused_binding") = {}
    BY <1>1
  <2> QED
    BY <2>1, NoCode
<1>3. \A run \in ElementsOf(lab.runs) : RunCodes(c, lab, run) = {}
  BY <1>2
<1> QED
  BY <1>2, <1>3

(* A requirement of an owner is bound by the lab it names.                 *)
LEMMA NeedIsBound ==
  ASSUME NEW c, NEW kind, NEW id, OwnerCodes(c, kind, id) = {}, NEW need \in Owners(c, kind)[id].needs
  PROVE  /\ Resolve(c, "lab", need.lab) \in DOMAIN c.labs
         /\ c.labs[Resolve(c, "lab", need.lab)].kind = LabKindOf(kind)
         /\ Resolve(c, "lab", need.lab) \in LabsOf(c, Owners(c, kind)[id])
         /\ \E b \in ElementsOf(c.labs[Resolve(c, "lab", need.lab)].bindings) : b.claim = need.claim
<1> DEFINE e == Owners(c, kind)[id]
           Listed(n) == Fits(c, kind, n.lab) /\ Resolve(c, "lab", n.lab) \in LabsOf(c, e)
           P3 == \E n \in e.needs : n.claim \notin e.claims \/ ~Listed(n)
           P4 == \E n \in e.needs : Listed(n) /\ ~BoundTo(c, n.lab, <<kind, id>>, {n.claim})
           C1 == If(\E l \in e.labs : ~Fits(c, kind, l), "unknown_reference")
           C2 == If(\E l \in e.labs : Fits(c, kind, l) /\ ~BoundTo(c, l, <<kind, id>>, e.claims), "missing_binding")
           C5 == If(~KnownSources(c, e), "dangling_source")
<1>1. OwnerCodes(c, kind, id) = C1 \cup C2 \cup If(P3, "unknown_reference") \cup If(P4, "missing_binding") \cup C5
  BY Zenon DEF OwnerCodes
<1>2. ~P3 /\ ~P4
  <2> HIDE DEF C1, C2, P3, P4, C5
  <2>1. If(P3, "unknown_reference") = {} /\ If(P4, "missing_binding") = {}
    BY <1>1
  <2> QED
    BY <2>1, NoCode
<1>3. Listed(need) /\ BoundTo(c, need.lab, <<kind, id>>, {need.claim})
  <2> HIDE DEF Listed
  <2> QED
    BY <1>2
<1> QED
  BY <1>3 DEF Fits, BoundTo

(* A run without codes whose binding is its owner's counts.                *)
LEMMA RunThatCounts ==
  ASSUME NEW c, NEW mode, Validate(c, mode) = {}, NEW lab, NEW run, RunIsUnique(lab, run),
         RunCodes(c, lab, run) = {}, Owned(c, BindingsNamed(lab, run.binding)[1])
  PROVE  RunCounts(c, lab, run)
<1> DEFINE needed == RequiredAdapters(run)
           P == ~(needed \subseteq DOMAIN c.adapters)
<1>1. If(P, "missing_required_adapter") = {}
  BY DEF RunCodes
<1>2. ~P
  <2> HIDE DEF P
  <2> QED
    BY <1>1, NoCode
<1>3. \A a \in needed : Complete(c.adapters[a]) => ~MissingAdapterFields(c.adapters[a])
  BY <1>2, CompleteIsWhole
<1> QED
  BY <1>3 DEF RunCounts

(* What an owner a release needs asks for has a cell in the matrix.        *)
LEMMA NeedHasCell ==
  ASSUME NEW c, IsCatalog(c), Validate(c, "release") = {}, NEW kind \in OwnerKinds,
         NEW id \in RequiredOwners(c, kind), NEW need \in Owners(c, kind)[id].needs
  PROVE  \E cell \in MatrixCells(c) : cell.key[1] = Resolve(c, "lab", need.lab) /\ cell.key[4] = need.claim
<1> DEFINE l == Resolve(c, "lab", need.lab)
           lab == c.labs[l]
<1>1. id \in DOMAIN Owners(c, kind) /\ OwnerCodes(c, kind, id) = {}
  <2>1. id \in DOMAIN Owners(c, kind)
    BY DEF RequiredOwners
  <2> QED
    BY <2>1, ReferencesAre
<1>2. /\ l \in DOMAIN c.labs /\ lab.kind = LabKindOf(kind) /\ l \in LabsOf(c, Owners(c, kind)[id])
      /\ \E b \in ElementsOf(lab.bindings) : b.claim = need.claim
  BY <1>1, NeedIsBound
<1> HIDE DEF l
<1>3. PICK b \in ElementsOf(lab.bindings) : b.claim = need.claim
  BY <1>2
<1>4. l \in RequiredAsIs(c)
  <2>1. l \in RequiredLabs(c, kind)
    BY <1>2 DEF RequiredLabs
  <2> QED
    BY <1>2, <2>1 DEF RequiredAsIs
<1>5. l \in CountedLabs(c)
  <2>1. Complete(lab)
    BY <1>4, NeededIsComplete
  <2>2. ~MissingLabFields(lab)
    BY <1>2, <2>1, CompleteIsWhole
  <2> QED
    BY <1>2, <1>4, <2>1, <2>2 DEF CountedLabs, LabCounts
<1>6. LabCodes(c, lab) = {}
  BY <1>2, LabsAreFit
<1>7. /\ Owned(c, b) /\ Len(BindingsNamed(lab, b.id)) = 1
      /\ \E run \in ElementsOf(lab.runs) : run.binding = b.id /\ RunIsUnique(lab, run) /\ RunCodes(c, lab, run) = {}
  BY <1>6, BindingIsUsed
<1>8. PICK run \in ElementsOf(lab.runs) : run.binding = b.id /\ RunIsUnique(lab, run) /\ RunCodes(c, lab, run) = {}
  BY <1>7
<1>9. BindingsNamed(lab, run.binding)[1] = b
  <2>1. lab \in Lab
    BY <1>2, RunsAre
  <2> QED
    BY <1>7, <1>8, <2>1, OnlyIsFirst
<1>10. run \in CountedRuns(c, l)
  BY <1>7, <1>8, <1>9, RunThatCounts DEF CountedRuns
<1> DEFINE cell == CellOf(c, l, run, "baseline", run.baseline, "")
<1>11. cell \in CellsOf(c, l, run)
  BY CellsOfIs
<1>12. cell.key[1] = l /\ cell.key[4] = need.claim
  BY <1>3, <1>9 DEF CellOf, BindingOf
<1> HIDE DEF cell
<1>13. cell \in MatrixCells(c)
  BY <1>5, <1>10, <1>11, CellsCome
<1> QED
  BY <1>12, <1>13 DEF l

(* An accepted release vouches for each cell of the matrix.                *)
Selects(m, store, lab, claim) ==
  \E s \in ElementsOf(m.selections) :
    /\ s.id \in DOMAIN store
    /\ LET r == store[s.id] IN
       /\ r.digest = Hash(r.body) /\ r.digest = s.digest
       /\ r.body.status = "passed" /\ r.body.input = CurrentInput /\ r.body.profile = "deep"
       /\ r.body.key[1] = lab /\ r.body.key[4] = claim

(* The record selected for a cell says that it passed.                     *)
LEMMA CellIsSelected ==
  ASSUME StateHolds, AllDefined(Matrix(catalog)), StorageCodes("right", Expected(Matrix(catalog))) = {},
         NEW cell \in MatrixCells(catalog)
  PROVE  /\ ReleaseOf("right") \in root.right.release
         /\ Selects(ReleaseOf("right"), root.right.store, cell.key[1], cell.key[4])
<1> DEFINE matrix == Matrix(catalog)
           expected == Expected(matrix)
           store == root.right.store
           m == ReleaseOf("right")
<1>1. Storage("right") = "loaded" /\ Audit(m, expected, store) = {}
  <2>1. StorageCodes("right", expected) = {}
    OBVIOUS
  <2>2. {"snapshot_missing"} # {} /\ {"manifest_invalid"} # {}
    OBVIOUS
  <2>3. Storage("right") \in {"missing", "loaded", "invalid"}
    BY DEF Storage
  <2> HIDE DEF expected, m
  <2> QED
    BY <2>1, <2>2, <2>3 DEF StorageCodes, m
<1>2. m \in root.right.release /\ m.input = CurrentInput
  BY <1>1 DEF Storage, ReleaseOf
<1>3. IsManifest(m) /\ AreRecords(store)
  BY <1>2 DEF StateHolds, RootsHold, IsRoot, Side
<1>4. /\ matrix \in Seq(MatrixCells(catalog)) /\ Exhausts(matrix, Len(matrix), MatrixCells(catalog))
      /\ expected \in Seq(ElementsOf(expected))
  BY MatrixIs, ExpectedIs DEF StateHolds, CatalogHolds
<1>5. /\ DOMAIN expected = DOMAIN matrix /\ \A i \in DOMAIN matrix : expected[i].cell = matrix[i]
      /\ \A i \in DOMAIN expected : expected[i].profile = "deep"
  <2>1. AllDefined(matrix) /\ matrix \in Seq(MatrixCells(catalog))
    BY <1>4
  <2> HIDE DEF matrix
  <2>2. Len(expected) = Len(matrix) /\ DOMAIN expected = DOMAIN matrix /\ \A i \in DOMAIN matrix : expected[i].cell = matrix[i]
    BY <2>1, AllExpected
  <2> DEFINE picked == Picked(matrix, {j \in DOMAIN matrix : Defined(matrix[j])})
  <2>3. \A i \in DOMAIN expected :
          LET cell1 == picked[i] IN expected[i] = [cell |-> cell1, profile |-> "deep", plan |-> Experiment[cell1.key].plan]
    BY <2>1, ExpectedIs
  <2> HIDE DEF picked
  <2>4. \A i \in DOMAIN expected : expected[i].profile = "deep"
    BY <2>3
  <2> QED
    BY <2>2, <2>4
<1>14. DOMAIN matrix = 1 .. Len(matrix)
  BY <1>4
<1> HIDE DEF matrix, expected, store, m
<1>6. PICK i \in DOMAIN matrix : matrix[i] = cell
  BY <1>4, <1>14 DEF Exhausts
<1>7. Agrees(m, expected, store)
  BY <1>1, <1>3, <1>4, AuditIsAgreement
<1>8. AgreesAt(m, expected, store, i)
  BY <1>5, <1>6, <1>7 DEF Agrees
<1> DEFINE s == m.selections[i]
           r == store[s.id]
<1>9. /\ s.id \in DOMAIN store /\ r.digest = s.digest /\ r.body.input = m.input /\ MatchesExpected(r, expected[i])
  BY <1>8 DEF AgreesAt
<1>10. r.body.status = "passed" /\ r.body.profile = "deep" /\ r.body.key = cell.key
  BY <1>5, <1>6, <1>9 DEF MatchesExpected
<1>11. r.digest = Hash(r.body)
  BY <1>7, <1>9 DEF Agrees, Lists, Loads, Encodable
<1>12. s \in ElementsOf(m.selections)
  BY <1>3, <1>4, <1>5, <1>6, <1>7 DEF Agrees, IsManifest, ElementsOf
<1> HIDE DEF s
<1>13. Selects(m, store, cell.key[1], cell.key[4])
  BY <1>2, <1>9, <1>10, <1>11, <1>12 DEF Selects
<1> QED
  BY <1>2, <1>13 DEF m, store

(* An answer to validate is the one to the catalog and the roots that are  *)
(* there.                                                                  *)
ValidateHolds == \A a \in answer : a.command = "validate" => answer = ReleaseAnswer

(* An answer depends on the releases and the catalog, and on nothing else. *)
LEMMA ValidateStays == root' = root /\ catalog' = catalog => ReleaseAnswer' = ReleaseAnswer
  BY DEF ReleaseAnswer, StorageCodes, Storage, ReleaseOf

(* Diff does not answer as validate.                                       *)
LEMMA DiffAnswersAsDiff == \A a \in DiffAnswer : a.command = "diff"
<1>1. \A command, exit, model : \A a \in Answer(command, exit, model) : a.command = command
  BY DEF Answer
<1> QED
  BY <1>1 DEF DiffAnswer

(* No step leaves an answer to validate that is not that of the present    *)
(* state.                                                                  *)
LEMMA ValidateNext == ValidateHolds /\ [Next]_vars => ValidateHolds'
<1> SUFFICES ASSUME ValidateHolds, [Next]_vars PROVE ValidateHolds'
  OBVIOUS
<1>1. ASSUME UNCHANGED <<catalog, root, answer>> PROVE ValidateHolds'
  BY <1>1, ValidateStays DEF ValidateHolds
<1>2. ASSUME \A a \in answer' : a.command # "validate" PROVE ValidateHolds'
  BY <1>2 DEF ValidateHolds
<1>3. ASSUME answer' = NoAnswer PROVE ValidateHolds'
  BY <1>3 DEF ValidateHolds, NoAnswer
<1>4. \A exit : \A a \in Answer("run", exit, {}) : a.command # "validate"
  BY DEF Answer
<1>5. CASE Ask
  <2>1. root' = root /\ catalog' = catalog
    BY <1>5 DEF Ask
  <2>2. answer' = ReleaseAnswer \/ \A a \in answer' : a.command # "validate"
    BY <1>5, OtherAnswers, DiffAnswersAsDiff DEF Ask
  <2> QED
    BY <1>2, <2>1, <2>2, ValidateStays DEF ValidateHolds
<1>6. ASSUME NEW side \in Side, Run(side)
      PROVE  ValidateHolds'
  <2>1. answer' = NoAnswer \/ \E exit : answer' = Answer("run", exit, {})
    BY <1>6, Zenon DEF Run, FreshRun, SecondRun
  <2> QED
    BY <1>2, <1>3, <1>4, <2>1
<1>7. CASE Take
  BY <1>3, <1>7 DEF Take
<1>8. CASE ReportHeld
  <2>1. \A a \in answer' : a.command # "validate"
    BY <1>8, OtherAnswers DEF ReportHeld
  <2> QED
    BY <1>2, <2>1
<1>9. CASE Dismiss
  BY <1>3, <1>9 DEF Dismiss
<1>10. CASE Deed
  BY <1>3, <1>10 DEF Deed
<1>11. CASE UNCHANGED vars
  BY <1>1, <1>11 DEF vars
<1> QED
  BY <1>5, <1>6, <1>7, <1>8, <1>9, <1>10, <1>11 DEF Next

(* What exit code 0 says.                                                  *)
LEMMA GreenSays ==
  ASSUME NEW a \in ReleaseAnswer, a.exit = 0
  PROVE  /\ CatalogLoads(catalog) /\ Validate(catalog, "release") = {} /\ AllDefined(Matrix(catalog))
         /\ StorageCodes("right", Expected(Matrix(catalog))) = {}
<1> DEFINE matrix == Matrix(catalog)
           A == Validate(catalog, "release")
           P == ~AllDefined(matrix)
           B == StorageCodes("right", Expected(matrix))
           codes == A \cup If(P, "definition_mismatch") \cup B
<1>1. ReleaseAnswer = Answer("validate", IF ~CatalogLoads(catalog) THEN 2 ELSE IF codes # {} THEN 4 ELSE 0, {})
  BY Zenon DEF ReleaseAnswer
<1> HIDE DEF A, P, B
<1>2. CatalogLoads(catalog) /\ codes = {}
  BY <1>1 DEF Answer
<1>3. A = {} /\ If(P, "definition_mismatch") = {} /\ B = {}
  BY <1>2
<1>4. ~P
  BY <1>3, NoCode
<1> QED
  BY <1>2, <1>3, <1>4 DEF A, P, B

(* Each requirement of an owner that the release rests on is vouched for.  *)
LEMMA NeedIsVouched ==
  ASSUME StateHolds, Validate(catalog, "release") = {}, AllDefined(Matrix(catalog)),
         StorageCodes("right", Expected(Matrix(catalog))) = {},
         NEW kind \in OwnerKinds, NEW id \in RequiredOwners(catalog, kind), NEW need \in Owners(catalog, kind)[id].needs
  PROVE  Vouched(need)
<1> DEFINE m == ReleaseOf("right")
<1>1. IsCatalog(catalog) /\ Len(catalog.aliases) \in Nat
  BY DEF StateHolds, CatalogHolds, IsCatalog
<1>2. PICK cell \in MatrixCells(catalog) : cell.key[1] = Resolve(catalog, "lab", need.lab) /\ cell.key[4] = need.claim
  BY <1>1, NeedHasCell
<1>3. m \in root.right.release /\ Selects(m, root.right.store, cell.key[1], cell.key[4])
  BY CellIsSelected
<1>4. cell.key[1] \in Names("lab", need.lab)
  BY <1>1, <1>2, ResolvedIsNamed
<1> QED
  BY <1>2, <1>3, <1>4 DEF Vouched, Selects

(* Where the invariants hold, a green answer is proven.                    *)
LEMMA GreenMeansProvenHere == StateHolds /\ ValidateHolds => GreenMeansProven
<1> SUFFICES ASSUME StateHolds, ValidateHolds, NEW a \in answer, a.command = "validate", a.exit = 0,
                    NEW s \in ElementsOf(catalog.scope)
             PROVE  /\ s.id \in DOMAIN catalog.cases
                    /\ LET e == catalog.cases[s.id]
                           rests == DOMAIN catalog.principles \cap UNION {Names("principle", p) : p \in e.principles}
                       IN /\ e.status = "complete" /\ e.family = s.family /\ e.needs # {}
                          /\ \A need \in e.needs : Vouched(need)
                          /\ \A p \in e.principles : Names("principle", p) \cap rests # {}
                          /\ \A p \in rests : \A need \in catalog.principles[p].needs : Vouched(need)
  BY DEF GreenMeansProven
<1> DEFINE c == catalog
           e == c.cases[s.id]
           rests == DOMAIN c.principles \cap UNION {Names("principle", p) : p \in e.principles}
<1>1. /\ CatalogLoads(c) /\ Validate(c, "release") = {} /\ AllDefined(Matrix(c))
      /\ StorageCodes("right", Expected(Matrix(c))) = {}
  BY GreenSays DEF ValidateHolds
<1>2. c.aliases \in Seq(Alias) /\ AliasesLoad(c) /\ AliasesFit(c)
  BY <1>1 DEF StateHolds, CatalogHolds, IsCatalog, CatalogLoads
<1>3. s.id \in ScopeCases(c)
  BY DEF ScopeCases
<1>4. s.id \in DOMAIN c.cases /\ Complete(e) /\ e.family = s.family
  <2>1. s.id \in CompleteCases(c)
    BY <1>1, <1>3, NeededIsComplete
  <2> QED
    BY <1>1, <2>1, NeededIsComplete DEF CompleteCases
<1>5. e.needs # {}
  BY <1>1, <1>4, CompleteIsWhole DEF MissingOwnerFields
<1>6. s.id \in RequiredOwners(c, "case") /\ Owners(c, "case")[s.id] = e
  BY <1>3, <1>4 DEF RequiredOwners, Owners
<1>7. \A need \in e.needs : Vouched(need)
  BY <1>1, <1>6, NeedIsVouched DEF OwnerKinds
<1>8. PrinciplesOf(c, e) \subseteq DOMAIN c.principles
  <2>1. CaseCodes(c, s.id) = {}
    BY <1>1, <1>4, ReferencesAre
  <2> DEFINE P == ~(PrinciplesOf(c, e) \subseteq DOMAIN c.principles)
  <2>2. If(P, "unknown_reference") = {}
    BY <2>1 DEF CaseCodes
  <2>3. ~P
    <3> HIDE DEF P
    <3> QED
      BY <2>2, NoCode
  <2> QED
    BY <2>3
<1>9. ASSUME NEW p \in e.principles
      PROVE  Names("principle", p) \cap rests # {}
  <2>1. Resolve(c, "principle", p) \in Names("principle", p)
    BY <1>2, ResolvedIsNamed
  <2>2. Resolve(c, "principle", p) \in DOMAIN c.principles
    BY <1>8 DEF PrinciplesOf
  <2> QED
    BY <2>1, <2>2
<1>10. ASSUME NEW p \in rests, NEW need \in c.principles[p].needs
       PROVE  Vouched(need)
  <2>1. PICK q \in e.principles : p \in Names("principle", q)
    OBVIOUS
  <2>2. p \in DOMAIN c.principles
    OBVIOUS
  <2>3. p \in Canonical(c, "principle")
    BY <2>2 DEF Canonical
  <2>4. p = Resolve(c, "principle", q)
    BY <1>2, <2>1, <2>3, NamedIsResolved
  <2>5. p \in RequiredPrinciples(c)
    BY <1>3, <1>4, <2>1, <2>4 DEF RequiredPrinciples, PrinciplesOf
  <2>6. p \in RequiredOwners(c, "principle") /\ Owners(c, "principle")[p] = c.principles[p]
    BY <2>2, <2>5 DEF RequiredOwners, Owners
  <2> QED
    BY <1>1, <2>6, NeedIsVouched DEF OwnerKinds
<1> QED
  BY <1>4, <1>5, <1>7, <1>9, <1>10 DEF Complete

(* Where validate --release finds nothing, each case of the scope and each *)
(* principle it rests on is proven, need by need, by a selected record     *)
(* that passed: for every catalog, chain of aliases of any length,         *)
(* registry and release.                                                   *)
THEOREM GreenProven == Spec => []GreenMeansProven
<1>1. Init => ValidateHolds
  BY DEF Init, ValidateHolds, NoAnswer
<1>2. Spec => []ValidateHolds
  BY <1>1, ValidateNext, PTL DEF Spec
<1> QED
  BY <1>2, StateAlwaysHolds, GreenMeansProvenHere, PTL

=============================================================================

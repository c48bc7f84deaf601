------------------------------- MODULE FiniteSums -------------------------------
(***************************************************************************)
(* Facts about sums over finite sets, as MapThenSumSet computes them, and  *)
(* about folds over sequences, as FoldLeft computes them, with the         *)
(* induction that both rest on: it takes a set where a principle of        *)
(* induction takes a predicate, and follows from what the library says of  *)
(* finite sets and injections.                                             *)
(***************************************************************************)
EXTENDS Integers, FiniteSetsExt, FiniteSetTheorems, FunctionTheorems, TLAPS

(* What holds of 0 and passes from n to n + 1 holds of every number: the   *)
(* numbers up to n outside of S would be a finite set that n |-> n - 1 maps*)
(* into itself.                                                            *)
LEMMA SetInduction ==
  ASSUME NEW S, 0 \in S, \A n \in Nat : n \in S => n + 1 \in S
  PROVE  \A n \in Nat : n \in S
<1> SUFFICES ASSUME NEW n \in Nat, n \notin S PROVE FALSE
  OBVIOUS
<1> DEFINE T == (0..n) \ S
           f == [m \in T |-> m - 1]
<1>1. IsFiniteSet(0..n)
  BY FS_Interval
<1>2. IsFiniteSet(T)
  <2>1. T \in SUBSET (0..n)
    OBVIOUS
  <2> QED BY <1>1, <2>1, FS_Subset
<1>3. \A m \in T : m \in Nat /\ m # 0 /\ m <= n /\ m - 1 \in T
  <2> SUFFICES ASSUME NEW m \in T PROVE m \in Nat /\ m # 0 /\ m <= n /\ m - 1 \in T
    OBVIOUS
  <2>1. m \in Nat /\ m <= n /\ m \notin S
    OBVIOUS
  <2>2. m # 0
    BY <2>1
  <2>3. m - 1 \in Nat
    BY <2>1, <2>2
  <2>4. m - 1 \notin S
    <3> SUFFICES ASSUME m - 1 \in S PROVE FALSE
      OBVIOUS
    <3>1. (m - 1) + 1 \in S
      BY <2>3
    <3> QED BY <3>1, <2>1
  <2> QED BY <2>1, <2>2, <2>3, <2>4
<1>4. n \in T
  OBVIOUS
<1> HIDE DEF T
<1>5. f \in Injection(T, T)
  <2>1. f \in [T -> T]
    BY <1>3
  <2>2. \A a, b \in T : f[a] = f[b] => a = b
    BY <1>3
  <2> QED BY <2>1, <2>2 DEF Injection, IsInjective
<1>6. f \in Surjection(T, T)
  BY <1>2, <1>5, FS_Injection, Zenon
<1>7. PICK m \in T : f[m] = n
  BY <1>4, <1>6 DEF Surjection
<1> QED BY <1>3, <1>7

(* How a sum is computed over a set: element by element.                   *)
Pick(s) == CHOOSE x \in s : TRUE

Adds(g, f, S) ==
  g = [s \in SUBSET S |-> IF s = {} THEN 0 ELSE f[Pick(s)] + g[s \ {Pick(s)}]]

Total(f, S) == MapThenSumSet(LAMBDA x : f[x], S)

(* Removing an element.                                                    *)
LEMMA PickRemoves ==
  ASSUME NEW s, IsFiniteSet(s), s # {}
  PROVE  /\ Pick(s) \in s
         /\ IsFiniteSet(s \ {Pick(s)})
         /\ Cardinality(s) \in Nat \ {0}
         /\ Cardinality(s \ {Pick(s)}) = Cardinality(s) - 1
<1>1. Pick(s) \in s
  BY DEF Pick
<1> QED
  BY <1>1, FS_RemoveElement, FS_CardinalityType, FS_EmptySet

(* Induction over the subsets of a finite set: P is the set of the subsets *)
(* that have the property.                                                 *)
LEMMA SubsetInduction ==
  ASSUME NEW S, IsFiniteSet(S), NEW P, {} \in P,
         \A s \in SUBSET S : s # {} /\ s \ {Pick(s)} \in P => s \in P
  PROVE  \A s \in SUBSET S : s \in P
<1> DEFINE N == {n \in Nat : \A s \in SUBSET S : Cardinality(s) = n => s \in P}
<1>0. \A s \in SUBSET S : IsFiniteSet(s) /\ Cardinality(s) \in Nat
  BY FS_Subset, FS_CardinalityType
<1>1. 0 \in N
  BY <1>0, FS_EmptySet
<1>2. \A n \in Nat : n \in N => n + 1 \in N
  <2> SUFFICES ASSUME NEW n \in Nat, n \in N, NEW s \in SUBSET S, Cardinality(s) = n + 1
               PROVE  s \in P
    OBVIOUS
  <2>1. s # {}
    BY FS_EmptySet
  <2>2. s \ {Pick(s)} \in SUBSET S /\ Cardinality(s \ {Pick(s)}) = n
    BY <1>0, <2>1, PickRemoves
  <2> QED
    BY <2>1, <2>2
<1> HIDE DEF N
<1>3. \A n \in Nat : n \in N
  BY <1>1, <1>2, SetInduction
<1> QED
  BY <1>0, <1>3 DEF N

(* There is such a function,                                               *)
LEMMA AddsExists ==
  ASSUME NEW f, NEW S, IsFiniteSet(S), \A x \in S : f[x] \in Int
  PROVE  \E g \in [SUBSET S -> Int] : Adds(g, f, S)
<1> DEFINE Small(n) == {s \in SUBSET S : Cardinality(s) <= n}
           Step(g, s) == IF s = {} THEN 0 ELSE f[Pick(s)] + g[s \ {Pick(s)}]
           Fits(g, n) == \A s \in Small(n) : g[s] = Step(g, s)
           N == {n \in Nat : \E g \in [SUBSET S -> Int] : Fits(g, n)}
<1>1. \A s \in SUBSET S : IsFiniteSet(s) /\ Cardinality(s) \in Nat
  BY FS_Subset, FS_CardinalityType
<1>2. 0 \in N
  <2>1. [s \in SUBSET S |-> 0] \in [SUBSET S -> Int]
    OBVIOUS
  <2>2. \A s \in Small(0) : s = {}
    BY <1>1, FS_EmptySet
  <2>3. Fits([s \in SUBSET S |-> 0], 0)
    BY <2>2
  <2>4. \E g \in [SUBSET S -> Int] : Fits(g, 0)
    <3> HIDE DEF Fits
    <3> QED
      BY <2>1, <2>3
  <2> HIDE DEF Fits
  <2> QED
    BY <2>4
<1>3. ASSUME NEW n \in Nat, NEW g \in [SUBSET S -> Int], Fits(g, n)
      PROVE  \E h \in [SUBSET S -> Int] : Fits(h, n + 1)
  <2> DEFINE h == [s \in SUBSET S |-> Step(g, s)]
  <2>1. \A s \in SUBSET S : s # {} => Pick(s) \in S /\ s \ {Pick(s)} \in SUBSET S
    BY <1>1, PickRemoves
  <2>2. h \in [SUBSET S -> Int]
    BY <2>1
  <2>3. ASSUME NEW s \in Small(n + 1)
        PROVE  h[s] = Step(h, s)
    <3>1. CASE s = {}
      BY <3>1
    <3>2. CASE s # {}
      <4> DEFINE t == s \ {Pick(s)}
      <4>1. t \in Small(n)
        BY <1>1, <2>1, <3>2, PickRemoves
      <4>2. g[t] = Step(g, t)
        BY <1>3, <4>1
      <4>3. h[t] = Step(g, t)
        BY <4>1
      <4>4. h[s] = f[Pick(s)] + g[t]
        BY <3>2
      <4> QED
        BY <3>2, <4>2, <4>3, <4>4
    <3> QED
      BY <3>1, <3>2
  <2> QED
    BY <2>2, <2>3
<1> HIDE DEF Fits
<1>4. ASSUME NEW n \in Nat, n \in N PROVE n + 1 \in N
  <2>1. PICK g \in [SUBSET S -> Int] : Fits(g, n)
    BY <1>4
  <2>2. \E h \in [SUBSET S -> Int] : Fits(h, n + 1)
    BY <1>3, <2>1
  <2> QED
    BY <2>2
<1> HIDE DEF N
<1>5. Cardinality(S) \in N
  BY <1>2, <1>4, SetInduction, FS_CardinalityType
<1>6. PICK g \in [SUBSET S -> Int] : Fits(g, Cardinality(S))
  BY <1>5 DEF N
<1>7. \A s \in SUBSET S : s \in Small(Cardinality(S))
  BY FS_Subset
<1>8. \A s \in SUBSET S : g[s] = Step(g, s)
  BY <1>6, <1>7 DEF Fits
<1> HIDE DEF Step
<1>9. g = [s \in SUBSET S |-> Step(g, s)]
  BY <1>8
<1> QED
  BY <1>9 DEF Adds, Step

(* and only one.                                                           *)
LEMMA AddsUnique ==
  ASSUME NEW f, NEW S, IsFiniteSet(S), NEW g, NEW h, Adds(g, f, S), Adds(h, f, S)
  PROVE  g = h
<1> DEFINE P == {s \in SUBSET S : g[s] = h[s]}
           Step(k, s) == IF s = {} THEN 0 ELSE f[Pick(s)] + k[s \ {Pick(s)}]
<1>1. \A s \in SUBSET S : g[s] = Step(g, s) /\ h[s] = Step(h, s)
  BY DEF Adds
<1>2. {} \in P
  BY <1>1
<1>3. \A s \in SUBSET S : s # {} /\ s \ {Pick(s)} \in P => s \in P
  BY <1>1
<1> HIDE DEF P
<1>4. \A s \in SUBSET S : s \in P
  BY <1>2, <1>3, SubsetInduction
<1> HIDE DEF Step
<1>5. g = [s \in SUBSET S |-> g[s]] /\ h = [s \in SUBSET S |-> h[s]]
  BY DEF Adds
<1>6. \A s \in SUBSET S : g[s] = h[s]
  BY <1>4 DEF P
<1> QED
  BY <1>5, <1>6

(* The total is what that function has for the set.                        *)
LEMMA TotalIs ==
  ASSUME NEW f, NEW S, IsFiniteSet(S), NEW g, Adds(g, f, S)
  PROVE  Total(f, S) = g[S]
<1> DEFINE iter == CHOOSE h : h = [s \in SUBSET S |->
                     IF s = {} THEN 0
                     ELSE LET x == CHOOSE x \in s : TRUE IN f[x] + h[s \ {x}]]
<1>1. Total(f, S) = iter[S]
  BY DEF Total, MapThenSumSet, MapThenFoldSet
<1>2. g = [s \in SUBSET S |->
             IF s = {} THEN 0 ELSE LET x == CHOOSE x \in s : TRUE IN f[x] + g[s \ {x}]]
  BY DEF Adds, Pick
<1>3. iter = [s \in SUBSET S |->
                IF s = {} THEN 0 ELSE LET x == CHOOSE x \in s : TRUE IN f[x] + iter[s \ {x}]]
  BY <1>2
<1> HIDE DEF iter
<1>4. Adds(iter, f, S)
  BY <1>3 DEF Adds, Pick
<1> QED
  BY <1>1, <1>4, AddsUnique

(* Nor does the total depend on what the set is part of.                   *)
LEMMA TotalWithin ==
  ASSUME NEW f, NEW S, IsFiniteSet(S), NEW g, Adds(g, f, S), NEW s \in SUBSET S
  PROVE  Total(f, s) = g[s]
<1> DEFINE h == [t \in SUBSET s |-> g[t]]
           Step(k, t) == IF t = {} THEN 0 ELSE f[Pick(t)] + k[t \ {Pick(t)}]
<1>1. \A t \in SUBSET S : g[t] = Step(g, t)
  BY DEF Adds
<1>2. \A t \in SUBSET s : Step(g, t) = Step(h, t)
  OBVIOUS
<1>3. \A t \in SUBSET s : h[t] = Step(h, t)
  BY <1>1, <1>2
<1>4. h = [t \in SUBSET s |-> Step(h, t)]
  <2>1. h = [t \in SUBSET s |-> h[t]]
    OBVIOUS
  <2> HIDE DEF h, Step
  <2> QED
    BY <1>3, <2>1
<1>5. Adds(h, f, s)
  BY <1>4 DEF Adds
<1>6. IsFiniteSet(s) /\ h[s] = g[s]
  BY FS_Subset
<1> QED
  BY <1>5, <1>6, TotalIs

(* The total of nothing.                                                   *)
LEMMA TotalOfNone ==
  ASSUME NEW f PROVE Total(f, {}) = 0
<1>1. PICK g \in [SUBSET {} -> Int] : Adds(g, f, {})
  BY FS_EmptySet, AddsExists
<1>2. g[{}] = 0
  BY <1>1 DEF Adds
<1> QED
  BY <1>1, <1>2, FS_EmptySet, TotalIs

(* Taking any one element out of a set takes its value from the total.     *)
LEMMA TotalWithout ==
  ASSUME NEW f, NEW S, IsFiniteSet(S), \A x \in S : f[x] \in Int, NEW y \in S
  PROVE  /\ Total(f, S) \in Int /\ Total(f, S \ {y}) \in Int
         /\ Total(f, S) = f[y] + Total(f, S \ {y})
<1>1. PICK g \in [SUBSET S -> Int] : Adds(g, f, S)
  BY AddsExists
<1> DEFINE Loses(s, x) == g[s] = f[x] + g[s \ {x}]
           N == {n \in Nat : \A s \in SUBSET S : Cardinality(s) = n => \A x \in s : Loses(s, x)}
<1>2. \A s \in SUBSET S : s # {} => Loses(s, Pick(s))
  BY <1>1 DEF Adds
<1>3. \A s \in SUBSET S : IsFiniteSet(s) /\ Cardinality(s) \in Nat
  BY FS_Subset, FS_CardinalityType
<1>4. 0 \in N
  <2>1. \A s \in SUBSET S : Cardinality(s) = 0 => s = {}
    BY <1>3, FS_EmptySet
  <2> QED
    BY <2>1
<1>5. \A n \in Nat : n \in N => n + 1 \in N
  <2> SUFFICES ASSUME NEW n \in Nat, n \in N, NEW s \in SUBSET S, Cardinality(s) = n + 1,
                      NEW x \in s
               PROVE  Loses(s, x)
    OBVIOUS
  <2> DEFINE p == Pick(s)
  <2>1. p \in s
    BY DEF Pick
  <2>2. CASE x = p
    BY <1>2, <2>2
  <2>3. CASE x # p
    <3>1. /\ s \ {x} \in SUBSET S /\ p \in s \ {x}
          /\ s \ {p} \in SUBSET S /\ x \in s \ {p}
          /\ Cardinality(s \ {x}) = n /\ Cardinality(s \ {p}) = n
      <4>1. IsFiniteSet(s)
        BY <1>3
      <4>2. \A z \in s : Cardinality(s \ {z}) = Cardinality(s) - 1
        BY <4>1, FS_RemoveElement
      <4>3. Cardinality(s \ {x}) = n /\ Cardinality(s \ {p}) = n
        BY <2>1, <4>2
      <4> QED
        BY <2>1, <2>3, <4>3
    <3>2. Loses(s \ {x}, p) /\ Loses(s \ {p}, x)
      BY <3>1
    <3>3. Loses(s, p)
      BY <1>2, <2>1
    <3>4. (s \ {x}) \ {p} = (s \ {p}) \ {x} /\ (s \ {p}) \ {x} \in SUBSET S
      OBVIOUS
    <3>5. /\ g[s] \in Int /\ g[s \ {x}] \in Int /\ g[s \ {p}] \in Int
          /\ g[(s \ {p}) \ {x}] \in Int /\ f[x] \in Int /\ f[p] \in Int
      BY <1>1, <2>1, <3>1, <3>4
    <3>6. /\ g[s \ {x}] = f[p] + g[(s \ {p}) \ {x}]
          /\ g[s \ {p}] = f[x] + g[(s \ {p}) \ {x}]
          /\ g[s] = f[p] + g[s \ {p}]
      BY <3>2, <3>3, <3>4
    <3>7. g[s] = f[x] + g[s \ {x}]
      <4> HIDE DEF p
      <4> QED
        BY <3>5, <3>6
    <3> QED
      BY <3>7
  <2> QED
    BY <2>2, <2>3
<1> HIDE DEF N
<1>6. Cardinality(S) \in N
  BY <1>3, <1>4, <1>5, SetInduction
<1>7. Loses(S, y)
  BY <1>6 DEF N
<1>8. Total(f, S) = g[S] /\ Total(f, S \ {y}) = g[S \ {y}]
  BY <1>1, TotalWithin
<1> QED
  BY <1>1, <1>7, <1>8

(* A total is a whole number,                                              *)
LEMMA TotalTyped ==
  ASSUME NEW f, NEW S, IsFiniteSet(S), \A x \in S : f[x] \in Int
  PROVE  Total(f, S) \in Int
<1>1. CASE S = {}
  BY <1>1, TotalOfNone
<1>2. CASE S # {}
  BY <1>2, TotalWithout
<1> QED
  BY <1>1, <1>2

(* and putting one element in adds its value.                              *)
LEMMA TotalWith ==
  ASSUME NEW f, NEW S, IsFiniteSet(S), NEW y, y \notin S, \A x \in S \cup {y} : f[x] \in Int
  PROVE  Total(f, S \cup {y}) = f[y] + Total(f, S)
<1>1. IsFiniteSet(S \cup {y}) /\ (S \cup {y}) \ {y} = S
  BY FS_AddElement
<1> QED
  BY <1>1, TotalWithout

(* The total of two sets that have nothing in common.                      *)
LEMMA TotalOfUnion ==
  ASSUME NEW f, NEW S, IsFiniteSet(S), NEW T, IsFiniteSet(T), S \cap T = {},
         \A x \in S \cup T : f[x] \in Int
  PROVE  Total(f, S \cup T) = Total(f, S) + Total(f, T)
<1> DEFINE P == {t \in SUBSET T : Total(f, S \cup t) = Total(f, S) + Total(f, t)}
<1>0. \A t \in SUBSET T : IsFiniteSet(t) /\ IsFiniteSet(S \cup t) /\ Total(f, t) \in Int
  <2> SUFFICES ASSUME NEW t \in SUBSET T
               PROVE  IsFiniteSet(t) /\ IsFiniteSet(S \cup t) /\ Total(f, t) \in Int
    OBVIOUS
  <2>1. IsFiniteSet(t)
    BY FS_Subset
  <2>2. IsFiniteSet(S \cup t)
    BY <2>1, FS_Union
  <2>3. \A x \in t : f[x] \in Int
    OBVIOUS
  <2>4. Total(f, t) \in Int
    BY <2>1, <2>3, TotalTyped
  <2> QED
    BY <2>1, <2>2, <2>4
<1>1. Total(f, S) \in Int
  BY TotalTyped
<1>2. {} \in P
  BY <1>1, TotalOfNone
<1>3. ASSUME NEW t \in SUBSET T, t # {}, t \ {Pick(t)} \in P
      PROVE  t \in P
  <2> DEFINE x == Pick(t)
  <2>1. x \in t
    BY <1>3 DEF Pick
  <2> HIDE DEF x
  <2>2. (S \cup t) \ {x} = S \cup (t \ {x})
    BY <2>1
  <2>3. Total(f, S \cup t) = f[x] + Total(f, S \cup (t \ {x}))
    <3>1. IsFiniteSet(S \cup t) /\ x \in S \cup t /\ \A y \in S \cup t : f[y] \in Int
      BY <1>0, <2>1
    <3>2. Total(f, S \cup t) = f[x] + Total(f, (S \cup t) \ {x})
      BY <3>1, TotalWithout
    <3> QED
      BY <2>2, <3>2
  <2>4. Total(f, t) = f[x] + Total(f, t \ {x})
    <3>1. IsFiniteSet(t) /\ x \in t /\ \A y \in t : f[y] \in Int
      BY <1>0, <2>1
    <3> QED
      BY <3>1, TotalWithout
  <2>5. Total(f, S \cup (t \ {x})) = Total(f, S) + Total(f, t \ {x})
    BY <1>3 DEF x
  <2>6. f[x] \in Int /\ Total(f, t \ {x}) \in Int
    BY <1>0, <2>1
  <2> QED
    BY <1>1, <2>3, <2>4, <2>5, <2>6
<1> HIDE DEF P
<1>4. \A t \in SUBSET T : t \in P
  BY <1>2, <1>3, SubsetInduction
<1> QED
  BY <1>4 DEF P

(* Where no value is negative, no part has more than the whole.            *)
LEMMA TotalOfNaturals ==
  ASSUME NEW f, NEW S, IsFiniteSet(S), \A x \in S : f[x] \in Nat
  PROVE  Total(f, S) \in Nat
<1> DEFINE P == {s \in SUBSET S : Total(f, s) \in Nat}
<1>1. {} \in P
  BY TotalOfNone
<1>2. ASSUME NEW s \in SUBSET S, s # {}, s \ {Pick(s)} \in P
      PROVE  s \in P
  <2>1. IsFiniteSet(s) /\ Pick(s) \in s
    BY <1>2, FS_Subset DEF Pick
  <2>2. Total(f, s) = f[Pick(s)] + Total(f, s \ {Pick(s)})
    BY <2>1, TotalWithout
  <2> QED
    BY <1>2, <2>1, <2>2
<1> HIDE DEF P
<1>3. \A s \in SUBSET S : s \in P
  BY <1>1, <1>2, SubsetInduction
<1> QED
  BY <1>3 DEF P

LEMMA TotalGrows ==
  ASSUME NEW f, NEW S, IsFiniteSet(S), \A x \in S : f[x] \in Nat, NEW T \in SUBSET S
  PROVE  Total(f, T) <= Total(f, S)
<1> DEFINE R == S \ T
<1>1. /\ T \cup R = S /\ T \cap R = {} /\ R \in SUBSET S
      /\ \A x \in T \cup R : f[x] \in Nat /\ f[x] \in Int
  OBVIOUS
<1> HIDE DEF R
<1>2. IsFiniteSet(T) /\ IsFiniteSet(R)
  BY <1>1, FS_Subset
<1>3. Total(f, T \cup R) = Total(f, T) + Total(f, R)
  BY <1>1, <1>2, TotalOfUnion
<1>4. Total(f, T) \in Nat
  BY <1>1, <1>2, TotalOfNaturals
<1>5. Total(f, R) \in Nat
  BY <1>1, <1>2, TotalOfNaturals
<1>6. Total(f, S) = Total(f, T) + Total(f, R)
  BY <1>1, <1>3
<1> QED
  BY <1>4, <1>5, <1>6

(* Only the values of the elements count.                                  *)
LEMMA TotalSame ==
  ASSUME NEW f, NEW g, NEW S, IsFiniteSet(S), \A x \in S : f[x] \in Int /\ g[x] = f[x]
  PROVE  Total(g, S) = Total(f, S)
<1>1. PICK h \in [SUBSET S -> Int] : Adds(h, f, S)
  BY AddsExists
<1> DEFINE Step(k, s) == IF s = {} THEN 0 ELSE k[Pick(s)] + h[s \ {Pick(s)}]
<1>2. h = [s \in SUBSET S |-> Step(f, s)]
  BY <1>1 DEF Adds
<1>3. \A s \in SUBSET S : Step(f, s) = Step(g, s)
  <2>1. \A s \in SUBSET S : s # {} => Pick(s) \in S
    BY DEF Pick
  <2> QED
    BY <2>1
<1> HIDE DEF Step
<1>4. h = [s \in SUBSET S |-> Step(g, s)]
  BY <1>2, <1>3
<1>5. Adds(h, g, S)
  BY <1>4 DEF Adds, Step
<1> QED
  BY <1>1, <1>5, TotalIs

(* Where any two elements of a finite set can be compared, one of them is  *)
(* above all others.                                                       *)
LEMMA FiniteHasTop ==
  ASSUME NEW S, IsFiniteSet(S), S # {}, NEW R,
         \A x, y \in S : x = y \/ <<x, y>> \in R \/ <<y, x>> \in R,
         \A x, y, z \in S : <<x, y>> \in R /\ <<y, z>> \in R => <<x, z>> \in R
  PROVE  \E m \in S : \A x \in S : x = m \/ <<x, m>> \in R
<1> DEFINE Top(s, m) == m \in s /\ \A x \in s : x = m \/ <<x, m>> \in R
           P == {s \in SUBSET S : s = {} \/ \E m \in S : Top(s, m)}
<1>1. {} \in P
  OBVIOUS
<1>2. ASSUME NEW s \in SUBSET S, s # {}, s \ {Pick(s)} \in P
      PROVE  s \in P
  <2> DEFINE p == Pick(s)
  <2>1. p \in s
    BY <1>2 DEF Pick
  <2> HIDE DEF p
  <2>2. CASE s \ {p} = {}
    <3>1. Top(s, p)
      BY <2>1, <2>2
    <3> QED
      BY <2>1, <3>1
  <2>3. CASE s \ {p} # {}
    <3>1. PICK m \in S : Top(s \ {p}, m)
      BY <1>2, <2>3 DEF p
    <3>2. CASE <<p, m>> \in R
      <4>1. Top(s, m)
        BY <3>1, <3>2
      <4> QED
        BY <4>1
    <3>3. CASE <<m, p>> \in R
      <4>1. Top(s, p)
        BY <2>1, <3>1, <3>3
      <4> QED
        BY <2>1, <4>1
    <3>4. p # m /\ p \in S
      BY <2>1, <3>1
    <3> QED
      BY <3>2, <3>3, <3>4
  <2> QED
    BY <2>2, <2>3
<1> HIDE DEF P
<1>3. \A s \in SUBSET S : s \in P
  BY <1>1, <1>2, SubsetInduction
<1>4. S \in P
  BY <1>3
<1>5. PICK m \in S : Top(S, m)
  BY <1>4 DEF P
<1> QED
  BY <1>5

-----------------------------------------------------------------------------
(* Folds over a sequence of length n, as FoldLeft computes them: from a    *)
(* function on the sets of positions, the last position first.  The step   *)
(* of a fold is an operator, and here the function that it is on V, where  *)
(* its results are.                                                        *)

(* A set of positions is finite.                                           *)
LEMMA PositionsFinite ==
  ASSUME NEW n \in Nat
  PROVE  /\ IsFiniteSet(1..n) /\ Cardinality(1..n) \in Nat
         /\ \A s \in SUBSET (1..n) : IsFiniteSet(s) /\ Cardinality(s) \in Nat
                                     /\ Cardinality(s) <= Cardinality(1..n)
<1>1. 1 \in Int /\ n \in Int
  OBVIOUS
<1>2. IsFiniteSet(1..n)
  BY <1>1, FS_Interval
<1>3. \A s \in SUBSET (1..n) : IsFiniteSet(s) /\ Cardinality(s) <= Cardinality(1..n)
  BY <1>2, FS_Subset
<1> QED
  BY <1>2, <1>3, FS_CardinalityType

(* A set of positions has a last one.                                      *)
LEMMA LastPosition ==
  ASSUME NEW n \in Nat, NEW s \in SUBSET (1..n), s # {}
  PROVE  Max(s) \in s
<1> DEFINE R == {p \in s \X s : p[1] <= p[2]}
<1>1. IsFiniteSet(s) /\ s \subseteq Nat
  BY PositionsFinite
<1>2. /\ \A x, y \in s : x = y \/ <<x, y>> \in R \/ <<y, x>> \in R
      /\ \A x, y, z \in s : <<x, y>> \in R /\ <<y, z>> \in R => <<x, z>> \in R
  BY <1>1
<1>3. PICK m \in s : \A x \in s : x = m \/ <<x, m>> \in R
  <2> HIDE DEF R
  <2> QED
    BY <1>1, <1>2, FiniteHasTop
<1>4. \A x \in s : m >= x
  <2> SUFFICES ASSUME NEW x \in s PROVE m >= x
    OBVIOUS
  <2>1. x = m \/ <<x, m>> \in R
    BY <1>3
  <2>2. x = m \/ x <= m
    BY <2>1
  <2> QED
    BY <1>1, <2>2
<1> QED
  BY <1>4 DEF Max

(* Taking the last position out of a set of them.                          *)
LEMMA LastRemoved ==
  ASSUME NEW n \in Nat, NEW s \in SUBSET (1..n), s # {}
  PROVE  /\ Max(s) \in 1..n /\ s \ {Max(s)} \in SUBSET (1..n)
         /\ IsFiniteSet(s) /\ Cardinality(s) \in Nat \ {0}
         /\ Cardinality(s \ {Max(s)}) = Cardinality(s) - 1
<1>1. Max(s) \in s /\ IsFiniteSet(s)
  BY LastPosition, PositionsFinite
<1> QED
  BY <1>1, FS_RemoveElement, FS_CardinalityType, FS_EmptySet

(* What such a fold reaches stays where its base is and its steps stay.    *)
LEMMA FoldStays ==
  ASSUME NEW n \in Nat, NEW V, NEW iter, iter[{}] \in V,
         \A s \in SUBSET (1..n) : s # {} /\ iter[s \ {Max(s)}] \in V => iter[s] \in V
  PROVE  iter[1..n] \in V
<1> DEFINE N == {m \in Nat : \A s \in SUBSET (1..n) : Cardinality(s) = m => iter[s] \in V}
<1>1. \A s \in SUBSET (1..n) : IsFiniteSet(s) /\ Cardinality(s) \in Nat
  BY PositionsFinite
<1>2. 0 \in N
  BY <1>1, FS_EmptySet
<1>3. \A m \in Nat : m \in N => m + 1 \in N
  <2> SUFFICES ASSUME NEW m \in Nat, m \in N, NEW s \in SUBSET (1..n), Cardinality(s) = m + 1
               PROVE  iter[s] \in V
    OBVIOUS
  <2>1. s # {}
    BY FS_EmptySet
  <2>2. s \ {Max(s)} \in SUBSET (1..n) /\ Cardinality(s \ {Max(s)}) = m
    BY <2>1, LastRemoved
  <2> QED
    BY <2>1, <2>2
<1> HIDE DEF N
<1>4. \A m \in Nat : m \in N
  BY <1>2, <1>3, SetInduction
<1> QED
  BY <1>1, <1>4 DEF N

(* The function that such a fold is computed from.                         *)
FoldedFrom(g, base, step, n) ==
  g = [s \in SUBSET (1..n) |->
         IF s = {} THEN base ELSE step[<<Max(s), g[s \ {Max(s)}]>>]]

(* There is such a function.                                               *)
LEMMA FoldExists ==
  ASSUME NEW n \in Nat, NEW V, NEW base \in V, NEW step \in [(1..n) \X V -> V]
  PROVE  \E g \in [SUBSET (1..n) -> V] : FoldedFrom(g, base, step, n)
<1> DEFINE S == 1..n
           Small(m) == {s \in SUBSET S : Cardinality(s) <= m}
           Step(g, s) == IF s = {} THEN base ELSE step[<<Max(s), g[s \ {Max(s)}]>>]
           Fits(g, m) == \A s \in Small(m) : g[s] = Step(g, s)
           N == {m \in Nat : \E g \in [SUBSET S -> V] : Fits(g, m)}
<1>1. \A s \in SUBSET S : IsFiniteSet(s) /\ Cardinality(s) \in Nat
  BY PositionsFinite
<1>2. 0 \in N
  <2>1. [s \in SUBSET S |-> base] \in [SUBSET S -> V]
    OBVIOUS
  <2>2. \A s \in Small(0) : s = {}
    BY <1>1, FS_EmptySet
  <2>3. Fits([s \in SUBSET S |-> base], 0)
    BY <2>2
  <2>4. \E g \in [SUBSET S -> V] : Fits(g, 0)
    <3> HIDE DEF Fits
    <3> QED
      BY <2>1, <2>3
  <2> HIDE DEF Fits
  <2> QED
    BY <2>4
<1>3. ASSUME NEW m \in Nat, NEW g \in [SUBSET S -> V], Fits(g, m)
      PROVE  \E h \in [SUBSET S -> V] : Fits(h, m + 1)
  <2> DEFINE h == [s \in SUBSET S |-> Step(g, s)]
  <2>1. \A s \in SUBSET S : s # {} => Max(s) \in S /\ s \ {Max(s)} \in SUBSET S
    BY LastRemoved
  <2>2. \A s \in SUBSET S : Step(g, s) \in V
    BY <2>1
  <2>3. h \in [SUBSET S -> V]
    BY <2>2
  <2>4. ASSUME NEW s \in Small(m + 1)
        PROVE  h[s] = Step(h, s)
    <3>1. CASE s = {}
      BY <3>1
    <3>2. CASE s # {}
      <4> DEFINE t == s \ {Max(s)}
      <4>1. t \in Small(m)
        BY <1>1, <3>2, LastRemoved
      <4>2. g[t] = Step(g, t) /\ h[t] = Step(g, t)
        BY <1>3, <4>1
      <4>3. h[s] = step[<<Max(s), g[t]>>]
        BY <3>2
      <4> QED
        BY <3>2, <4>2, <4>3
    <3> QED
      BY <3>1, <3>2
  <2> QED
    BY <2>3, <2>4
<1> HIDE DEF Fits
<1>4. ASSUME NEW m \in Nat, m \in N PROVE m + 1 \in N
  <2>1. PICK g \in [SUBSET S -> V] : Fits(g, m)
    BY <1>4
  <2>2. \E h \in [SUBSET S -> V] : Fits(h, m + 1)
    BY <1>3, <2>1
  <2> QED
    BY <2>2
<1> HIDE DEF N
<1>5. IsFiniteSet(S) /\ Cardinality(S) \in Nat
  BY PositionsFinite
<1>6. Cardinality(S) \in N
  BY <1>2, <1>4, <1>5, SetInduction
<1>7. PICK g \in [SUBSET S -> V] : Fits(g, Cardinality(S))
  BY <1>6 DEF N
<1>8. \A s \in SUBSET S : s \in Small(Cardinality(S))
  BY PositionsFinite
<1>9. \A s \in SUBSET S : g[s] = Step(g, s)
  BY <1>7, <1>8 DEF Fits
<1> HIDE DEF Step
<1>10. g = [s \in SUBSET S |-> Step(g, s)]
  BY <1>9
<1> QED
  BY <1>10 DEF FoldedFrom, Step

=============================================================================

------------------------------ MODULE FaitsProofs ------------------------------
(***************************************************************************)
(* Proofs about the two fact tables and the dashboard that compares them:   *)
(* Realise, for any keys, amounts, files and number of requests; Ecarts, for *)
(* any budget; LignesBudget, for any accounts, months, currencies and        *)
(* amounts, and with no bound on the lines.                                 *)
(***************************************************************************)
EXTENDS Ecarts, LignesBudget, FiniteSetTheorems, TLAPS

-----------------------------------------------------------------------------
(* Induction, on the numbers and on the finite sets: what has all of them is *)
(* a set, E or F, that each use defines by the formula it is about.          *)

(* A set of orders has a least one.  Otherwise its lower bounds would form  *)
(* a finite set closed by successor, on which the successor, injective,     *)
(* would reach 0.                                                           *)
LEMMA PlusPetit ==
  ASSUME NEW T \in SUBSET Nat, T # {}
  PROVE  \E n \in T : \A m \in T : n <= m
<1>. DEFINE Minorants == {k \in Nat : \A t \in T : k <= t}
<1>1. SUFFICES ASSUME T \cap Minorants = {}
               PROVE  FALSE
  OBVIOUS
<1>2. PICK n \in Nat : n \in T
  OBVIOUS
<1>3. IsFiniteSet(Minorants)
  BY <1>2, FS_BoundedSetOfNaturals
<1>. DEFINE suite == [k \in Minorants |-> k + 1]
<1>4. suite \in Injection(Minorants, Minorants)
  <2>1. \A k \in Minorants : k + 1 \in Minorants
    BY <1>1
  <2>. QED  BY <2>1 DEF Injection, IsInjective
<1>5. suite \in Surjection(Minorants, Minorants)
  BY <1>3, <1>4, FS_Injection, FS_CardinalityType
<1>6. 0 \in Minorants
  OBVIOUS
<1>7. PICK k \in Minorants : suite[k] = 0
  <2>. HIDE DEF suite, Minorants
  <2>. QED  BY <1>5, <1>6 DEF Surjection
<1>. QED  BY <1>7

LEMMA Recurrence ==
  ASSUME NEW E, 0 \in E, \A n \in Nat : n \in E => n + 1 \in E
  PROVE  \A n \in Nat : n \in E
<1>. DEFINE T == Nat \ E
<1>1. SUFFICES ASSUME T # {}
               PROVE  FALSE
  OBVIOUS
<1>2. PICK n \in T : \A m \in T : n <= m
  <2>. HIDE DEF T
  <2>1. T \in SUBSET Nat
    BY DEF T
  <2>. QED  BY <1>1, <2>1, PlusPetit
<1>3. n \in Nat /\ n # 0 /\ n - 1 \in Nat /\ ~ (n <= n - 1)
  OBVIOUS
<1>4. n - 1 \in E
  BY <1>2, <1>3
<1>. QED  BY <1>3, <1>4

LEMMA UnDeMoins ==
  ASSUME NEW n \in Nat, NEW T, IsFiniteSet(T), Cardinality(T) = n + 1
  PROVE  T # {} /\ \A x \in T : Cardinality(T \ {x}) = n
<1>1. T # {}
  <2>1. Cardinality({}) = 0
    BY FS_EmptySet
  <2>2. n + 1 # 0
    OBVIOUS
  <2>. QED  BY <2>1, <2>2
<1>2. ASSUME NEW x \in T
      PROVE  Cardinality(T \ {x}) = n
  <2>1. Cardinality(T \ {x}) = Cardinality(T) - 1
    BY FS_RemoveElement
  <2>. QED  BY <2>1
<1>. QED  BY <1>1, <1>2

(* A set of finite sets, closed by adding an element, has all of them.       *)
LEMMA RecurrenceFinie ==
  ASSUME NEW S, IsFiniteSet(S), NEW F, {} \in F,
         \A T \in SUBSET S : \A x \in S \ T : T \in F => T \cup {x} \in F
  PROVE  S \in F
<1>. DEFINE E == {n \in Nat : \A T \in SUBSET S : Cardinality(T) = n => T \in F}
<1>1. 0 \in E
  <2>1. ASSUME NEW T \in SUBSET S, Cardinality(T) = 0
        PROVE  T \in F
    BY <2>1, FS_Subset, FS_EmptySet
  <2>. QED  BY <2>1
<1>2. ASSUME NEW n \in Nat, n \in E
      PROVE  n + 1 \in E
  <2>1. ASSUME NEW T \in SUBSET S, Cardinality(T) = n + 1
        PROVE  T \in F
    <3>1. IsFiniteSet(T)
      BY FS_Subset
    <3>2. PICK x : x \in T
      BY <2>1, <3>1, UnDeMoins
    <3>3. Cardinality(T \ {x}) = n
      BY <2>1, <3>1, <3>2, UnDeMoins
    <3>4. T \ {x} \in SUBSET S /\ x \in S \ (T \ {x}) /\ (T \ {x}) \cup {x} = T
      BY <3>2
    <3>5. T \ {x} \in F
      BY <1>2, <3>3, <3>4
    <3>. QED  BY <3>4, <3>5
  <2>. QED  BY <2>1
<1>3. \A n \in Nat : n \in E
  <2>. HIDE DEF E
  <2>. QED  BY <1>1, <1>2, Recurrence
<1>4. Cardinality(S) \in Nat
  BY FS_CardinalityType
<1>. QED  BY <1>3, <1>4

Un(s) == CHOOSE x \in s : TRUE
(* h tabulates the sums of f over the sets of U.                            *)
Tabule(h, f, U) ==
  h = [s \in U |-> IF s = {} THEN 0 ELSE f[Un(s)] + h[s \ {Un(s)}]]

LEMMA TableauUnique ==
  ASSUME NEW S, IsFiniteSet(S), NEW U, NEW V, SUBSET S \subseteq U, SUBSET S \subseteq V,
         NEW f, NEW g, NEW h, Tabule(g, f, U), Tabule(h, f, V)
  PROVE  g[S] = h[S]
<1>. DEFINE E == {n \in Nat : \A T \in SUBSET S : Cardinality(T) = n => g[T] = h[T]}
<1>0. ASSUME NEW T \in SUBSET S, T # {}
      PROVE  /\ g[T] = f[Un(T)] + g[T \ {Un(T)}] /\ h[T] = f[Un(T)] + h[T \ {Un(T)}]
             /\ Un(T) \in T /\ T \ {Un(T)} \in SUBSET S
  <2>1. Un(T) \in T
    BY <1>0 DEF Un
  <2>. QED  BY <1>0, <2>1 DEF Tabule
<1>1. 0 \in E
  <2>1. ASSUME NEW T \in SUBSET S, Cardinality(T) = 0
        PROVE  g[T] = h[T]
    <3>1. T = {}
      BY <2>1, FS_Subset, FS_EmptySet
    <3>. QED  BY <3>1 DEF Tabule
  <2>. QED  BY <2>1
<1>2. ASSUME NEW n \in Nat, n \in E
      PROVE  n + 1 \in E
  <2>1. ASSUME NEW T \in SUBSET S, Cardinality(T) = n + 1
        PROVE  g[T] = h[T]
    <3>1. IsFiniteSet(T) /\ T # {}
      BY <2>1, FS_Subset, UnDeMoins
    <3>2. Cardinality(T \ {Un(T)}) = n
      BY <2>1, <3>1, <1>0, UnDeMoins
    <3>3. g[T \ {Un(T)}] = h[T \ {Un(T)}]
      BY <1>0, <1>2, <3>1, <3>2
    <3>. QED  BY <1>0, <3>1, <3>3
  <2>. QED  BY <2>1
<1>3. \A n \in Nat : n \in E
  <2>. HIDE DEF E
  <2>. QED  BY <1>1, <1>2, Recurrence
<1>4. Cardinality(S) \in Nat
  BY FS_CardinalityType
<1>. QED  BY <1>3, <1>4

LEMMA TableauExiste ==
  ASSUME NEW S, IsFiniteSet(S), NEW f
  PROVE  \E h : Tabule(h, f, SUBSET S)
<1>. DEFINE Petits(n) == {s \in SUBSET S : Cardinality(s) <= n}
            E == {n \in Nat : \E h : Tabule(h, f, Petits(n))}
<1>0. ASSUME NEW s \in SUBSET S
      PROVE  /\ IsFiniteSet(s) /\ Cardinality(s) \in Nat /\ Cardinality(s) <= Cardinality(S)
             /\ s # {} => Un(s) \in s /\ Cardinality(s \ {Un(s)}) = Cardinality(s) - 1
             /\ Cardinality(s) = 0 <=> s = {}
  <2>1. IsFiniteSet(s) /\ Cardinality(s) <= Cardinality(S)
    BY FS_Subset
  <2>2. s # {} => Un(s) \in s
    BY DEF Un
  <2>. QED  BY <2>1, <2>2, FS_RemoveElement, FS_EmptySet, FS_CardinalityType
<1>1. 0 \in E
  <2>. DEFINE h == [s \in {{}} |-> 0]
  <2>1. Petits(0) = {{}}
    <3>1. ASSUME NEW s \in SUBSET S
          PROVE  Cardinality(s) <= 0 <=> Cardinality(s) = 0
      <4>1. Cardinality(s) \in Nat
        BY <1>0
      <4>. QED  BY <4>1
    <3>2. \A s \in SUBSET S : Cardinality(s) = 0 <=> s = {}
      BY <1>0
    <3>. QED  BY <3>1, <3>2
  <2>2. h = [s \in {{}} |-> IF s = {} THEN 0 ELSE f[Un(s)] + h[s \ {Un(s)}]]
    OBVIOUS
  <2>3. Tabule(h, f, Petits(0))
    BY <2>1, <2>2 DEF Tabule
  <2>. QED  BY <2>3
<1>2. ASSUME NEW n \in Nat, n \in E
      PROVE  n + 1 \in E
  <2>1. PICK h : Tabule(h, f, Petits(n))
    BY <1>2
  <2>. DEFINE k == [s \in Petits(n + 1) |-> IF s = {} THEN 0 ELSE f[Un(s)] + h[s \ {Un(s)}]]
  <2>2. ASSUME NEW s \in Petits(n + 1), s # {}
        PROVE  k[s \ {Un(s)}] = h[s \ {Un(s)}]
    <3>1. s \ {Un(s)} \in Petits(n) /\ s \ {Un(s)} \in Petits(n + 1)
      BY <1>0, <2>2
    <3>. QED  BY <2>1, <3>1 DEF Tabule
  <2>3. k = [s \in Petits(n + 1) |-> IF s = {} THEN 0 ELSE f[Un(s)] + k[s \ {Un(s)}]]
    BY <2>2
  <2>4. Tabule(k, f, Petits(n + 1))
    BY <2>3 DEF Tabule
  <2>5. \E g : Tabule(g, f, Petits(n + 1))
    <3>. HIDE DEF k, Petits
    <3>. QED  BY <2>4
  <2>6. n + 1 \in Nat
    OBVIOUS
  <2>. HIDE DEF Petits
  <2>. QED  BY <2>5, <2>6
<1>3. \A n \in Nat : n \in E
  <2>. HIDE DEF E
  <2>. QED  BY <1>1, <1>2, Recurrence
<1>4. Cardinality(S) \in E
  BY <1>3, FS_CardinalityType
<1>5. Petits(Cardinality(S)) = SUBSET S
  BY <1>0
<1>. QED  BY <1>4, <1>5

LEMMA SommeTabulee ==
  ASSUME NEW S, IsFiniteSet(S), NEW f
  PROVE  \E h : Tabule(h, f, SUBSET S) /\ SumFunctionOnSet(f, S) = h[S]
<1>. DEFINE h == CHOOSE k : Tabule(k, f, SUBSET S)
<1>1. Tabule(h, f, SUBSET S)
  BY TableauExiste
<1>2. SumFunctionOnSet(f, S) = h[S]
  BY DEF SumFunctionOnSet, FoldFunctionOnSet, MapThenFoldSet, Tabule, Un
<1>. QED  BY <1>1, <1>2


(* The sum over a set, element by element, in any order.                    *)
LEMMA SommeVide ==
  ASSUME NEW f
  PROVE  SumFunctionOnSet(f, {}) = 0
<1>1. PICK h : Tabule(h, f, SUBSET {}) /\ SumFunctionOnSet(f, {}) = h[{}]
  BY SommeTabulee, FS_EmptySet
<1>. QED  BY <1>1 DEF Tabule

LEMMA SommeUn ==
  ASSUME NEW T, IsFiniteSet(T), T # {}, NEW f
  PROVE  Un(T) \in T /\ SumFunctionOnSet(f, T) = f[Un(T)] + SumFunctionOnSet(f, T \ {Un(T)})
<1>1. Un(T) \in T
  BY DEF Un
<1>. DEFINE R == T \ {Un(T)}
<1>2. IsFiniteSet(R) /\ R \in SUBSET T
  BY FS_Subset
<1>3. PICK h : Tabule(h, f, SUBSET T) /\ SumFunctionOnSet(f, T) = h[T]
  BY SommeTabulee
<1>4. PICK g : Tabule(g, f, SUBSET R) /\ SumFunctionOnSet(f, R) = g[R]
  <2>. HIDE DEF R
  <2>. QED  BY <1>2, SommeTabulee
<1>5. g[R] = h[R]
  <2>1. SUBSET R \subseteq SUBSET R /\ SUBSET R \subseteq SUBSET T
    BY <1>2
  <2>. HIDE DEF R
  <2>. QED  BY <1>2, <1>3, <1>4, <2>1, TableauUnique
<1>6. h[T] = f[Un(T)] + h[R]
  BY <1>3 DEF Tabule
<1>. QED  BY <1>1, <1>3, <1>4, <1>5, <1>6

LEMMA SommeEntiere ==
  ASSUME NEW S, IsFiniteSet(S), NEW f, \A x \in S : f[x] \in Int
  PROVE  SumFunctionOnSet(f, S) \in Int
<1>. DEFINE E == {n \in Nat : \A T \in SUBSET S : Cardinality(T) = n => SumFunctionOnSet(f, T) \in Int}
<1>1. 0 \in E
  <2>1. ASSUME NEW T \in SUBSET S, Cardinality(T) = 0
        PROVE  SumFunctionOnSet(f, T) = 0
    BY <2>1, FS_Subset, FS_EmptySet, SommeVide
  <2>. QED  BY <2>1
<1>2. ASSUME NEW n \in Nat, n \in E
      PROVE  n + 1 \in E
  <2>1. ASSUME NEW T \in SUBSET S, Cardinality(T) = n + 1
        PROVE  SumFunctionOnSet(f, T) \in Int
    <3>1. IsFiniteSet(T) /\ T # {}
      BY <2>1, FS_Subset, UnDeMoins
    <3>2. Un(T) \in T /\ SumFunctionOnSet(f, T) = f[Un(T)] + SumFunctionOnSet(f, T \ {Un(T)})
      BY <3>1, SommeUn
    <3>3. Cardinality(T \ {Un(T)}) = n /\ T \ {Un(T)} \in SUBSET S
      BY <2>1, <3>1, <3>2, UnDeMoins
    <3>4. SumFunctionOnSet(f, T \ {Un(T)}) \in Int
      BY <1>2, <3>3
    <3>. QED  BY <3>2, <3>4
  <2>. QED  BY <2>1
<1>3. \A n \in Nat : n \in E
  <2>. HIDE DEF E
  <2>. QED  BY <1>1, <1>2, Recurrence
<1>4. Cardinality(S) \in Nat
  BY FS_CardinalityType
<1>. QED  BY <1>3, <1>4

LEMMA SommeRetrait ==
  ASSUME NEW S, IsFiniteSet(S), NEW f, \A x \in S : f[x] \in Int
  PROVE  \A x \in S : SumFunctionOnSet(f, S) = f[x] + SumFunctionOnSet(f, S \ {x})
<1>. DEFINE Som(T) == SumFunctionOnSet(f, T)
            E == {n \in Nat : \A T \in SUBSET S : Cardinality(T) = n =>
                    \A x \in T : Som(T) = f[x] + Som(T \ {x})}
<1>0. \A T \in SUBSET S : IsFiniteSet(T) /\ Som(T) \in Int
  BY FS_Subset, SommeEntiere
<1>. HIDE DEF Som
<1>1. 0 \in E
  <2>1. ASSUME NEW T \in SUBSET S, Cardinality(T) = 0
        PROVE  T = {}
    BY <2>1, FS_Subset, FS_EmptySet
  <2>. QED  BY <2>1
<1>2. ASSUME NEW n \in Nat, n \in E
      PROVE  n + 1 \in E
  <2>1. ASSUME NEW T \in SUBSET S, Cardinality(T) = n + 1, NEW x \in T
        PROVE  Som(T) = f[x] + Som(T \ {x})
    <3>. DEFINE u == Un(T)
    <3>1. T # {}
      BY <2>1
    <3>2. u \in T /\ Som(T) = f[u] + Som(T \ {u})
      BY <1>0, <3>1, SommeUn DEF Som
    <3>3. \A y \in T : Cardinality(T \ {y}) = n /\ T \ {y} \in SUBSET S
      BY <1>0, <2>1, UnDeMoins
    <3>. HIDE DEF u
    <3>4. CASE x # u
      <4>1. Som(T \ {u}) = f[x] + Som((T \ {u}) \ {x})
        BY <1>2, <2>1, <3>2, <3>3, <3>4
      <4>2. Som(T \ {x}) = f[u] + Som((T \ {x}) \ {u})
        BY <1>2, <2>1, <3>2, <3>3, <3>4
      <4>3. (T \ {x}) \ {u} = (T \ {u}) \ {x} /\ (T \ {u}) \ {x} \in SUBSET S
        OBVIOUS
      <4>4. f[x] \in Int /\ f[u] \in Int /\ Som((T \ {u}) \ {x}) \in Int
        BY <1>0, <2>1, <3>2, <4>3
      <4>5. Som((T \ {x}) \ {u}) = Som((T \ {u}) \ {x})
        BY <4>3
      <4>6. \A a, b, c \in Int : a + (b + c) = b + (a + c)
        OBVIOUS
      <4>. QED  BY <3>2, <4>1, <4>2, <4>4, <4>5, <4>6
    <3>. QED  BY <3>2, <3>4
  <2>2. n + 1 \in Nat
    OBVIOUS
  <2>. QED  BY <2>1, <2>2
<1>3. \A n \in Nat : n \in E
  <2>. HIDE DEF E
  <2>. QED  BY <1>1, <1>2, Recurrence
<1>4. Cardinality(S) \in Nat
  BY FS_CardinalityType
<1>5. \A x \in S : Som(S) = f[x] + Som(S \ {x})
  BY <1>3, <1>4
<1>. QED  BY <1>5 DEF Som


LEMMA SommeAjout ==
  ASSUME NEW T, IsFiniteSet(T), NEW x, x \notin T, NEW f, f[x] \in Int, \A y \in T : f[y] \in Int
  PROVE  SumFunctionOnSet(f, T \cup {x}) = f[x] + SumFunctionOnSet(f, T)
<1>1. IsFiniteSet(T \cup {x}) /\ (T \cup {x}) \ {x} = T
  BY FS_AddElement
<1>2. SumFunctionOnSet(f, T \cup {x}) = f[x] + SumFunctionOnSet(f, (T \cup {x}) \ {x})
  BY <1>1, SommeRetrait
<1>. QED  BY <1>1, <1>2

(* Sums are compared, added, restricted to a subset, cut in two, carried     *)
(* along an injection and grouped.                                          *)
LEMMA SommeEgale ==
  ASSUME NEW S, IsFiniteSet(S), NEW f, NEW g, \A x \in S : f[x] \in Int /\ g[x] = f[x]
  PROVE  SumFunctionOnSet(g, S) = SumFunctionOnSet(f, S)
<1>. DEFINE F == {T \in SUBSET S : SumFunctionOnSet(g, T) = SumFunctionOnSet(f, T)}
<1>1. {} \in F
  BY SommeVide
<1>2. ASSUME NEW T \in SUBSET S, NEW x \in S \ T, T \in F
      PROVE  T \cup {x} \in F
  <2>1. IsFiniteSet(T)
    BY FS_Subset
  <2>2. SumFunctionOnSet(f, T \cup {x}) = f[x] + SumFunctionOnSet(f, T)
    BY <2>1, SommeAjout
  <2>3. SumFunctionOnSet(g, T \cup {x}) = g[x] + SumFunctionOnSet(g, T)
    BY <2>1, SommeAjout
  <2>4. T \cup {x} \in SUBSET S
    OBVIOUS
  <2>. QED  BY <1>2, <2>2, <2>3, <2>4
<1>3. S \in F
  <2>. HIDE DEF F
  <2>. QED  BY <1>1, <1>2, RecurrenceFinie
<1>. QED  BY <1>3

LEMMA SommeAdditive ==
  ASSUME NEW S, IsFiniteSet(S), NEW f, NEW g, NEW h,
         \A x \in S : f[x] \in Int /\ g[x] \in Int /\ h[x] = f[x] + g[x]
  PROVE  SumFunctionOnSet(h, S) = SumFunctionOnSet(f, S) + SumFunctionOnSet(g, S)
<1>. DEFINE F == {T \in SUBSET S : SumFunctionOnSet(h, T) = SumFunctionOnSet(f, T) + SumFunctionOnSet(g, T)}
<1>1. {} \in F
  BY SommeVide
<1>2. ASSUME NEW T \in SUBSET S, NEW x \in S \ T, T \in F
      PROVE  T \cup {x} \in F
  <2>1. IsFiniteSet(T)
    BY FS_Subset
  <2>2. SumFunctionOnSet(f, T \cup {x}) = f[x] + SumFunctionOnSet(f, T)
    BY <2>1, SommeAjout
  <2>3. SumFunctionOnSet(g, T \cup {x}) = g[x] + SumFunctionOnSet(g, T)
    BY <2>1, SommeAjout
  <2>4. SumFunctionOnSet(h, T \cup {x}) = h[x] + SumFunctionOnSet(h, T)
    <3>1. \A y \in S : h[y] \in Int
      OBVIOUS
    <3>. QED  BY <2>1, <3>1, SommeAjout
  <2>5. T \cup {x} \in SUBSET S
    OBVIOUS
  <2>6. SumFunctionOnSet(f, T) \in Int /\ SumFunctionOnSet(g, T) \in Int
    BY <2>1, SommeEntiere
  <2>7. \A a, b, c, d \in Int : (a + b) + (c + d) = (a + c) + (b + d)
    OBVIOUS
  <2>8. SumFunctionOnSet(h, T) = SumFunctionOnSet(f, T) + SumFunctionOnSet(g, T)
    BY <1>2
  <2>. QED  BY <2>2, <2>3, <2>4, <2>5, <2>6, <2>7, <2>8
<1>3. S \in F
  <2>. HIDE DEF F
  <2>. QED  BY <1>1, <1>2, RecurrenceFinie
<1>. QED  BY <1>3

LEMMA SommeReunion ==
  ASSUME NEW A, IsFiniteSet(A), NEW B, IsFiniteSet(B), A \cap B = {}, NEW f, \A x \in A \cup B : f[x] \in Int
  PROVE  SumFunctionOnSet(f, A \cup B) = SumFunctionOnSet(f, A) + SumFunctionOnSet(f, B)
<1>. DEFINE F == {T \in SUBSET B : /\ IsFiniteSet(A \cup T)
                                  /\ SumFunctionOnSet(f, A \cup T) = SumFunctionOnSet(f, A) + SumFunctionOnSet(f, T)}
<1>0. SumFunctionOnSet(f, A) \in Int
  BY SommeEntiere
<1>1. {} \in F
  BY <1>0, SommeVide
<1>2. ASSUME NEW T \in SUBSET B, NEW x \in B \ T, T \in F
      PROVE  T \cup {x} \in F
  <2>1. IsFiniteSet(T) /\ IsFiniteSet(A \cup T) /\ x \notin A \cup T /\ A \cup (T \cup {x}) = (A \cup T) \cup {x}
    BY <1>2, FS_Subset
  <2>2. SumFunctionOnSet(f, T \cup {x}) = f[x] + SumFunctionOnSet(f, T)
    BY <2>1, SommeAjout
  <2>3. SumFunctionOnSet(f, (A \cup T) \cup {x}) = f[x] + SumFunctionOnSet(f, A \cup T)
    BY <2>1, SommeAjout
  <2>4. T \cup {x} \in SUBSET B /\ IsFiniteSet((A \cup T) \cup {x})
    BY <2>1, FS_AddElement
  <2>5. SumFunctionOnSet(f, T) \in Int /\ f[x] \in Int
    BY <2>1, SommeEntiere
  <2>6. SumFunctionOnSet(f, A \cup T) = SumFunctionOnSet(f, A) + SumFunctionOnSet(f, T)
    BY <1>2
  <2>7. SumFunctionOnSet(f, A \cup (T \cup {x})) = SumFunctionOnSet(f, A) + SumFunctionOnSet(f, T \cup {x})
    <3>1. \A a, b, c \in Int : a + (b + c) = b + (a + c)
      OBVIOUS
    <3>2. SumFunctionOnSet(f, A \cup (T \cup {x})) = f[x] + (SumFunctionOnSet(f, A) + SumFunctionOnSet(f, T))
      BY <2>1, <2>3, <2>6
    <3>. QED  BY <1>0, <2>2, <2>5, <3>1, <3>2
  <2>. QED  BY <2>1, <2>4, <2>7
<1>3. B \in F
  <2>. HIDE DEF F
  <2>. QED  BY <1>1, <1>2, RecurrenceFinie
<1>. QED  BY <1>3

LEMMA SommeFiltree ==
  ASSUME NEW S, IsFiniteSet(S), NEW A \in SUBSET S, NEW f, NEW g, \A x \in A : f[x] \in Int /\ g[x] = f[x],
         \A x \in S \ A : g[x] = 0
  PROVE  SumFunctionOnSet(f, A) = SumFunctionOnSet(g, S)
<1>1. IsFiniteSet(A) /\ IsFiniteSet(S \ A) /\ A \cup (S \ A) = S /\ A \cap (S \ A) = {}
  BY FS_Subset
<1>2. SumFunctionOnSet(g, S) = SumFunctionOnSet(g, A) + SumFunctionOnSet(g, S \ A)
  <2>1. \A x \in A \cup (S \ A) : g[x] \in Int
    OBVIOUS
  <2>2. SumFunctionOnSet(g, A \cup (S \ A)) = SumFunctionOnSet(g, A) + SumFunctionOnSet(g, S \ A)
    BY <1>1, <2>1, SommeReunion
  <2>. QED  BY <1>1, <2>2
<1>3. SumFunctionOnSet(g, A) = SumFunctionOnSet(f, A) /\ SumFunctionOnSet(f, A) \in Int
  BY <1>1, SommeEgale, SommeEntiere
<1>4. SumFunctionOnSet(g, S \ A) = 0
  <2>. DEFINE F == {T \in SUBSET (S \ A) : SumFunctionOnSet(g, T) = 0}
  <2>1. {} \in F
    BY SommeVide
  <2>2. ASSUME NEW T \in SUBSET (S \ A), NEW x \in (S \ A) \ T, T \in F
        PROVE  T \cup {x} \in F
    <3>1. IsFiniteSet(T) /\ T \cup {x} \in SUBSET (S \ A)
      BY <1>1, FS_Subset
    <3>2. g[x] \in Int /\ g[x] = 0 /\ x \notin T /\ \A y \in T : g[y] \in Int
      OBVIOUS
    <3>3. SumFunctionOnSet(g, T \cup {x}) = g[x] + SumFunctionOnSet(g, T)
      BY <3>1, <3>2, SommeAjout
    <3>. QED  BY <2>2, <3>1, <3>2, <3>3
  <2>3. S \ A \in F
    <3>. HIDE DEF F
    <3>. QED  BY <1>1, <2>1, <2>2, RecurrenceFinie
  <2>. QED  BY <2>3
<1>. QED  BY <1>2, <1>3, <1>4

LEMMA SommeTransportee ==
  ASSUME NEW A, IsFiniteSet(A), NEW phi, \A a, b \in A : phi[a] = phi[b] => a = b,
         NEW f, NEW g, \A a \in A : f[a] \in Int /\ g[phi[a]] = f[a]
  PROVE  LET B == {phi[a] : a \in A}
         IN  IsFiniteSet(B) /\ SumFunctionOnSet(g, B) = SumFunctionOnSet(f, A)
<1>. DEFINE Image(T) == {phi[a] : a \in T}
            F == {T \in SUBSET A : IsFiniteSet(Image(T)) /\ SumFunctionOnSet(g, Image(T)) = SumFunctionOnSet(f, T)}
<1>1. {} \in F
  <2>1. Image({}) = {}
    OBVIOUS
  <2>. HIDE DEF Image
  <2>. QED  BY <2>1, SommeVide, FS_EmptySet
<1>2. ASSUME NEW T \in SUBSET A, NEW x \in A \ T, T \in F
      PROVE  T \cup {x} \in F
  <2>1. IsFiniteSet(T) /\ T \cup {x} \in SUBSET A
    BY FS_Subset
  <2>2. /\ Image(T \cup {x}) = Image(T) \cup {phi[x]} /\ phi[x] \notin Image(T)
        /\ g[phi[x]] = f[x] /\ f[x] \in Int
    OBVIOUS
  <2>3. (\A y \in Image(T) : g[y] \in Int) /\ IsFiniteSet(Image(T))
    BY <1>2
  <2>. HIDE DEF Image
  <2>4. IsFiniteSet(Image(T \cup {x}))
    <3>1. IsFiniteSet(Image(T) \cup {phi[x]})
      BY <2>3, FS_AddElement
    <3>. QED  BY <2>2, <3>1
  <2>5. SumFunctionOnSet(g, Image(T \cup {x})) = g[phi[x]] + SumFunctionOnSet(g, Image(T))
    BY <2>2, <2>3, <2>4, SommeAjout
  <2>6. SumFunctionOnSet(f, T \cup {x}) = f[x] + SumFunctionOnSet(f, T)
    BY <2>1, SommeAjout
  <2>. QED  BY <1>2, <2>1, <2>4, <2>5, <2>6
<1>3. A \in F
  <2>. HIDE DEF F
  <2>. QED  BY <1>1, <1>2, RecurrenceFinie
<1>. QED  BY <1>3

Groupe(A, groupe, k) == {a \in A : groupe[a] = k}

LEMMA SommeGroupee ==
  ASSUME NEW A, IsFiniteSet(A), NEW K, IsFiniteSet(K), NEW groupe, \A a \in A : groupe[a] \in K,
         NEW f, \A a \in A : f[a] \in Int,
         NEW g, \A k \in K : g[k] = SumFunctionOnSet(f, Groupe(A, groupe, k))
  PROVE  SumFunctionOnSet(g, K) = SumFunctionOnSet(f, A)
<1>. DEFINE De(T) == {a \in A : groupe[a] \in T}
            F == {T \in SUBSET K : SumFunctionOnSet(g, T) = SumFunctionOnSet(f, De(T))}
<1>0. \A k \in K : g[k] \in Int
  <2>1. ASSUME NEW k \in K
        PROVE  SumFunctionOnSet(f, Groupe(A, groupe, k)) \in Int
    <3>. DEFINE G == Groupe(A, groupe, k)
    <3>1. IsFiniteSet(G) /\ \A a \in G : f[a] \in Int
      BY FS_Subset DEF Groupe
    <3>. HIDE DEF G
    <3>2. SumFunctionOnSet(f, G) \in Int
      BY <3>1, SommeEntiere
    <3>. QED  BY <3>2 DEF G
  <2>. QED  BY <2>1
<1>1. {} \in F
  <2>1. De({}) = {}
    OBVIOUS
  <2>. HIDE DEF De
  <2>. QED  BY <2>1, SommeVide
<1>2. ASSUME NEW T \in SUBSET K, NEW k \in K \ T, T \in F
      PROVE  T \cup {k} \in F
  <2>. DEFINE G == Groupe(A, groupe, k)
  <2>1. IsFiniteSet(T) /\ T \cup {k} \in SUBSET K
    BY FS_Subset
  <2>2. /\ De(T \cup {k}) = De(T) \cup G /\ De(T) \cap G = {} /\ IsFiniteSet(De(T)) /\ IsFiniteSet(G)
        /\ \A a \in De(T) \cup G : f[a] \in Int
    BY FS_Subset DEF Groupe
  <2>3. g[k] = SumFunctionOnSet(f, G)
    OBVIOUS
  <2>4. SumFunctionOnSet(g, T) = SumFunctionOnSet(f, De(T))
    BY <1>2
  <2>. HIDE DEF De, G
  <2>5. SumFunctionOnSet(f, De(T) \cup G) = SumFunctionOnSet(f, De(T)) + SumFunctionOnSet(f, G)
    BY <2>2, SommeReunion
  <2>6. SumFunctionOnSet(g, T \cup {k}) = g[k] + SumFunctionOnSet(g, T)
    BY <1>0, <2>1, SommeAjout
  <2>7. SumFunctionOnSet(f, De(T)) \in Int /\ SumFunctionOnSet(f, G) \in Int
    BY <2>2, SommeEntiere
  <2>8. SumFunctionOnSet(f, De(T \cup {k})) = SumFunctionOnSet(g, T \cup {k})
    <3>1. \A a, b \in Int : a + b = b + a
      OBVIOUS
    <3>. QED  BY <2>2, <2>3, <2>4, <2>5, <2>6, <2>7, <3>1
  <2>. QED  BY <2>1, <2>8 DEF De
<1>3. K \in F
  <2>. HIDE DEF F
  <2>. QED  BY <1>1, <1>2, RecurrenceFinie
<1>4. De(K) = A
  OBVIOUS
<1>. QED  BY <1>3, <1>4

-----------------------------------------------------------------------------
(* The actuals: every behaviour of the interleaving requests is one of the    *)
(* register of RegistreRealise. The argument is that of an optimistic lock     *)
(* that the code does not take. As long as no COMMIT has overlapped a request, *)
(* what it read is still what the table holds: `Fraiche` says so for each kind *)
(* of request, and its COMMIT is then regular for every key (EffetRegulier). A *)
(* request that was overlapped answers for the keys it rewrote through        *)
(* retouchees.                                                             *)

Imports == [op : {"importer"}, reste : Restes, vue : {Rien} \cup [id : Ids \cup {Nouvelle}, ligne : Lignes],
            images : Images]

Creations == [op : {"creer"}, ligne : Lignes]
Lots == [op : {"modifier", "supprimer", "valider"}, images : Images]

InvariantTable ==
  /\ realise \in [Ids -> Lignes \cup {Absente}]
  /\ Unique(realise)
  /\ suivant \in 1..(IdMax + 1)
  /\ \A i \in Ids : i >= suivant => realise[i] = Absente

(* Row i still is the open row of key c.                                    *)
Ouverte(i, c) == realise[i].statut = "IMPORTE" /\ realise[i].cle = c
(* What an import writes at i: over an open row, or for a key without row.    *)
Ecrivable(i, l) ==
  /\ l.statut = "IMPORTE"
  /\ Ouverte(i, l.cle) \/ (realise[i] = Absente /\ DeCle(l.cle) = {})

(* What a request read still holds.                                         *)
Fraiche(q) ==
  /\ q.op = "creer" => q.ligne.statut = "IMPORTE" /\ DeCle(q.ligne.cle) = {}
  /\ q.op = "modifier" =>
       \A i \in DOMAIN q.images : q.images[i].statut = "IMPORTE" /\ Ouverte(i, q.images[i].cle)
  /\ q.op = "supprimer" => \A i \in DOMAIN q.images : realise[i].statut = "IMPORTE"
  /\ q.op = "valider" =>
       \A i \in DOMAIN q.images :
         realise[i].statut = "IMPORTE" /\ q.images[i] = [realise[i] EXCEPT !.statut = "VALIDE"]
  /\ q.op = "importer" =>
       /\ \A i \in DOMAIN q.images : i < suivant /\ Ecrivable(i, q.images[i])
       /\ q.vue # Rien =>
            /\ q.vue.ligne.statut = "IMPORTE"
            /\ IF q.vue.id = Nouvelle THEN DeCle(q.vue.ligne.cle) = {}
               ELSE Ouverte(q.vue.id, q.vue.ligne.cle)

(* The ids a request holds were given by the sequence, overlapped or not.    *)
Connus(q) ==
  /\ q \in Lots \cup Imports => \A i \in DOMAIN q.images : i < suivant
  /\ q \in Imports /\ q.vue # Rien => q.vue.id < suivant

InvariantRequetes ==
  /\ requetes \in [Requetes -> {Libre} \cup EnCours]
  /\ \A r \in Requetes : Connus(requetes[r])
  /\ \A r \in Requetes \ depassees : requetes[r] # Libre => Fraiche(requetes[r])

Invariant == InvariantTable /\ InvariantRequetes

-----------------------------------------------------------------------------
(* The row that Etat chooses is the only one of the key.                     *)
LEMMA EtatLu ==
  ASSUME Unique(realise), NEW c, NEW j \in DeCle(c)
  PROVE  /\ realise[j].statut # "VALIDE" => Etat(c) = [montant |-> realise[j].montant, valide |-> FALSE]
         /\ realise[j].statut = "VALIDE" => Etat(c) = [montant |-> realise[j].montant, valide |-> TRUE]
<1>1. \A k \in DeCle(c) : k = j
  BY DEF DeCle, Unique, Existe
<1>2. Etat(c) = [montant |-> realise[j].montant, valide |-> realise[j].statut = "VALIDE"]
  BY <1>1 DEF Etat, Validee
<1>3. realise[j].statut # "VALIDE" => (realise[j].statut = "VALIDE") = FALSE
  OBVIOUS
<1>4. realise[j].statut = "VALIDE" => (realise[j].statut = "VALIDE") = TRUE
  OBVIOUS
<1>. QED  BY <1>2, <1>3, <1>4

LEMMA EtatLuEnsuite ==
  ASSUME Unique(realise)', NEW c, NEW j \in DeCle(c)'
  PROVE  /\ realise'[j].statut # "VALIDE" => Etat(c)' = [montant |-> realise'[j].montant, valide |-> FALSE]
         /\ realise'[j].statut = "VALIDE" => Etat(c)' = [montant |-> realise'[j].montant, valide |-> TRUE]
<1>1. \A k \in DeCle(c)' : k = j
  BY DEF DeCle, Unique, Existe
<1>2. Etat(c)' = [montant |-> realise'[j].montant, valide |-> realise'[j].statut = "VALIDE"]
  BY <1>1 DEF Etat, Validee
<1>3. realise'[j].statut # "VALIDE" => (realise'[j].statut = "VALIDE") = FALSE
  OBVIOUS
<1>4. realise'[j].statut = "VALIDE" => (realise'[j].statut = "VALIDE") = TRUE
  OBVIOUS
<1>. QED  BY <1>2, <1>3, <1>4

(* Three ways for a key to change that the register allows.                  *)
LEMMA Regularites ==
  ASSUME NEW avant, NEW apres
  PROVE  /\ (apres = avant => Registre!Regulier(avant, apres))
         /\ (avant.valide = FALSE /\ apres.valide = FALSE => Registre!Regulier(avant, apres))
         /\ (\A m : avant = [montant |-> m, valide |-> FALSE] /\ apres = [montant |-> m, valide |-> TRUE]
                     => Registre!Regulier(avant, apres))
  BY DEF Registre!Regulier

(* A COMMIT that rewrites open rows, or adds rows for keys without any, and  *)
(* validates only the amount that was there, is regular for every key.       *)
LEMMA EffetRegulier ==
  ASSUME Unique(realise), Unique(realise)',
         NEW D \in SUBSET Ids,
         \A j \in Ids \ D : realise'[j] = realise[j],
         \A j \in D : realise[j].statut # "VALIDE",
         \A j \in D : realise'[j] # Absente =>
           \/ /\ realise[j] = Absente /\ DeCle(realise'[j].cle) = {}
              /\ realise'[j].statut = "IMPORTE"
           \/ /\ Ouverte(j, realise'[j].cle)
              /\ \/ realise'[j].statut = "IMPORTE"
                 \/ /\ realise'[j].statut = "VALIDE"
                    /\ realise'[j].montant = realise[j].montant,
         NEW c \in Cles
  PROVE  Registre!Regulier(Etat(c), Etat(c)')
<1>1. CASE DeCle(c)' = {}
  <2>1. Etat(c)'.valide = FALSE
    BY <1>1 DEF Etat
  <2>2. Etat(c).valide = FALSE
    <3>1. CASE DeCle(c) = {}
      BY <3>1 DEF Etat
    <3>2. ASSUME NEW j \in DeCle(c)
          PROVE  Etat(c).valide = FALSE
      <4>1. j \in Ids /\ realise[j] # Absente /\ realise[j].cle = c
        BY DEF DeCle, Existe
      <4>2. j \in D
        BY <1>1, <4>1 DEF DeCle, Existe
      <4>3. Etat(c) = [montant |-> realise[j].montant, valide |-> FALSE]
        BY <4>2, EtatLu
      <4>. QED  BY <4>3
    <3>. QED  BY <3>1, <3>2
  <2>. QED  BY <2>1, <2>2, Regularites
<1>2. ASSUME NEW k \in DeCle(c)'
      PROVE  Registre!Regulier(Etat(c), Etat(c)')
  <2>0. k \in Ids /\ realise'[k] # Absente /\ realise'[k].cle = c
    BY DEF DeCle, Existe
  <2>2. CASE k \notin D
    <3>1. k \in DeCle(c) /\ realise'[k] = realise[k]
      BY <2>0, <2>2 DEF DeCle, Existe
    <3>2. Etat(c)' = Etat(c)
      <4>1. CASE realise[k].statut = "VALIDE"
        <5>1. Etat(c) = [montant |-> realise[k].montant, valide |-> TRUE]
          BY <3>1, <4>1, EtatLu
        <5>2. Etat(c)' = [montant |-> realise[k].montant, valide |-> TRUE]
          BY <3>1, <4>1, EtatLuEnsuite
        <5>. QED  BY <5>1, <5>2
      <4>2. CASE realise[k].statut # "VALIDE"
        <5>1. Etat(c) = [montant |-> realise[k].montant, valide |-> FALSE]
          BY <3>1, <4>2, EtatLu
        <5>2. Etat(c)' = [montant |-> realise[k].montant, valide |-> FALSE]
          BY <3>1, <4>2, EtatLuEnsuite
        <5>. QED  BY <5>1, <5>2
      <4>. QED  BY <4>1, <4>2
    <3>. QED  BY <3>2, Regularites
  <2>3. CASE k \in D /\ realise[k] = Absente /\ DeCle(c) = {} /\ realise'[k].statut = "IMPORTE"
    <3>1. Etat(c).valide = FALSE
      BY <2>3 DEF Etat
    <3>2. Etat(c)'.valide = FALSE
      BY <2>3, EtatLuEnsuite
    <3>. QED  BY <3>1, <3>2, Regularites
  <2>4. CASE k \in D /\ Ouverte(k, c)
    <3>1. realise[k] # Absente
      BY <2>4 DEF Ouverte, Absente
    <3>2. k \in DeCle(c)
      BY <2>0, <2>4, <3>1 DEF DeCle, Existe, Ouverte
    <3>3. Etat(c) = [montant |-> realise[k].montant, valide |-> FALSE]
      BY <2>4, <3>2, EtatLu DEF Ouverte
    <3>4. CASE realise'[k].statut = "IMPORTE"
      <4>1. Etat(c)' = [montant |-> realise'[k].montant, valide |-> FALSE]
        BY <3>4, EtatLuEnsuite
      <4>2. Etat(c).valide = FALSE /\ Etat(c)'.valide = FALSE
        BY <3>3, <4>1
      <4>. QED  BY <4>2, Regularites
    <3>5. CASE realise'[k].statut = "VALIDE" /\ realise'[k].montant = realise[k].montant
      <4>1. Etat(c)' = [montant |-> realise[k].montant, valide |-> TRUE]
        BY <3>5, EtatLuEnsuite
      <4>. QED  BY <3>3, <4>1, Regularites
    <3>. QED  BY <2>0, <2>4, <3>4, <3>5 DEF Absente
  <2>. QED  BY <2>0, <2>2, <2>3, <2>4
<1>. QED  BY <1>1, <1>2

-----------------------------------------------------------------------------
(* The kinds of request.                                                    *)
LEMMA Genres ==
  ASSUME NEW q \in {Libre} \cup EnCours
  PROVE  /\ q = Libre \/ q \in Creations \/ q \in Lots \/ q \in Imports
         /\ q.op = "creer" => q \in Creations
         /\ q.op \in {"modifier", "supprimer", "valider"} => q \in Lots
         /\ q.op = "importer" => q \in Imports
         /\ q \in Creations => q.op = "creer" /\ q # Libre
         /\ q \in Lots => q.op \in {"modifier", "supprimer", "valider"} /\ q # Libre
         /\ q \in Imports => q.op = "importer" /\ q # Libre
<1>1. q = Libre \/ q \in Creations \/ q \in Lots \/ q \in Imports
  BY DEF EnCours, Creations, Lots, Imports
<1>2. CASE q = Libre
  BY <1>2 DEF Libre, Creations, Lots, Imports
<1>3. CASE q \in Creations
  BY <1>3 DEF Libre, Creations, Lots, Imports
<1>4. CASE q \in Lots
  BY <1>4 DEF Libre, Creations, Lots, Imports
<1>5. CASE q \in Imports
  BY <1>5 DEF Libre, Creations, Lots, Imports
<1>. QED  BY <1>1, <1>2, <1>3, <1>4, <1>5

LEMMA EnCoursContient == Creations \subseteq EnCours /\ Lots \subseteq EnCours /\ Imports \subseteq EnCours
  BY DEF EnCours, Creations, Lots, Imports

LEMMA ImagesTypees ==
  ASSUME NEW im \in Images
  PROVE  DOMAIN im \subseteq Ids /\ \A i \in DOMAIN im : im[i] \in Lignes
<1>1. PICK S \in SUBSET Ids : im \in [S -> Lignes]
  BY DEF Images
<1>. QED  BY <1>1

LEMMA ImagesAjoutees ==
  ASSUME NEW im, DOMAIN im \subseteq Ids, im = [i \in DOMAIN im |-> im[i]],
         \A i \in DOMAIN im : im[i] \in Lignes
  PROVE  im \in Images
<1>1. im \in [DOMAIN im -> Lignes]
  OBVIOUS
<1>. QED  BY <1>1 DEF Images

LEMMA ResteReduit ==
  ASSUME NEW f \in Restes, NEW c
  PROVE  /\ [k \in DOMAIN f \ {c} |-> f[k]] \in Restes
         /\ DOMAIN f \subseteq Cles /\ \A k \in DOMAIN f : f[k] \in Montants
<1>1. PICK S \in SUBSET Cles : f \in [S -> Montants]
  BY DEF Restes
<1>2. [k \in DOMAIN f \ {c} |-> f[k]] \in [DOMAIN f \ {c} -> Montants] /\ DOMAIN f \ {c} \in SUBSET Cles
  BY <1>1
<1>. QED  BY <1>1, <1>2 DEF Restes

(* While the table and the sequence stand, so does what was read.            *)
LEMMA FraicheStable ==
  ASSUME UNCHANGED <<realise, suivant>>, NEW q
  PROVE  Fraiche(q)' = Fraiche(q) /\ Connus(q)' = Connus(q)
BY DEF Fraiche, Connus, Ouverte, Ecrivable, DeCle, Existe

LEMMA TableStable ==
  ASSUME InvariantTable, UNCHANGED <<realise, suivant>>
  PROVE  InvariantTable'
BY DEF InvariantTable, Unique

LEMMA Initial == InitRealise => Invariant
<1>. SUFFICES ASSUME InitRealise PROVE Invariant
  OBVIOUS
<1>1. InvariantTable
  BY BornesRealise DEF InitRealise, InvariantTable, Unique, Ids, Absente
<1>2. \A r \in Requetes : requetes[r] = Libre
  BY DEF InitRealise
<1>3. \A r \in Requetes : Connus(requetes[r])
  BY <1>2 DEF Connus, Lots, Imports, Libre
<1>4. requetes \in [Requetes -> {Libre} \cup EnCours]
  BY DEF InitRealise
<1>. QED  BY <1>1, <1>2, <1>3, <1>4 DEF Invariant, InvariantRequetes

(* A request begins, or an import reads a row: what it takes is fresh.        *)
LEMMA PasDeLecture ==
  ASSUME Invariant, NEW r \in Requetes, NEW q \in EnCours,
         requetes' = [requetes EXCEPT ![r] = q],
         UNCHANGED <<realise, suivant, depassees>>,
         Connus(q), r \notin depassees => Fraiche(q)
  PROVE  Invariant'
<1>1. InvariantTable'
  BY TableStable DEF Invariant
<1>2. requetes' \in [Requetes -> {Libre} \cup EnCours]
  BY DEF Invariant, InvariantRequetes
<1>3. ASSUME NEW s \in Requetes
      PROVE  /\ Connus(requetes[s])'
             /\ s \notin depassees' /\ requetes'[s] # Libre => Fraiche(requetes[s])'
  <2>1. Connus(requetes'[s])
    BY DEF Invariant, InvariantRequetes
  <2>2. s \notin depassees /\ requetes'[s] # Libre => Fraiche(requetes'[s])
    BY DEF Invariant, InvariantRequetes
  <2>. QED  BY <2>1, <2>2 DEF Connus, Fraiche, Ouverte, Ecrivable, DeCle, Existe
<1>. QED  BY <1>1, <1>2, <1>3 DEF Invariant, InvariantRequetes

(* The rows of the table, and those that can be written.                      *)
LEMMA LignesTypees ==
  ASSUME InvariantTable, NEW i \in Ids
  PROVE  /\ realise[i] # Absente => realise[i] \in Lignes /\ i < suivant
         /\ realise[i].statut = "IMPORTE" => realise[i] # Absente
         /\ realise[i].statut = "VALIDE" => realise[i] # Absente
         /\ realise[i] \in Lignes => realise[i] # Absente /\ realise[i].statut \in {"IMPORTE", "VALIDE"}
BY DEF InvariantTable, Absente, Lignes, Ids

LEMMA PasRecevoir ==
  ASSUME Invariant, NEW r \in Requetes,
         \/ \E c \in Cles, m \in Montants : RecevoirCreation(r, c, m)
         \/ \E i \in Ids, m \in Montants : RecevoirModification(r, i, m)
         \/ \E i \in Ids : RecevoirSuppression(r, i)
         \/ \E S \in SUBSET Ids : RecevoirValidation(r, S)
         \/ \E f \in Fichiers : RecevoirImport(r, f)
  PROVE  Invariant'
<1>0. InvariantTable
  BY DEF Invariant
<1>1. ASSUME NEW c \in Cles, NEW m \in Montants, RecevoirCreation(r, c, m)
      PROVE  Invariant'
  <2> DEFINE q == [op |-> "creer", ligne |-> Saisie(c, m)]
  <2>1. q \in Creations
    BY DEF Creations, Saisie, Lignes
  <2>2. q \in EnCours
    BY <2>1, EnCoursContient
  <2>3. Connus(q) /\ Fraiche(q)
    BY <1>1 DEF Connus, Fraiche, RecevoirCreation, Saisie, Lots, Imports
  <2>. QED  BY <1>1, <2>2, <2>3, PasDeLecture DEF RecevoirCreation, Lire
<1>2. ASSUME NEW i \in Ids, NEW m \in Montants, RecevoirModification(r, i, m)
      PROVE  Invariant'
  <2> DEFINE q == [op |-> "modifier", images |-> [j \in {i} |-> [realise[i] EXCEPT !.montant = m]]]
  <2>1. realise[i] \in Lignes /\ i < suivant /\ realise[i].statut = "IMPORTE"
    BY <1>0, <1>2, LignesTypees DEF RecevoirModification, Modifiables
  <2>2. /\ [realise[i] EXCEPT !.montant = m] \in Lignes
        /\ [realise[i] EXCEPT !.montant = m].statut = "IMPORTE"
        /\ [realise[i] EXCEPT !.montant = m].cle = realise[i].cle
    BY <2>1 DEF Lignes
  <2>3. q.images \in Images
    BY <2>2, ImagesAjoutees
  <2>4. q \in EnCours
    BY <2>3, EnCoursContient DEF Lots
  <2>5. Connus(q) /\ Fraiche(q)
    BY <2>1, <2>2 DEF Connus, Fraiche, Ouverte, Imports
  <2>. QED  BY <1>2, <2>4, <2>5, PasDeLecture DEF RecevoirModification, Lire
<1>3. ASSUME NEW i \in Ids, RecevoirSuppression(r, i)
      PROVE  Invariant'
  <2> DEFINE q == [op |-> "supprimer", images |-> [j \in {i} |-> realise[i]]]
  <2>1. realise[i] \in Lignes /\ i < suivant /\ realise[i].statut = "IMPORTE"
    BY <1>0, <1>3, LignesTypees DEF RecevoirSuppression, Modifiables
  <2>3. q.images \in Images
    BY <2>1, ImagesAjoutees
  <2>4. q \in EnCours
    BY <2>3, EnCoursContient DEF Lots
  <2>5. Connus(q) /\ Fraiche(q)
    BY <2>1 DEF Connus, Fraiche, Imports
  <2>. QED  BY <1>3, <2>4, <2>5, PasDeLecture DEF RecevoirSuppression, Lire
<1>4. ASSUME NEW S \in SUBSET Ids, RecevoirValidation(r, S)
      PROVE  Invariant'
  <2> DEFINE q == [op |-> "valider", images |-> [i \in S |-> [realise[i] EXCEPT !.statut = "VALIDE"]]]
  <2>1. \A i \in S : realise[i] \in Lignes /\ i < suivant /\ realise[i].statut = "IMPORTE"
    BY <1>0, <1>4, LignesTypees DEF RecevoirValidation, Modifiables
  <2>2. \A i \in S : [realise[i] EXCEPT !.statut = "VALIDE"] \in Lignes
    BY <2>1 DEF Lignes
  <2>3. q.images \in Images
    BY <2>2, ImagesAjoutees
  <2>4. q \in EnCours
    BY <2>3, EnCoursContient DEF Lots
  <2>5. Connus(q) /\ Fraiche(q)
    BY <2>1 DEF Connus, Fraiche, Imports
  <2>. QED  BY <1>4, <2>4, <2>5, PasDeLecture DEF RecevoirValidation, Lire
<1>5. ASSUME NEW f \in Fichiers, RecevoirImport(r, f)
      PROVE  Invariant'
  <2> DEFINE vide == [i \in {} |-> Absente]
             q == [op |-> "importer", reste |-> f, vue |-> Rien, images |-> vide]
  <2>1. vide \in Images
    BY ImagesAjoutees
  <2>2. f \in Restes
    BY BornesRealise DEF Restes
  <2>3. q \in Imports
    BY <2>1, <2>2 DEF Imports
  <2>4. q \in EnCours
    BY <2>3, EnCoursContient
  <2>5. Connus(q) /\ Fraiche(q)
    BY DEF Connus, Fraiche, Lots
  <2>. QED  BY <1>5, <2>4, <2>5, PasDeLecture DEF RecevoirImport, Lire
<1>. QED  BY <1>1, <1>2, <1>3, <1>4, <1>5

LEMMA ImportModifie ==
  ASSUME NEW q \in Imports, NEW reste, NEW vue, NEW images
  PROVE  /\ q.op = "importer" /\ q # Libre /\ q \notin Lots
         /\ [q EXCEPT !.reste = reste, !.vue = vue]
              = [op |-> "importer", reste |-> reste, vue |-> vue, images |-> q.images]
         /\ [q EXCEPT !.vue = vue, !.images = images]
              = [op |-> "importer", reste |-> q.reste, vue |-> vue, images |-> images]
<1>1. q.op = "importer" /\ q # Libre /\ q \notin Lots
  BY Genres, EnCoursContient DEF Imports, Lots
<1>2. PICK p : p = [q EXCEPT !.reste = reste]
  OBVIOUS
<1>3. p = [op |-> "importer", reste |-> reste, vue |-> q.vue, images |-> q.images]
  BY <1>2 DEF Imports
<1>4. [q EXCEPT !.reste = reste, !.vue = vue] = [p EXCEPT !.vue = vue]
  BY <1>2
<1>5. [p EXCEPT !.vue = vue] = [op |-> "importer", reste |-> reste, vue |-> vue, images |-> q.images]
  BY <1>3
<1>6. PICK o : o = [q EXCEPT !.vue = vue]
  OBVIOUS
<1>7. o = [op |-> "importer", reste |-> q.reste, vue |-> vue, images |-> q.images]
  BY <1>6 DEF Imports
<1>8. [q EXCEPT !.vue = vue, !.images = images] = [o EXCEPT !.images = images]
  BY <1>6
<1>9. [o EXCEPT !.images = images] = [op |-> "importer", reste |-> q.reste, vue |-> vue, images |-> images]
  BY <1>7
<1>. QED  BY <1>1, <1>4, <1>5, <1>8, <1>9

(* What a fresh import holds, one fact at a time.                            *)
LEMMA ImportFrais ==
  ASSUME NEW q \in Imports
  PROVE  Fraiche(q) <=>
           /\ \A i \in DOMAIN q.images : i < suivant /\ Ecrivable(i, q.images[i])
           /\ q.vue # Rien =>
                /\ q.vue.ligne.statut = "IMPORTE"
                /\ IF q.vue.id = Nouvelle THEN DeCle(q.vue.ligne.cle) = {}
                   ELSE Ouverte(q.vue.id, q.vue.ligne.cle)
BY ImportModifie DEF Fraiche

LEMMA ImportFraisEnsuite ==
  ASSUME NEW q \in Imports
  PROVE  Fraiche(q)' <=>
           /\ \A i \in DOMAIN q.images : i < suivant' /\ Ecrivable(i, q.images[i])'
           /\ q.vue # Rien =>
                /\ q.vue.ligne.statut = "IMPORTE"
                /\ IF q.vue.id = Nouvelle THEN DeCle(q.vue.ligne.cle)' = {}
                   ELSE Ouverte(q.vue.id, q.vue.ligne.cle)'
BY ImportModifie DEF Fraiche

LEMMA PasLireLigne ==
  ASSUME Invariant, NEW r \in Requetes, NEW c \in Cles, LireLigne(r, c)
  PROVE  Invariant'
<1> DEFINE q == requetes[r]
           m == q.reste[c]
           reste == [k \in DOMAIN q.reste \ {c} |-> q.reste[k]]
<1>0. InvariantTable /\ Unique(realise)
  BY DEF Invariant, InvariantTable
<1>1. q \in Imports /\ q.vue = Rien /\ c \in DOMAIN q.reste
  BY Genres DEF LireLigne, Invariant, InvariantRequetes
<1>2. q.reste \in Restes /\ q.images \in Images
  BY <1>1 DEF Imports
<1>3. reste \in Restes /\ m \in Montants
  BY <1>1, <1>2, ResteReduit
<1>4. PICK i \in (IF DeCle(c) = {} THEN {Nouvelle} ELSE DeCle(c)) :
        requetes' = [requetes EXCEPT
         ![r].reste = [k \in DOMAIN @ \ {c} |-> @[k]],
         ![r].vue = IF i # Nouvelle /\ Validee(i) THEN Rien
                    ELSE [id |-> i, ligne |-> Saisie(c, m)]]
  BY DEF LireLigne
<1> DEFINE vue == IF i # Nouvelle /\ Validee(i) THEN Rien ELSE [id |-> i, ligne |-> Saisie(c, m)]
           q2 == [op |-> "importer", reste |-> reste, vue |-> vue, images |-> q.images]
<1>5. [q EXCEPT !.reste = reste, !.vue = vue] = q2
  <2>. HIDE DEF reste, vue, q
  <2>. QED  BY <1>1, ImportModifie
<1>6. requetes' = [requetes EXCEPT ![r] = q2]
  BY <1>4, <1>5 DEF Invariant, InvariantRequetes
<1>7. Saisie(c, m) \in Lignes /\ Saisie(c, m).statut = "IMPORTE" /\ Saisie(c, m).cle = c
  BY <1>3 DEF Saisie, Lignes
<1>8. i \in Ids \cup {Nouvelle}
  BY <1>4 DEF DeCle
<1>9. q2 \in Imports
  BY <1>2, <1>3, <1>7, <1>8 DEF Imports
<1>10. q2 \in EnCours
  BY <1>9, EnCoursContient
<1>11. Connus(q) /\ q # Libre /\ (r \notin depassees => Fraiche(q))
  BY <1>1, Genres DEF Invariant, InvariantRequetes
<1>12. i < suivant
  <2>1. CASE DeCle(c) = {}
    BY <2>1, <1>0, <1>4 DEF Nouvelle, InvariantTable
  <2>2. CASE DeCle(c) # {}
    BY <2>2, <1>0, <1>4, LignesTypees DEF DeCle, Existe
  <2>. QED  BY <2>1, <2>2
<1>13. \A j \in DOMAIN q.images : j < suivant
  BY <1>1, <1>11 DEF Connus
<1>14. Connus(q2)
  BY <1>12, <1>13 DEF Connus
<1>15. q2.vue # Rien =>
         /\ q2.vue.ligne.statut = "IMPORTE"
         /\ IF q2.vue.id = Nouvelle THEN DeCle(q2.vue.ligne.cle) = {}
            ELSE Ouverte(q2.vue.id, q2.vue.ligne.cle)
  <2>. SUFFICES ASSUME q2.vue # Rien
       PROVE  IF i = Nouvelle THEN DeCle(c) = {} ELSE Ouverte(i, c)
    BY <1>7
  <2>1. CASE i = Nouvelle
    <3>1. i \notin Ids
      BY <2>1 DEF Nouvelle, Ids
    <3>. QED  BY <2>1, <3>1, <1>4 DEF DeCle
  <2>2. CASE i # Nouvelle
    <3>1. i \in DeCle(c)
      BY <2>2, <1>4
    <3>2. i \in Ids /\ realise[i] # Absente /\ realise[i].cle = c
      BY <3>1 DEF DeCle, Existe
    <3>3. realise[i].statut # "VALIDE"
      BY <2>2 DEF Validee
    <3>. QED  BY <2>2, <1>0, <3>2, <3>3, LignesTypees DEF Ouverte
  <2>. QED  BY <2>1, <2>2
<1>16. r \notin depassees => Fraiche(q2)
  <2>. HIDE DEF vue, q
  <2>1. Fraiche(q) => \A j \in DOMAIN q.images : j < suivant /\ Ecrivable(j, q.images[j])
    BY <1>1, ImportFrais
  <2>. HIDE DEF q2
  <2>2. q2.images = q.images
    BY DEF q2
  <2>. QED  BY <1>9, <1>11, <1>15, <2>1, <2>2, ImportFrais
<1>. QED  BY <1>6, <1>10, <1>14, <1>16, PasDeLecture DEF LireLigne

LEMMA PasEcrireLigne ==
  ASSUME Invariant, NEW r \in Requetes, EcrireLigne(r)
  PROVE  Invariant'
<1>0. InvariantTable
  BY DEF Invariant
<1>1. PICK q \in Imports : q = requetes[r] /\ q.vue # Rien
  BY Genres DEF EcrireLigne, Invariant, InvariantRequetes
<1>a. PICK id \in Ids : id = IF q.vue.id = Nouvelle THEN suivant ELSE q.vue.id
  BY <1>1 DEF EcrireLigne
<1> DEFINE v == q.vue
           images == [i \in DOMAIN q.images \cup {id} |->
                        IF i = id THEN v.ligne ELSE q.images[i]]
           q2 == [op |-> "importer", reste |-> q.reste, vue |-> Rien, images |-> images]
<1>2. /\ q.reste \in Restes /\ q.images \in Images
      /\ v.id \in Ids \cup {Nouvelle} /\ v.ligne \in Lignes
  BY <1>1 DEF Imports
<1>3. /\ id \in Ids
      /\ requetes' = [requetes EXCEPT ![r].vue = Rien, ![r].images = images]
      /\ suivant' = IF v.id = Nouvelle THEN suivant + 1 ELSE suivant
      /\ UNCHANGED <<realise, modeSaisie, depassees, retouchees>>
  BY <1>1, <1>a DEF EcrireLigne
<1>4. [q EXCEPT !.vue = Rien, !.images = images] = q2
  <2>. HIDE DEF images
  <2>. QED  BY <1>1, ImportModifie
<1>5. requetes' = [requetes EXCEPT ![r] = q2]
  <2>. HIDE DEF images, q2
  <2>. QED  BY <1>1, <1>3, <1>4 DEF Invariant, InvariantRequetes
<1>6. images \in Images
  <2>1. DOMAIN q.images \subseteq Ids /\ \A i \in DOMAIN q.images : q.images[i] \in Lignes
    BY <1>2, ImagesTypees
  <2>2. DOMAIN images \subseteq Ids /\ \A i \in DOMAIN images : images[i] \in Lignes
    BY <1>2, <1>3, <2>1
  <2>. HIDE DEF images
  <2>3. images = [i \in DOMAIN images |-> images[i]]
    BY DEF images
  <2>. QED  BY <2>2, <2>3, ImagesAjoutees
<1>7. q2 \in Imports
  BY <1>2, <1>6 DEF Imports
<1>8. Connus(q) /\ q # Libre /\ (r \notin depassees => Fraiche(q))
  BY <1>1, Genres DEF Invariant, InvariantRequetes
<1>9. suivant \in Nat /\ suivant' \in 1..(IdMax + 1) /\ suivant <= suivant'
  BY <1>0, <1>3, <1>a, BornesRealise DEF InvariantTable, Ids
<1>10. InvariantTable'
  <2>1. \A i \in Ids : i >= suivant' => realise'[i] = Absente
    BY <1>0, <1>3, <1>9 DEF InvariantTable, Ids
  <2>. QED  BY <1>0, <1>3, <1>9, <2>1 DEF InvariantTable, Unique
<1>11. requetes' \in [Requetes -> {Libre} \cup EnCours]
  BY <1>5, <1>7, EnCoursContient DEF Invariant, InvariantRequetes
<1>12. id < suivant'
  <2>1. CASE v.id = Nouvelle
    BY <2>1, <1>3, <1>9, <1>a
  <2>2. CASE v.id # Nouvelle
    BY <2>2, <1>1, <1>3, <1>8, <1>a DEF Connus
  <2>. QED  BY <2>1, <2>2
<1>13. Connus(q2)'
  <2>1. \A i \in DOMAIN q.images : i < suivant
    BY <1>1, <1>8 DEF Connus
  <2>2. \A i \in DOMAIN images : i < suivant'
    <3>1. DOMAIN q.images \subseteq Ids
      BY <1>2, ImagesTypees
    <3>. QED  BY <1>9, <1>12, <2>1, <3>1 DEF Ids
  <2>. HIDE DEF images
  <2>3. q2.vue = Rien /\ q2.images = images
    OBVIOUS
  <2>. HIDE DEF q2
  <2>. QED  BY <2>2, <2>3 DEF Connus
<1>14. r \notin depassees => Fraiche(q2)'
  <2>. SUFFICES ASSUME Fraiche(q) PROVE Fraiche(q2)'
    BY <1>8
  <2>2. \A i \in DOMAIN q.images : i < suivant /\ Ecrivable(i, q.images[i])
    BY <1>1, ImportFrais
  <2>3. /\ v.ligne.statut = "IMPORTE"
        /\ IF v.id = Nouvelle THEN DeCle(v.ligne.cle) = {} ELSE Ouverte(v.id, v.ligne.cle)
    BY <1>1, ImportFrais
  <2>4. Ecrivable(id, v.ligne)
    <3>1. CASE v.id = Nouvelle
      <4>1. realise[id] = Absente
        BY <3>1, <1>0, <1>3, <1>9, <1>a DEF InvariantTable
      <4>. QED  BY <3>1, <2>3, <4>1 DEF Ecrivable
    <3>2. CASE v.id # Nouvelle
      BY <3>2, <2>3, <1>a DEF Ecrivable
    <3>. QED  BY <3>1, <3>2
  <2>5. \A i \in DOMAIN images : Ecrivable(i, images[i])
    BY <2>2, <2>4
  <2>6. \A i, l : Ecrivable(i, l) => Ecrivable(i, l)'
    BY <1>3 DEF Ecrivable, Ouverte, DeCle, Existe
  <2>7. \A i \in DOMAIN images : i < suivant'
    <3>1. DOMAIN q.images \subseteq Ids
      BY <1>2, ImagesTypees
    <3>. QED  BY <1>9, <1>12, <2>2, <3>1 DEF Ids
  <2>9. q2.vue = Rien /\ q2.images = images
    OBVIOUS
  <2>. HIDE DEF images, q2
  <2>8. \A i \in DOMAIN q2.images : Ecrivable(i, q2.images[i])'
    <3>. TAKE i \in DOMAIN q2.images
    <3>1. Ecrivable(i, images[i])
      BY <2>5, <2>9
    <3>2. Ecrivable(i, images[i])'
      BY <3>1, <1>3 DEF Ecrivable, Ouverte, DeCle, Existe, images
    <3>. QED  BY <3>2, <2>9
  <2>. QED  BY <1>7, <2>7, <2>8, <2>9, ImportFraisEnsuite
<1>15. ASSUME NEW s \in Requetes \ {r}
       PROVE  /\ Connus(requetes[s])'
              /\ s \notin depassees' /\ requetes'[s] # Libre => Fraiche(requetes[s])'
  <2>0. PICK p : p = requetes[s]
    OBVIOUS
  <2>1. requetes'[s] = p
    BY <2>0, <1>5 DEF Invariant, InvariantRequetes
  <2>2. Connus(p) /\ (s \notin depassees /\ p # Libre => Fraiche(p)) /\ p \in {Libre} \cup EnCours
    BY <2>0 DEF Invariant, InvariantRequetes
  <2>3. p \in Lots \cup Imports => DOMAIN p.images \subseteq Ids
    BY ImagesTypees DEF Lots, Imports
  <2>4. p \in Imports /\ p.vue # Rien => p.vue.id \in Int
    BY DEF Imports, Ids, Nouvelle
  <2>5. Connus(p)'
    <3>1. p \in Lots \cup Imports => \A i \in DOMAIN p.images : i < suivant'
      BY <1>9, <2>2, <2>3 DEF Connus, Ids
    <3>2. p \in Imports /\ p.vue # Rien => p.vue.id < suivant'
      BY <1>9, <2>2, <2>4 DEF Connus
    <3>. QED  BY <3>1, <3>2 DEF Connus
  <2>6. Fraiche(p) => Fraiche(p)'
    <3>. SUFFICES ASSUME Fraiche(p) PROVE Fraiche(p)'
      OBVIOUS
    <3>1. p.op = "importer" => \A i \in DOMAIN p.images : i < suivant'
      BY <1>9, <2>2, <2>3, Genres DEF Connus, Ids
    <3>. QED  BY <1>3, <3>1 DEF Fraiche, Ecrivable, Ouverte, DeCle, Existe
  <2>. QED  BY <1>3, <2>1, <2>2, <2>5, <2>6
<1>16. requetes'[r] = q2
  BY <1>5 DEF Invariant, InvariantRequetes
<1>17. ASSUME NEW s \in Requetes
       PROVE  /\ Connus(requetes[s])'
              /\ s \notin depassees' /\ requetes'[s] # Libre => Fraiche(requetes[s])'
  <2>1. CASE s = r
    BY <2>1, <1>3, <1>13, <1>14, <1>16
  <2>2. CASE s # r
    BY <2>2, <1>15
  <2>. QED  BY <2>1, <2>2
<1>. QED  BY <1>10, <1>11, <1>17 DEF Invariant, InvariantRequetes

-----------------------------------------------------------------------------
(* A COMMIT leaves a table of the same shape; the requests that are still in  *)
(* progress have been overlapped.                                            *)
LEMMA TableApresCommit ==
  ASSUME Invariant, NEW r \in Requetes, Conclure(r)
  PROVE  InvariantTable' /\ suivant <= suivant' /\ suivant \in Nat /\ suivant' \in Nat
<1>0. /\ realise \in [Ids -> Lignes \cup {Absente}]
      /\ suivant \in 1..(IdMax + 1) /\ Unique(realise)'
      /\ \A i \in Ids : i >= suivant => realise[i] = Absente
  BY DEF Invariant, InvariantTable, Conclure, Unique
<1>1. PICK q \in {Libre} \cup EnCours : q = requetes[r] /\ Connus(q)
  BY DEF Invariant, InvariantRequetes
<1>2. CASE EffetCreation(r)
  <2>1. q.ligne \in Lignes
    BY <1>1, <1>2, Genres DEF EffetCreation, Creations
  <2>2. realise' = [realise EXCEPT ![suivant] = q.ligne] /\ suivant' = suivant + 1 /\ suivant \in Ids
    BY <1>1, <1>2 DEF EffetCreation
  <2>. QED  BY <1>0, <2>1, <2>2, BornesRealise DEF InvariantTable, Ids
<1>3. CASE EffetImages(r)
  <2>1. q.images \in Images /\ q \in Lots \cup Imports
    BY <1>1, <1>3, Genres DEF EffetImages, Lots, Imports
  <2>2. \A i \in DOMAIN q.images : i < suivant /\ q.images[i] \in Lignes
    BY <1>1, <2>1, ImagesTypees DEF Connus
  <2>3. /\ realise' = [i \in Ids |-> IF i \in DOMAIN q.images THEN q.images[i] ELSE realise[i]]
        /\ suivant' = suivant
    BY <1>1, <1>3 DEF EffetImages, Superposer
  <2>4. realise' \in [Ids -> Lignes \cup {Absente}]
    BY <1>0, <2>2, <2>3
  <2>5. \A i \in Ids : i >= suivant' => realise'[i] = Absente
    BY <1>0, <2>2, <2>3 DEF Ids
  <2>. QED  BY <1>0, <2>3, <2>4, <2>5, BornesRealise DEF InvariantTable
<1>4. CASE EffetSuppression(r)
  <2>1. /\ realise' = [i \in Ids |-> IF i \in DOMAIN q.images THEN Absente ELSE realise[i]]
        /\ suivant' = suivant
    BY <1>1, <1>4 DEF EffetSuppression
  <2>. QED  BY <1>0, <2>1, BornesRealise DEF InvariantTable
<1>. QED  BY <1>2, <1>3, <1>4 DEF Conclure

LEMMA PasConclure ==
  ASSUME Invariant, NEW r \in Requetes, Conclure(r)
  PROVE  Invariant'
<1>1. InvariantTable' /\ suivant <= suivant' /\ suivant \in Nat /\ suivant' \in Nat
  BY TableApresCommit
<1>2. /\ requetes' = [requetes EXCEPT ![r] = Libre]
      /\ depassees' = {s \in Requetes : requetes'[s] # Libre}
  BY DEF Conclure
<1>3. requetes' \in [Requetes -> {Libre} \cup EnCours]
  BY <1>2 DEF Invariant, InvariantRequetes
<1>4. ASSUME NEW s \in Requetes
      PROVE  Connus(requetes[s])'
  <2>1. PICK p : p = requetes'[s]
    OBVIOUS
  <2>2. p \in {Libre} \cup EnCours /\ (p = Libre \/ Connus(p))
    BY <1>2, <2>1 DEF Invariant, InvariantRequetes
  <2>3. p \in Lots \cup Imports => DOMAIN p.images \subseteq Ids
    BY ImagesTypees DEF Lots, Imports
  <2>4. p \in Imports /\ p.vue # Rien => p.vue.id \in Int
    BY DEF Imports, Ids, Nouvelle
  <2>5. p \in Lots \cup Imports => \A i \in DOMAIN p.images : i < suivant'
    BY <1>1, <2>2, <2>3, Genres DEF Connus, Ids
  <2>6. p \in Imports /\ p.vue # Rien => p.vue.id < suivant'
    BY <1>1, <2>2, <2>4, Genres DEF Connus
  <2>. QED  BY <2>1, <2>5, <2>6 DEF Connus
<1>. QED  BY <1>1, <1>2, <1>3, <1>4 DEF Invariant, InvariantRequetes

(* What no COMMIT has overlapped is regular for every key.                   *)
LEMMA ConclureRegulier ==
  ASSUME Invariant, NEW r \in Requetes, Conclure(r), r \notin depassees, NEW c \in Cles
  PROVE  Registre!Regulier(Etat(c), Etat(c)')
<1>0. InvariantTable /\ Unique(realise) /\ Unique(realise)'
  BY DEF Invariant, InvariantTable, Conclure, Unique
<1>1. PICK q \in {Libre} \cup EnCours : q = requetes[r]
  BY DEF Invariant, InvariantRequetes
<1>2. q # Libre => Fraiche(q)
  BY <1>1 DEF Invariant, InvariantRequetes
<1>3. CASE EffetCreation(r)
  <2>1. q \in Creations /\ q.op = "creer" /\ Fraiche(q)
    BY <1>1, <1>2, <1>3, Genres DEF EffetCreation
  <2>2. q.ligne.statut = "IMPORTE" /\ DeCle(q.ligne.cle) = {}
    BY <2>1 DEF Fraiche
  <2>3. PICK j \in Ids : j = suivant
    BY <1>3 DEF EffetCreation
  <2>4. realise[j] = Absente /\ j \in DOMAIN realise
    BY <1>0, <2>3 DEF InvariantTable, Ids
  <2>5. realise' = [realise EXCEPT ![j] = q.ligne]
    BY <1>1, <1>3, <2>3 DEF EffetCreation
  <2>6. realise'[j] = q.ligne /\ \A k \in Ids \ {j} : realise'[k] = realise[k]
    BY <2>4, <2>5, <1>0 DEF InvariantTable
  <2>7. \A k \in {j} : realise[k].statut # "VALIDE"
    BY <2>4 DEF Absente
  <2>8. \A k \in {j} : realise'[k] # Absente =>
           /\ realise[k] = Absente /\ DeCle(realise'[k].cle) = {}
           /\ realise'[k].statut = "IMPORTE"
    BY <2>2, <2>4, <2>6
  <2>9. {j} \in SUBSET Ids
    OBVIOUS
  <2>. QED  BY <1>0, <2>6, <2>7, <2>8, <2>9, EffetRegulier
<1>4. CASE EffetImages(r)
  <2>1. q.op \in {"modifier", "valider", "importer"} /\ Fraiche(q) /\ q.images \in Images
    BY <1>1, <1>2, <1>4, Genres DEF EffetImages, Lots, Imports
  <2>2. PICK D \in SUBSET Ids : D = DOMAIN q.images
    BY <2>1, ImagesTypees
  <2>3. realise' = [i \in Ids |-> IF i \in D THEN q.images[i] ELSE realise[i]]
    BY <1>1, <1>4, <2>2 DEF EffetImages, Superposer
  <2>4. /\ \A j \in D : realise'[j] = q.images[j]
        /\ \A j \in Ids \ D : realise'[j] = realise[j]
    BY <2>3
  <2>5. CASE q.op = "modifier"
    <3>1. \A j \in D : realise'[j].statut = "IMPORTE" /\ Ouverte(j, realise'[j].cle)
      BY <2>1, <2>2, <2>4, <2>5 DEF Fraiche
    <3>2. \A j \in D : realise[j].statut # "VALIDE"
      BY <3>1 DEF Ouverte
    <3>. QED  BY <1>0, <2>4, <3>1, <3>2, EffetRegulier
  <2>6. CASE q.op = "valider"
    <3>1. \A j \in D : realise[j].statut = "IMPORTE" /\ realise'[j] = [realise[j] EXCEPT !.statut = "VALIDE"]
      BY <2>1, <2>2, <2>4, <2>6 DEF Fraiche
    <3>2. \A j \in D : realise[j] \in Lignes
      BY <1>0, <3>1, LignesTypees
    <3>3. \A j \in D : realise'[j].statut = "VALIDE" /\ realise'[j].montant = realise[j].montant
                       /\ realise'[j].cle = realise[j].cle
      <4>. TAKE j \in D
      <4>1. PICK avant \in Lignes : avant = realise[j]
        BY <3>2
      <4>2. PICK apres : apres = [avant EXCEPT !.statut = "VALIDE"]
        OBVIOUS
      <4>3. apres.statut = "VALIDE" /\ apres.montant = avant.montant /\ apres.cle = avant.cle
        BY <4>2 DEF Lignes
      <4>. QED  BY <3>1, <4>1, <4>2, <4>3
    <3>4. \A j \in D : Ouverte(j, realise'[j].cle) /\ realise[j].statut # "VALIDE"
      BY <3>1, <3>3 DEF Ouverte
    <3>. QED  BY <1>0, <2>4, <3>3, <3>4, EffetRegulier
  <2>7. CASE q.op = "importer"
    <3>1. \A j \in D : Ecrivable(j, realise'[j])
      BY <2>1, <2>2, <2>4, <2>7 DEF Fraiche
    <3>2. \A j \in D : realise[j].statut # "VALIDE"
      BY <3>1 DEF Ecrivable, Ouverte, Absente
    <3>3. \A j \in D : \/ /\ realise[j] = Absente /\ DeCle(realise'[j].cle) = {}
                          /\ realise'[j].statut = "IMPORTE"
                       \/ Ouverte(j, realise'[j].cle) /\ realise'[j].statut = "IMPORTE"
      BY <3>1 DEF Ecrivable
    <3>. QED  BY <1>0, <2>4, <3>2, <3>3, EffetRegulier
  <2>. QED  BY <2>1, <2>5, <2>6, <2>7
<1>5. CASE EffetSuppression(r)
  <2>1. q.op = "supprimer" /\ Fraiche(q) /\ q.images \in Images
    BY <1>1, <1>2, <1>5, Genres DEF EffetSuppression, Lots
  <2>2. PICK D \in SUBSET Ids : D = DOMAIN q.images
    BY <2>1, ImagesTypees
  <2>3. realise' = [i \in Ids |-> IF i \in D THEN Absente ELSE realise[i]]
    BY <1>1, <1>5, <2>2 DEF EffetSuppression
  <2>4. /\ \A j \in D : realise'[j] = Absente
        /\ \A j \in Ids \ D : realise'[j] = realise[j]
    BY <2>3
  <2>5. \A j \in D : realise[j].statut # "VALIDE"
    BY <2>1, <2>2 DEF Fraiche
  <2>. QED  BY <1>0, <2>4, <2>5, EffetRegulier
<1>. QED  BY <1>3, <1>4, <1>5 DEF Conclure

-----------------------------------------------------------------------------
LEMMA PasAnnuler ==
  ASSUME Invariant, NEW r \in Requetes, Annuler(r)
  PROVE  Invariant'
<1>1. InvariantTable'
  BY TableStable DEF Invariant, Annuler
<1>2. requetes' = [requetes EXCEPT ![r] = Libre] /\ depassees' = depassees \ {r}
  BY DEF Annuler
<1>3. requetes' \in [Requetes -> {Libre} \cup EnCours]
  BY <1>2 DEF Invariant, InvariantRequetes
<1>4. ASSUME NEW s \in Requetes
      PROVE  /\ Connus(requetes[s])'
             /\ s \notin depassees' /\ requetes'[s] # Libre => Fraiche(requetes[s])'
  <2>1. PICK p : p = requetes'[s]
    OBVIOUS
  <2>2. CASE s = r
    <3>1. p = Libre
      BY <1>2, <2>1, <2>2 DEF Invariant, InvariantRequetes
    <3>2. Connus(p)'
      BY <3>1 DEF Connus, Lots, Imports, Libre
    <3>. QED  BY <2>1, <3>1, <3>2 DEF Connus
  <2>3. CASE s # r
    <3>1. p = requetes[s]
      BY <1>2, <2>1, <2>3 DEF Invariant, InvariantRequetes
    <3>2. Connus(p) /\ (s \notin depassees /\ p # Libre => Fraiche(p))
      BY <3>1 DEF Invariant, InvariantRequetes
    <3>3. Connus(p)' /\ (s \notin depassees' /\ p # Libre => Fraiche(p)')
      BY <1>2, <2>3, <3>2, FraicheStable DEF Annuler
    <3>. QED  BY <2>1, <3>3 DEF Connus, Fraiche, Ouverte, Ecrivable, DeCle, Existe
  <2>. QED  BY <2>2, <2>3
<1>. QED  BY <1>1, <1>3, <1>4 DEF Invariant, InvariantRequetes

LEMMA PasStable ==
  ASSUME Invariant, UNCHANGED <<realise, suivant, requetes, depassees>>
  PROVE  Invariant'
<1>1. InvariantTable'
  BY TableStable DEF Invariant
<1>2. ASSUME NEW s \in Requetes
      PROVE  /\ Connus(requetes[s])'
             /\ s \notin depassees' /\ requetes'[s] # Libre => Fraiche(requetes[s])'
  BY DEF Invariant, InvariantRequetes, Connus, Fraiche, Ouverte, Ecrivable, DeCle, Existe
<1>. QED  BY <1>1, <1>2 DEF Invariant, InvariantRequetes

LEMMA Inductif == Invariant /\ [NextRealise]_realiseVars => Invariant'
<1>. SUFFICES ASSUME Invariant, [NextRealise]_realiseVars PROVE Invariant'
  OBVIOUS
<1>1. ASSUME NEW r \in Requetes, Avancer(r)
      PROVE  Invariant'
  BY <1>1, PasRecevoir, PasLireLigne, PasEcrireLigne, PasConclure, PasAnnuler DEF Avancer
<1>2. ASSUME NEW m \in Modes, ModifierMode(m)
      PROVE  Invariant'
  BY <1>2, PasStable DEF ModifierMode
<1>3. CASE UNCHANGED realiseVars
  BY <1>3, PasStable DEF realiseVars
<1>. QED  BY <1>1, <1>2, <1>3 DEF NextRealise

(* Every behaviour keeps the table unique and the requests that no COMMIT     *)
(* overlapped up to date.                                                    *)
THEOREM LecturesFraiches == SpecRealise => []Invariant
BY Initial, Inductif, PTL DEF SpecRealise

-----------------------------------------------------------------------------
(* The refinement.                                                          *)
LEMMA EtatType ==
  ASSUME InvariantTable, NEW c \in Cles
  PROVE  Etat(c) \in Registre!Etats
<1>1. CASE DeCle(c) = {}
  BY <1>1 DEF Etat, Registre!Etats, Registre!Vide
<1>2. CASE DeCle(c) # {}
  <2>1. PICK j : j = CHOOSE k \in DeCle(c) : TRUE
    OBVIOUS
  <2>2. j \in DeCle(c)
    BY <1>2, <2>1
  <2>3. realise[j] \in Lignes
    BY <2>2 DEF DeCle, Existe, InvariantTable
  <2>4. Etat(c) = [montant |-> realise[j].montant, valide |-> Validee(j)]
    BY <1>2, <2>1 DEF Etat
  <2>5. Validee(j) \in BOOLEAN
    BY DEF Validee
  <2>. QED  BY <2>3, <2>4, <2>5 DEF Lignes, Registre!Etats
<1>. QED  BY <1>1, <1>2

LEMMA EtatTypeEnsuite ==
  ASSUME InvariantTable', NEW c \in Cles
  PROVE  Etat(c)' \in Registre!Etats
<1>1. CASE DeCle(c)' = {}
  BY <1>1 DEF Etat, Registre!Etats, Registre!Vide
<1>2. CASE DeCle(c)' # {}
  <2>1. PICK j : j = CHOOSE k \in DeCle(c)' : TRUE
    OBVIOUS
  <2>2. j \in DeCle(c)'
    BY <1>2, <2>1
  <2>3. realise'[j] \in Lignes
    BY <2>2 DEF DeCle, Existe, InvariantTable
  <2>4. Etat(c)' = [montant |-> realise'[j].montant, valide |-> Validee(j)']
    BY <1>2, <2>1 DEF Etat
  <2>5. Validee(j)' \in BOOLEAN
    BY DEF Validee
  <2>. QED  BY <2>3, <2>4, <2>5 DEF Lignes, Registre!Etats
<1>. QED  BY <1>1, <1>2

LEMMA RaffineInit == InitRealise => Registre!InitRegistre
<1>. SUFFICES ASSUME InitRealise PROVE Registre!InitRegistre
  OBVIOUS
<1>1. \A c \in Cles : Etat(c) = Registre!Vide
  BY DEF InitRealise, Etat, DeCle, Existe, Validee, Registre!Vide
<1>. QED  BY <1>1 DEF InitRealise, Registre!InitRegistre

LEMMA RaffinePas ==
  Invariant /\ [NextRealise]_realiseVars
    => [Registre!NextRegistre]_<<[c \in Cles |-> Etat(c)], retouchees>>
<1>. SUFFICES ASSUME Invariant, [NextRealise]_realiseVars
     PROVE  [Registre!NextRegistre]_<<[c \in Cles |-> Etat(c)], retouchees>>
  OBVIOUS
<1>1. ASSUME NEW r \in Requetes, Conclure(r)
      PROVE  Registre!NextRegistre
  <2>1. PICK nouvel : nouvel = [c \in Cles |-> Etat(c)']
    OBVIOUS
  <2>2. PICK S : S = IF r \in depassees THEN {c \in Cles : ~ Registre!Regulier(Etat(c), Etat(c)')} ELSE {}
    OBVIOUS
  <2>3. InvariantTable'
    BY <1>1, TableApresCommit
  <2>4. nouvel \in [Cles -> Registre!Etats]
    BY <2>1, <2>3, EtatTypeEnsuite
  <2>5. S \in SUBSET Cles
    BY <2>2
  <2>6. retouchees' = retouchees \cup S
    BY <1>1, <2>2 DEF Conclure
  <2>7. ASSUME NEW c \in Cles \ retouchees'
        PROVE  Registre!Regulier([k \in Cles |-> Etat(k)][c], nouvel[c])
    <3>1. Registre!Regulier(Etat(c), Etat(c)')
      <4>1. CASE r \in depassees
        BY <2>2, <2>6, <4>1
      <4>2. CASE r \notin depassees
        BY <1>1, <4>2, ConclureRegulier
      <4>. QED  BY <4>1, <4>2
    <3>2. [k \in Cles |-> Etat(k)][c] = Etat(c) /\ nouvel[c] = Etat(c)'
      BY <2>1
    <3>. QED  BY <3>1, <3>2
  <2>8. [c \in Cles |-> Etat(c)]' = nouvel
    BY <2>1
  <2>9. Registre!Commit(nouvel, S)
    BY <2>6, <2>7, <2>8 DEF Registre!Commit
  <2>. QED  BY <2>4, <2>5, <2>8, <2>9 DEF Registre!NextRegistre
<1>2. ASSUME UNCHANGED <<realise, retouchees>>
      PROVE  UNCHANGED <<[c \in Cles |-> Etat(c)], retouchees>>
  BY <1>2 DEF Etat, DeCle, Existe, Validee
<1>3. ASSUME NEW r \in Requetes, Avancer(r), ~ Conclure(r)
      PROVE  UNCHANGED <<realise, retouchees>>
  BY <1>3 DEF Avancer, RecevoirCreation, RecevoirModification, RecevoirSuppression,
              RecevoirValidation, RecevoirImport, Lire, LireLigne, EcrireLigne, Annuler
<1>4. (\E m \in Modes : ModifierMode(m)) \/ UNCHANGED realiseVars => UNCHANGED <<realise, retouchees>>
  BY DEF ModifierMode, realiseVars
<1>. QED  BY <1>1, <1>2, <1>3, <1>4 DEF NextRealise

(* The requests of RealiseService, however they interleave, keep the promise   *)
(* of RegistreRealise: every COMMIT is a step of the register.                *)
THEOREM RegistreTenu == SpecRealise => ImplementeRegistre
<1>1. Invariant /\ [NextRealise]_realiseVars
        => [Registre!NextRegistre]_<<[c \in Cles |-> Etat(c)], retouchees>>
  BY RaffinePas
<1>. QED  BY RaffineInit, LecturesFraiches, <1>1, PTL
          DEF SpecRealise, ImplementeRegistre, Registre!SpecRegistre

-----------------------------------------------------------------------------
(* The dashboard: its rows are the grains of the two tables, once each, so    *)
(* that a sum over the rows is one over the grains; one over the grains of the *)
(* actuals is one over their keys, grouped, and one over the grains of a      *)
(* budget is one over its lines, grouped.                                   *)

(* The grains that have a row of the dashboard, and that row.               *)
Clefs == Budgetees \cup Realisees
Rangee(b, c) ==
  IF c \in Budgetees
  THEN [cle |-> c, budget |-> AgregatBudget(b, c), sansBudget |-> FALSE,
        realise |-> IF c \in Realisees THEN AgregatRealise(c) ELSE 0,
        manquant |-> c \notin Realisees]
  ELSE [cle |-> c, budget |-> 0, sansBudget |-> TRUE, realise |-> AgregatRealise(c), manquant |-> FALSE]

LEMMA RangeesParClef ==
  ASSUME NEW b
  PROVE  Rangees(b) = {Rangee(b, c) : c \in Clefs}
<1>1. AvecBudget(b) = {Rangee(b, c) : c \in Budgetees}
  BY DEF AvecBudget, Rangee
<1>2. SansBudget = {Rangee(b, c) : c \in Realisees \ Budgetees}
  BY DEF SansBudget, Rangee
<1>3. Clefs = Budgetees \cup (Realisees \ Budgetees)
  BY DEF Clefs
<1>. QED  BY <1>1, <1>2, <1>3 DEF Rangees

LEMMA ClefsFinies ==
  ASSUME InvariantTable, BornesRealise, BornesEcarts
  PROVE  /\ IsFiniteSet(Budgetees) /\ IsFiniteSet(Realisees) /\ IsFiniteSet(Clefs)
         /\ IsFiniteSet(Validees)
<1>1. IsFiniteSet(Budgetees)
  <2>. DEFINE f == [l \in LignesBudget |-> l.cle]
  <2>1. f \in Surjection(LignesBudget, Budgetees)
    BY DEF Surjection, Budgetees
  <2>2. IsFiniteSet(LignesBudget)
    BY DEF BornesEcarts
  <2>. HIDE DEF f
  <2>. QED  BY <2>1, <2>2, FS_Surjection
<1>2. IsFiniteSet(Validees)
  <2>. DEFINE I == {i \in Ids : Existe(i)}
              C == {realise[i].cle : i \in I}
              f == [i \in I |-> realise[i].cle]
  <2>1. IsFiniteSet(I)
    <3>1. IsFiniteSet(Ids)
      BY FS_Interval DEF Ids, BornesRealise
    <3>. QED  BY <3>1, FS_Subset
  <2>2. f \in Surjection(I, C)
    BY DEF Surjection
  <2>3. IsFiniteSet(C)
    <3>. HIDE DEF f, I, C
    <3>. QED  BY <2>1, <2>2, FS_Surjection
  <2>4. Validees \subseteq C
    <3>1. \A c \in Validees : DeCle(c) # {}
      BY DEF Validees, Etat
    <3>2. \A c : DeCle(c) # {} => c \in C
      BY DEF DeCle, Existe
    <3>. QED  BY <3>1, <3>2
  <2>. HIDE DEF C
  <2>. QED  BY <2>3, <2>4, FS_Subset
<1>3. IsFiniteSet(Realisees)
  <2>. DEFINE f == [c \in Validees |-> GrainDe(c)]
  <2>1. f \in Surjection(Validees, Realisees)
    BY DEF Surjection, Realisees
  <2>. HIDE DEF f
  <2>. QED  BY <1>2, <2>1, FS_Surjection
<1>. QED  BY <1>1, <1>2, <1>3, FS_Union DEF Clefs

LEMMA MontantsEntiers ==
  ASSUME InvariantTable, BornesRealise, BornesEcarts, NEW b \in Budgets
  PROVE  /\ \A c \in Validees : Realise(c) \in Int
         /\ \A g : AgregatRealise(g) \in Int
         /\ \A l \in LignesBudget : b[l] \in Int
         /\ \A c : AgregatBudget(b, c) \in Int
<1>1. ASSUME NEW c \in Validees
      PROVE  Realise(c) \in Int
  <2>1. Etat(c) \in Registre!Etats /\ Etat(c).valide
    BY EtatType DEF Validees
  <2>2. Etat(c) # [valide |-> FALSE]
    BY <2>1
  <2>. QED  BY <2>1, <2>2 DEF Registre!Etats, Registre!Vide, Realise, BornesEcarts
<1>2. \A l \in LignesBudget : b[l] \in Int
  BY DEF BornesEcarts
<1>3. ASSUME NEW c
      PROVE  AgregatBudget(b, c) \in Int
  <2>. DEFINE L == LignesDeCle(c)
              f == [l \in L |-> b[l]]
  <2>1. IsFiniteSet(L)
    BY FS_Subset DEF LignesDeCle, BornesEcarts
  <2>2. \A l \in L : f[l] \in Int
    BY <1>2 DEF LignesDeCle
  <2>3. SumFunctionOnSet(f, L) \in Int
    <3>. HIDE DEF L, f
    <3>. QED  BY <2>1, <2>2, SommeEntiere
  <2>4. AgregatBudget(b, c) = SumFunctionOnSet(f, L)
    BY DEF AgregatBudget, SumFunction
  <2>. QED  BY <2>3, <2>4
<1>4. ASSUME NEW g
      PROVE  AgregatRealise(g) \in Int
  <2>. DEFINE L == DuGrain(g)
              f == [c \in L |-> Realise(c)]
  <2>1. IsFiniteSet(L)
    BY ClefsFinies, FS_Subset DEF DuGrain
  <2>2. \A c \in L : f[c] \in Int
    BY <1>1 DEF DuGrain
  <2>3. SumFunctionOnSet(f, L) \in Int
    <3>. HIDE DEF L, f
    <3>. QED  BY <2>1, <2>2, SommeEntiere
  <2>4. AgregatRealise(g) = SumFunctionOnSet(f, L)
    BY DEF AgregatRealise, SommeDuGrain, SumFunction
  <2>. QED  BY <2>3, <2>4
<1>. QED  BY <1>1, <1>2, <1>3, <1>4

(* A column of the dashboard adds up key by key.                            *)
LEMMA SommeParClef ==
  ASSUME InvariantTable, BornesRealise, BornesEcarts, NEW b, NEW g, NEW f,
         \A c \in Clefs : f[c] \in Int /\ g[Rangee(b, c)] = f[c]
  PROVE  IsFiniteSet(Rangees(b)) /\ SumFunctionOnSet(g, Rangees(b)) = SumFunctionOnSet(f, Clefs)
<1>. DEFINE phi == [c \in Clefs |-> Rangee(b, c)]
            B == {phi[c] : c \in Clefs}
<1>1. \A c, d \in Clefs : phi[c] = phi[d] => c = d
  <2>1. \A c : Rangee(b, c).cle = c
    BY DEF Rangee
  <2>. QED  BY <2>1
<1>2. IsFiniteSet(Clefs)
  BY ClefsFinies
<1>3. \A c \in Clefs : f[c] \in Int /\ g[phi[c]] = f[c]
  OBVIOUS
<1>4. B = Rangees(b)
  BY RangeesParClef
<1>5. IsFiniteSet(B) /\ SumFunctionOnSet(g, B) = SumFunctionOnSet(f, Clefs)
  <2>. HIDE DEF phi
  <2>. QED  BY <1>1, <1>2, <1>3, SommeTransportee
<1>. QED  BY <1>4, <1>5

LEMMA RealiseCompteUneFois ==
  ASSUME InvariantTable, BornesRealise, BornesEcarts, NEW b \in Budgets
  PROVE  SumFunction([x \in Rangees(b) |-> x.realise]) = SumFunction([c \in Validees |-> Realise(c)])
<1>. DEFINE g == [x \in Rangees(b) |-> x.realise]
            f == [c \in Clefs |-> IF c \in Realisees THEN AgregatRealise(c) ELSE 0]
            h == [c \in Realisees |-> AgregatRealise(c)]
            v == [c \in Validees |-> Realise(c)]
            grain == [c \in Validees |-> GrainDe(c)]
<1>1. \A c \in Clefs : f[c] \in Int /\ g[Rangee(b, c)] = f[c]
  <2>1. \A c \in Clefs : Rangee(b, c) \in Rangees(b)
    BY RangeesParClef
  <2>2. \A c \in Clefs : Rangee(b, c).realise = IF c \in Realisees THEN AgregatRealise(c) ELSE 0
    BY DEF Rangee, Clefs
  <2>. QED  BY <2>1, <2>2, MontantsEntiers
<1>2. /\ Realisees \in SUBSET Clefs /\ IsFiniteSet(Clefs)
      /\ \A c \in Realisees : h[c] \in Int /\ f[c] = h[c]
      /\ \A c \in Clefs \ Realisees : f[c] = 0
  BY MontantsEntiers, ClefsFinies DEF Clefs
<1>3. DOMAIN g = Rangees(b) /\ DOMAIN v = Validees
  OBVIOUS
<1>4. /\ IsFiniteSet(Validees) /\ IsFiniteSet(Realisees)
      /\ \A c \in Validees : grain[c] \in Realisees /\ v[c] \in Int
  BY ClefsFinies, MontantsEntiers DEF Realisees
<1>5. ASSUME NEW k \in Realisees
      PROVE  h[k] = SumFunctionOnSet(v, Groupe(Validees, grain, k))
  <2>. DEFINE L == DuGrain(k)
              m == [c \in L |-> Realise(c)]
  <2>1. h[k] = SumFunctionOnSet(m, L)
    BY DEF AgregatRealise, SommeDuGrain, SumFunction
  <2>2. /\ L = Groupe(Validees, grain, k) /\ IsFiniteSet(L)
        /\ \A c \in L : v[c] \in Int /\ m[c] = v[c]
    BY <1>4, FS_Subset DEF DuGrain, Groupe
  <2>3. SumFunctionOnSet(m, L) = SumFunctionOnSet(v, L)
    <3>. HIDE DEF m, L, v
    <3>. QED  BY <2>2, SommeEgale
  <2>. QED  BY <2>1, <2>2, <2>3
<1>. HIDE DEF f, g, h, v, grain
<1>6. SumFunctionOnSet(g, Rangees(b)) = SumFunctionOnSet(f, Clefs)
  BY <1>1, SommeParClef
<1>7. SumFunctionOnSet(h, Realisees) = SumFunctionOnSet(f, Clefs)
  BY <1>2, SommeFiltree
<1>8. SumFunctionOnSet(h, Realisees) = SumFunctionOnSet(v, Validees)
  BY <1>4, <1>5, SommeGroupee
<1>9. SumFunction(g) = SumFunction(v)
  BY <1>3, <1>6, <1>7, <1>8 DEF SumFunction
<1>. QED  BY <1>9 DEF g, v

LEMMA BudgetCompteUneFois ==
  ASSUME InvariantTable, BornesRealise, BornesEcarts, NEW b \in Budgets
  PROVE  SumFunction([x \in Rangees(b) |-> x.budget]) = SumFunction(b)
<1>. DEFINE g == [x \in Rangees(b) |-> x.budget]
            f == [c \in Clefs |-> IF c \in Budgetees THEN AgregatBudget(b, c) ELSE 0]
            h == [c \in Budgetees |-> AgregatBudget(b, c)]
            groupe == [l \in LignesBudget |-> l.cle]
<1>1. \A c \in Clefs : f[c] \in Int /\ g[Rangee(b, c)] = f[c]
  <2>1. \A c \in Clefs : Rangee(b, c) \in Rangees(b)
    BY RangeesParClef
  <2>2. \A c \in Clefs : Rangee(b, c).budget = IF c \in Budgetees THEN AgregatBudget(b, c) ELSE 0
    BY DEF Rangee
  <2>. QED  BY <2>1, <2>2, MontantsEntiers
<1>2. /\ Budgetees \in SUBSET Clefs /\ IsFiniteSet(Clefs)
      /\ \A c \in Budgetees : h[c] \in Int /\ f[c] = h[c]
      /\ \A c \in Clefs \ Budgetees : f[c] = 0
  BY MontantsEntiers, ClefsFinies DEF Clefs
<1>3. DOMAIN g = Rangees(b) /\ DOMAIN b = LignesBudget
  BY DEF BornesEcarts
<1>4. /\ IsFiniteSet(LignesBudget) /\ IsFiniteSet(Budgetees)
      /\ \A l \in LignesBudget : groupe[l] \in Budgetees /\ b[l] \in Int
  BY ClefsFinies, MontantsEntiers DEF BornesEcarts, Budgetees
<1>5. ASSUME NEW c \in Budgetees
      PROVE  h[c] = SumFunctionOnSet(b, Groupe(LignesBudget, groupe, c))
  <2>. DEFINE L == LignesDeCle(c)
              k == [l \in L |-> b[l]]
  <2>1. h[c] = SumFunctionOnSet(k, L)
    BY DEF AgregatBudget, SumFunction
  <2>2. L = Groupe(LignesBudget, groupe, c) /\ IsFiniteSet(L) /\ \A l \in L : b[l] \in Int /\ k[l] = b[l]
    BY <1>4, FS_Subset DEF LignesDeCle, Groupe
  <2>3. SumFunctionOnSet(k, L) = SumFunctionOnSet(b, L)
    <3>. HIDE DEF k, L
    <3>. QED  BY <2>2, SommeEgale
  <2>. QED  BY <2>1, <2>2, <2>3
<1>. HIDE DEF f, g, h, groupe
<1>6. SumFunctionOnSet(g, Rangees(b)) = SumFunctionOnSet(f, Clefs)
  BY <1>1, SommeParClef
<1>7. SumFunctionOnSet(h, Budgetees) = SumFunctionOnSet(f, Clefs)
  BY <1>2, SommeFiltree
<1>8. SumFunctionOnSet(h, Budgetees) = SumFunctionOnSet(b, LignesBudget)
  BY <1>4, <1>5, SommeGroupee
<1>9. SumFunction(g) = SumFunction(b)
  BY <1>3, <1>6, <1>7, <1>8 DEF SumFunction
<1>. QED  BY <1>9 DEF g

LEMMA ToutesLesSommes ==
  ASSUME InvariantTable, BornesRealise, BornesEcarts
  PROVE  RienCompteDeuxFois
<1>. SUFFICES ASSUME NEW b \in Budgets
              PROVE  /\ \A x, y \in Rangees(b) : x.cle = y.cle => x = y
                     /\ SumFunction([x \in Rangees(b) |-> x.realise]) = SumFunction([c \in Validees |-> Realise(c)])
                     /\ SumFunction([x \in Rangees(b) |-> x.budget]) = SumFunction(b)
  BY DEF RienCompteDeuxFois
<1>1. \A x, y \in Rangees(b) : x.cle = y.cle => x = y
  <2>1. \A c : Rangee(b, c).cle = c
    BY DEF Rangee
  <2>. QED  BY <2>1, RangeesParClef
<1>. QED  BY <1>1, RealiseCompteUneFois, BudgetCompteUneFois

(* The gap of the balance is explained row by row.                          *)
LEMMA RangeesTypees ==
  ASSUME InvariantTable, BornesRealise, BornesEcarts, NEW b \in Budgets
  PROVE  /\ IsFiniteSet(Rangees(b))
         /\ \A x \in Rangees(b) : /\ x.realise \in Int /\ x.budget \in Int /\ Ecart(x) \in Int
                                 /\ x.manquant \in BOOLEAN /\ (x.manquant => x.realise = 0)
<1>1. IsFiniteSet(Rangees(b))
  <2>. DEFINE f == [c \in Clefs |-> 0]
              g == [x \in Rangees(b) |-> 0]
  <2>1. \A c \in Clefs : f[c] \in Int /\ g[Rangee(b, c)] = f[c]
    BY RangeesParClef
  <2>. HIDE DEF f, g
  <2>. QED  BY <2>1, SommeParClef
<1>2. ASSUME NEW c \in Clefs
      PROVE  LET x == Rangee(b, c)
             IN  /\ x.realise \in Int /\ x.budget \in Int
                 /\ x.manquant \in BOOLEAN /\ (x.manquant => x.realise = 0)
  <2>1. CASE c \in Budgetees
    <3>1. AgregatRealise(c) \in Int /\ AgregatBudget(b, c) \in Int
      BY MontantsEntiers
    <3>2. LET x == Rangee(b, c)
          IN  /\ x.budget = AgregatBudget(b, c) /\ x.manquant = (c \notin Realisees)
              /\ x.realise = IF c \in Realisees THEN AgregatRealise(c) ELSE 0
      BY <2>1 DEF Rangee
    <3>3. CASE c \in Realisees
      BY <3>1, <3>2, <3>3
    <3>4. CASE c \notin Realisees
      BY <3>1, <3>2, <3>4
    <3>. QED  BY <3>3, <3>4
  <2>2. CASE c \notin Budgetees
    <3>1. AgregatRealise(c) \in Int
      BY MontantsEntiers
    <3>. QED  BY <2>2, <3>1 DEF Rangee
  <2>. QED  BY <2>1, <2>2
<1>. QED  BY <1>1, <1>2, RangeesParClef DEF Ecart

(* The two sides, on one row.                                               *)
SiProduit(x, n) == IF n = "PRODUIT" THEN Ecart(x) ELSE 0
SiCharge(x, n) == IF n = "CHARGE" THEN Ecart(x) ELSE 0
SiSens(x, n, sens) == IF ~ x.manquant /\ Sens(x, n) = sens THEN Absolu(Ecart(x)) ELSE 0
SiManquant(x, n, classe) == IF n = classe /\ x.manquant THEN x.budget ELSE 0

LEMMA UneRangee ==
  ASSUME NEW x, x.realise \in Int, x.budget \in Int, x.manquant \in BOOLEAN, x.manquant => x.realise = 0,
         NEW n \in Natures
  PROVE  /\ SiProduit(x, n) \in Int /\ SiCharge(x, n) \in Int
         /\ SiSens(x, n, "FAVORABLE") \in Int /\ SiSens(x, n, "DEFAVORABLE") \in Int
         /\ SiManquant(x, n, "PRODUIT") \in Int /\ SiManquant(x, n, "CHARGE") \in Int
         /\ (SiProduit(x, n) + SiSens(x, n, "DEFAVORABLE")) + SiManquant(x, n, "PRODUIT")
             = (SiCharge(x, n) + SiSens(x, n, "FAVORABLE")) + SiManquant(x, n, "CHARGE")
<1>1. PICK e \in Int : e = Ecart(x)
  BY DEF Ecart
<1>2. x.manquant => e = - x.budget
  BY <1>1 DEF Ecart
<1>3. CASE n = "PRODUIT"
  BY <1>1, <1>2, <1>3 DEF SiProduit, SiCharge, SiSens, SiManquant, Sens, Absolu
<1>4. CASE n = "CHARGE"
  <2>1. /\ SiProduit(x, n) = 0 /\ SiCharge(x, n) = e /\ SiManquant(x, n, "PRODUIT") = 0
        /\ SiManquant(x, n, "CHARGE") = IF x.manquant THEN x.budget ELSE 0
    BY <1>1, <1>4 DEF SiProduit, SiCharge, SiManquant
  <2>2. CASE x.manquant
    BY <1>2, <2>1, <2>2 DEF SiSens
  <2>3. CASE ~ x.manquant /\ e < 0
    <3>1. Sens(x, n) = "FAVORABLE"
      BY <1>1, <1>4, <2>3 DEF Sens
    <3>. QED  BY <1>1, <2>1, <2>3, <3>1 DEF SiSens, Absolu
  <2>4. CASE ~ x.manquant /\ e > 0
    <3>1. Sens(x, n) = "DEFAVORABLE"
      BY <1>1, <1>4, <2>4 DEF Sens
    <3>. QED  BY <1>1, <2>1, <2>4, <3>1 DEF SiSens, Absolu
  <2>5. CASE ~ x.manquant /\ e = 0
    <3>1. Sens(x, n) = "NEUTRE"
      BY <1>1, <2>5 DEF Sens
    <3>. QED  BY <1>1, <2>1, <2>5, <3>1 DEF SiSens
  <2>. QED  BY <1>1, <2>2, <2>3, <2>4, <2>5
<1>5. CASE n = "BILAN"
  BY <1>1, <1>2, <1>5 DEF SiProduit, SiCharge, SiSens, SiManquant, Sens, Absolu
<1>. QED  BY <1>3, <1>4, <1>5 DEF Natures

LEMMA SoldeParRangee ==
  ASSUME InvariantTable, BornesRealise, BornesEcarts, NEW b \in Budgets, NEW nature \in [Postes -> Natures]
  PROVE  Solde(b, nature) =
             EcartTotal(b, "FAVORABLE", nature) - EcartTotal(b, "DEFAVORABLE", nature)
           - BudgetManquant(b, "PRODUIT", nature) + BudgetManquant(b, "CHARGE", nature)
<1>. DEFINE R == Rangees(b)
            N(x) == nature[x.cle.poste]
            p == [x \in R |-> SiProduit(x, N(x))]
            c == [x \in R |-> SiCharge(x, N(x))]
            f == [x \in R |-> SiSens(x, N(x), "FAVORABLE")]
            d == [x \in R |-> SiSens(x, N(x), "DEFAVORABLE")]
            mp == [x \in R |-> SiManquant(x, N(x), "PRODUIT")]
            mc == [x \in R |-> SiManquant(x, N(x), "CHARGE")]
            pd == [x \in R |-> p[x] + d[x]]
            cf == [x \in R |-> c[x] + f[x]]
            gauche == [x \in R |-> pd[x] + mp[x]]
            S(g) == SumFunctionOnSet(g, R)
<1>1. IsFiniteSet(R)
  BY RangeesTypees
<1>2. \A x \in R : N(x) \in Natures
  <2>1. \A k \in Clefs : k.poste \in Postes
    <3>1. \A k \in Realisees : \E z \in Cles : k.poste = z.poste
      BY DEF Realisees, Validees, GrainDe
    <3>. QED  BY <3>1 DEF Clefs, Budgetees, Postes
  <2>2. \A x \in R : x.cle \in Clefs
    <3>1. \A k : Rangee(b, k).cle = k
      BY DEF Rangee
    <3>. QED  BY <3>1, RangeesParClef
  <2>. QED  BY <2>1, <2>2
<1>3. ASSUME NEW x \in R
      PROVE  /\ p[x] \in Int /\ c[x] \in Int /\ f[x] \in Int /\ d[x] \in Int /\ mp[x] \in Int /\ mc[x] \in Int
             /\ pd[x] \in Int /\ pd[x] = p[x] + d[x] /\ cf[x] \in Int /\ cf[x] = c[x] + f[x]
             /\ gauche[x] = pd[x] + mp[x] /\ gauche[x] = cf[x] + mc[x]
  <2>1. N(x) \in Natures
    BY <1>2
  <2>2. x.realise \in Int /\ x.budget \in Int /\ x.manquant \in BOOLEAN /\ (x.manquant => x.realise = 0)
    BY RangeesTypees
  <2>. QED  BY <2>1, <2>2, UneRangee
<1>4. /\ Solde(b, nature) = S(p) - S(c)
      /\ EcartTotal(b, "FAVORABLE", nature) = S(f) /\ EcartTotal(b, "DEFAVORABLE", nature) = S(d)
      /\ BudgetManquant(b, "PRODUIT", nature) = S(mp) /\ BudgetManquant(b, "CHARGE", nature) = S(mc)
  <2>1. ASSUME NEW A \in SUBSET R, NEW g, NEW h, DOMAIN g = A,
               \A x \in A : h[x] \in Int /\ g[x] = h[x], \A x \in R \ A : h[x] = 0
        PROVE  SumFunction(g) = S(h)
    <3>1. SumFunctionOnSet(g, A) = SumFunctionOnSet(h, R)
      BY <1>1, <2>1, SommeFiltree
    <3>. QED  BY <2>1, <3>1 DEF SumFunction
  <2>2. SumFunction([x \in DeNature(b, "PRODUIT", nature) |-> Ecart(x)]) = S(p)
    <3>. DEFINE A == DeNature(b, "PRODUIT", nature)
                g == [x \in A |-> Ecart(x)]
    <3>1. /\ A \in SUBSET R /\ DOMAIN g = A
          /\ \A x \in A : p[x] \in Int /\ g[x] = p[x]
          /\ \A x \in R \ A : p[x] = 0
      BY <1>3 DEF DeNature, SiProduit
    <3>. HIDE DEF A, g, p, R
    <3>. QED  BY <2>1, <3>1 DEF A, g
  <2>3. SumFunction([x \in DeNature(b, "CHARGE", nature) |-> Ecart(x)]) = S(c)
    <3>. DEFINE A == DeNature(b, "CHARGE", nature)
                g == [x \in A |-> Ecart(x)]
    <3>1. /\ A \in SUBSET R /\ DOMAIN g = A
          /\ \A x \in A : c[x] \in Int /\ g[x] = c[x]
          /\ \A x \in R \ A : c[x] = 0
      BY <1>3 DEF DeNature, SiCharge
    <3>. HIDE DEF A, g, c, R
    <3>. QED  BY <2>1, <3>1 DEF A, g
  <2>4. EcartTotal(b, "FAVORABLE", nature) = S(f)
    <3>. DEFINE A == {y \in Chiffrees(b) : Sens(y, nature[y.cle.poste]) = "FAVORABLE"}
                g == [x \in A |-> Absolu(Ecart(x))]
    <3>1. /\ A \in SUBSET R /\ DOMAIN g = A
          /\ \A x \in A : f[x] \in Int /\ g[x] = f[x]
          /\ \A x \in R \ A : f[x] = 0
      BY <1>3 DEF Chiffrees, SiSens
    <3>2. EcartTotal(b, "FAVORABLE", nature) = SumFunction(g)
      BY DEF EcartTotal
    <3>. HIDE DEF A, g, f, R
    <3>. QED  BY <2>1, <3>1, <3>2
  <2>5. EcartTotal(b, "DEFAVORABLE", nature) = S(d)
    <3>. DEFINE A == {y \in Chiffrees(b) : Sens(y, nature[y.cle.poste]) = "DEFAVORABLE"}
                g == [x \in A |-> Absolu(Ecart(x))]
    <3>1. /\ A \in SUBSET R /\ DOMAIN g = A
          /\ \A x \in A : d[x] \in Int /\ g[x] = d[x]
          /\ \A x \in R \ A : d[x] = 0
      BY <1>3 DEF Chiffrees, SiSens
    <3>2. EcartTotal(b, "DEFAVORABLE", nature) = SumFunction(g)
      BY DEF EcartTotal
    <3>. HIDE DEF A, g, d, R
    <3>. QED  BY <2>1, <3>1, <3>2
  <2>6. BudgetManquant(b, "PRODUIT", nature) = S(mp)
    <3>. DEFINE A == {y \in DeNature(b, "PRODUIT", nature) : y.manquant}
                g == [x \in A |-> x.budget]
    <3>1. /\ A \in SUBSET R /\ DOMAIN g = A
          /\ \A x \in A : mp[x] \in Int /\ g[x] = mp[x]
          /\ \A x \in R \ A : mp[x] = 0
      BY <1>3 DEF DeNature, SiManquant
    <3>2. BudgetManquant(b, "PRODUIT", nature) = SumFunction(g)
      BY DEF BudgetManquant
    <3>. HIDE DEF A, g, mp, R
    <3>. QED  BY <2>1, <3>1, <3>2
  <2>7. BudgetManquant(b, "CHARGE", nature) = S(mc)
    <3>. DEFINE A == {y \in DeNature(b, "CHARGE", nature) : y.manquant}
                g == [x \in A |-> x.budget]
    <3>1. /\ A \in SUBSET R /\ DOMAIN g = A
          /\ \A x \in A : mc[x] \in Int /\ g[x] = mc[x]
          /\ \A x \in R \ A : mc[x] = 0
      BY <1>3 DEF DeNature, SiManquant
    <3>2. BudgetManquant(b, "CHARGE", nature) = SumFunction(g)
      BY DEF BudgetManquant
    <3>. HIDE DEF A, g, mc, R
    <3>. QED  BY <2>1, <3>1, <3>2
  <2>8. Solde(b, nature) = S(p) - S(c)
    BY <2>2, <2>3 DEF Solde, Totaux
  <2>. QED  BY <2>4, <2>5, <2>6, <2>7, <2>8
<1>. HIDE DEF R, p, c, f, d, mp, mc, pd, cf, gauche
<1>5. S(pd) = S(p) + S(d) /\ S(cf) = S(c) + S(f)
  BY <1>1, <1>3, SommeAdditive
<1>6. S(gauche) = S(pd) + S(mp) /\ S(gauche) = S(cf) + S(mc)
  BY <1>1, <1>3, SommeAdditive
<1>7. S(p) \in Int /\ S(c) \in Int /\ S(f) \in Int /\ S(d) \in Int /\ S(mp) \in Int /\ S(mc) \in Int
  BY <1>1, <1>3, SommeEntiere
<1>. QED
  <2>. HIDE DEF S
  <2>. QED  BY <1>4, <1>5, <1>6, <1>7

(* In every state the requests can lead to, and for every budget, each        *)
(* validated amount and each line of the budget is counted once.              *)
THEOREM ChaqueMontantUneFois == SpecRealise => []RienCompteDeuxFois
<1>1. Invariant => RienCompteDeuxFois
  BY ToutesLesSommes, BornesRealise, BornesEcarts DEF Invariant
<1>. QED  BY <1>1, LecturesFraiches, PTL

(* For every budget and every class of the accounts, the gap of the balance is *)
(* what the indicators say, less the budget of the missing actuals.            *)
THEOREM SoldeToujoursExplique == SpecRealise => []SoldeExplique
<1>1. Invariant => SoldeExplique
  BY SoldeParRangee, BornesRealise, BornesEcarts DEF Invariant, SoldeExplique
<1>. QED  BY <1>1, LecturesFraiches, PTL

-----------------------------------------------------------------------------
(* The lines of the budget. ConversionSuivie is not inductive: an import that *)
(* updates a line writes the amount twice and leaves the rate, which is right  *)
(* only if the rate of that line is 1. It is, because the import only finds    *)
(* lines in the pivot currency and only the client can give such a line        *)
(* another rate: that is what Convertie adds. Nor is SaisieGardee: the grid    *)
(* and the import look lines up by different keys, which agree only on the     *)
(* line of the current rows; Gardee says that a cell has no other.             *)

Coherente(m) == m.encours # 0 => m.montant - m.encours \in -50..50
Convertie(g, m) == m.fcfa = m.montant * m.taux /\ (g.devise = Pivot => m.taux = 1)
EnFrancs(m) == m.fcfa = m.montant /\ m.taux = 1

InvariantLignes ==
  /\ \A g \in DOMAIN lignes : lignes[g] \in Mesures /\ Coherente(lignes[g])
  /\ \A g \in DOMAIN lignes \ libres : Convertie(g, lignes[g])
  /\ lot # Aucun => lot.mesure \in Mesures /\ Coherente(lot.mesure) /\ EnFrancs(lot.mesure)

(* What a path of writing has to check of the line it writes.               *)
LEMMA Ecriture ==
  ASSUME InvariantLignes, NEW g, NEW m, m \in Mesures, Coherente(m),
         lignes' = Avec(g, m), libres \ {g} \subseteq libres',
         g \in libres' \/ Convertie(g, m), lot' = lot \/ lot' = Aucun
  PROVE  InvariantLignes'
<1>1. DOMAIN lignes' = DOMAIN lignes \cup {g}
  BY DEF Avec
<1>2. \A h \in DOMAIN lignes' : lignes'[h] = IF h = g THEN m ELSE lignes[h]
  BY DEF Avec
<1>3. (\A h \in DOMAIN lignes : lignes[h] \in Mesures /\ Coherente(lignes[h]))'
  BY <1>1, <1>2 DEF InvariantLignes, Coherente
<1>4. ASSUME NEW h \in DOMAIN lignes' \ libres'
      PROVE  Convertie(h, lignes[h])'
  <2>1. CASE h = g
    BY <2>1, <1>1, <1>2 DEF Convertie
  <2>2. CASE h # g
    <3>1. h \in DOMAIN lignes \ libres
      BY <2>2, <1>1
    <3>2. lignes'[h] = lignes[h]
      BY <2>2, <1>2
    <3>. QED  BY <3>1, <3>2 DEF InvariantLignes, Convertie
  <2>. QED  BY <2>1, <2>2
<1>5. (lot # Aucun => lot.mesure \in Mesures /\ Coherente(lot.mesure) /\ EnFrancs(lot.mesure))'
  BY DEF InvariantLignes, Coherente, EnFrancs, Aucun
<1>. QED  BY <1>3, <1>4, <1>5 DEF InvariantLignes

LEMMA Retrait ==
  ASSUME InvariantLignes, NEW g \in DOMAIN lignes,
         lignes' = Restrict(lignes, DOMAIN lignes \ {g}), libres' = libres \ {g}, lot' = lot
  PROVE  InvariantLignes'
<1>1. DOMAIN lignes' = DOMAIN lignes \ {g} /\ \A h \in DOMAIN lignes' : lignes'[h] = lignes[h]
  BY DEF Restrict
<1>. QED  BY <1>1 DEF InvariantLignes, Coherente, Convertie, EnFrancs, Aucun

LEMMA RienNEcrit ==
  ASSUME InvariantLignes, UNCHANGED <<lignes, libres>>, lot' = lot \/ lot' = Aucun
  PROVE  InvariantLignes'
  BY DEF InvariantLignes, Coherente, Convertie, EnFrancs, Aucun

(* The two modes of entry, as the grid and as the import round them.         *)
LEMMA MesuresSaisies ==
  ASSUME NEW x \in Nat \ {0}
  PROVE  /\ EnMontant(x) \in Mesures /\ Coherente(EnMontant(x)) /\ EnFrancs(EnMontant(x))
         /\ x \in Encours => /\ EnEncours(x) \in Mesures /\ Coherente(EnEncours(x))
                             /\ EnFrancs(EnEncours(x))
                             /\ EnEncoursImporte(x) \in Mesures
                             /\ Coherente(EnEncoursImporte(x)) /\ EnFrancs(EnEncoursImporte(x))
<1>1. AuCentime(x) \in Nat /\ AuCentime(x) - x \in -50..50
  BY DEF AuCentime
<1>. QED
  BY <1>1 DEF EnMontant, EnEncours, EnEncoursImporte, Mesures, Coherente, EnFrancs

LEMMA Pas == InvariantLignes /\ [Next]_vars => InvariantLignes'
<1>. SUFFICES ASSUME InvariantLignes, [Next]_vars
              PROVE  InvariantLignes'
  OBVIOUS
<1>. USE Grandeurs
<1>1. ASSUME NEW c \in Cellules, SaisirGrille(c)
      PROVE  InvariantLignes'
  <2>0. lot' = lot
    BY <1>1 DEF SaisirGrille
  <2>1. ASSUME NEW r, ViderCellule(c, r)
        PROVE  InvariantLignes'
    <3>1. CASE UNCHANGED <<lignes, libres>>
      BY <2>0, <3>1, RienNEcrit
    <3>2. ASSUME NEW g \in TrouveesParGrille(c, r),
                 lignes' = Restrict(lignes, DOMAIN lignes \ {g}), libres' = libres \ {g}
          PROVE  InvariantLignes'
      BY <2>0, <3>2, Retrait DEF TrouveesParGrille, LignesDe
    <3>. QED  BY <2>1, <3>1, <3>2 DEF ViderCellule
  <2>2. ASSUME NEW r, NEW m, m \in Mesures, Coherente(m), EnFrancs(m), RemplirCellule(c, r, m)
        PROVE  InvariantLignes'
    <3>1. PICK g : \/ UNCHANGED <<lignes, libres>>
                   \/ Ecrire(g, m) /\ libres' = libres \ {g}
      BY <2>2 DEF RemplirCellule
    <3>2. Convertie(g, m)
      BY <2>2 DEF Convertie, EnFrancs, Mesures
    <3>. QED  BY <2>0, <2>2, <3>1, <3>2, Ecriture, RienNEcrit DEF Ecrire
  <2>. QED  BY <1>1, <2>1, <2>2, MesuresSaisies DEF SaisirGrille
<1>2. ASSUME NEW c \in Cellules, PreparerImport(c)
      PROVE  InvariantLignes'
  <2>1. PICK m \in {EnMontant(x) : x \in MontantsSaisis} \cup {EnEncoursImporte(x) : x \in Encours} :
          lot' = [cellule |-> c, rang |-> Courant(c.compte), produit |-> DefautImport, mesure |-> m]
    BY <1>2 DEF PreparerImport
  <2>2. m \in Mesures /\ Coherente(m) /\ EnFrancs(m)
    BY MesuresSaisies
  <2>3. lot'.mesure = m
    BY <2>1
  <2>. QED  BY <1>2, <2>2, <2>3 DEF PreparerImport, InvariantLignes, Coherente, Convertie, EnFrancs
<1>3. CASE EcrireImport
  <2>. DEFINE g == GrainPar(lot.cellule, lot.rang, lot.produit)
  <2>. DEFINE m == lot.mesure
  <2>1. m \in Mesures /\ Coherente(m) /\ EnFrancs(m)
    BY <1>3 DEF EcrireImport, InvariantLignes
  <2>2. /\ lignes' = UpsertImport(g, m) /\ lot' = Aucun
        /\ libres' = {l \in libres : l # g \/ lignes'[g].taux # 1 \/ lignes' = lignes}
    BY <1>3 DEF EcrireImport
  <2>3. CASE lignes' = lignes
    BY <2>2, <2>3, RienNEcrit
  <2>4. CASE g \notin DOMAIN lignes
    <3>1. lignes' = Avec(g, m)
      BY <2>2, <2>4 DEF UpsertImport
    <3>2. Convertie(g, m)
      BY <2>1 DEF Convertie, EnFrancs, Mesures
    <3>3. libres \ {g} \subseteq libres'
      BY <2>2
    <3>. HIDE DEF g, m
    <3>. QED  BY <2>1, <2>2, <3>1, <3>2, <3>3, Ecriture
  <2>5. CASE g \in DOMAIN lignes /\ lignes' # lignes
    <3>. DEFINE n == [m EXCEPT !.taux = lignes[g].taux]
    <3>1. lignes' = [lignes EXCEPT ![g] = n]
      BY <2>2, <2>5 DEF UpsertImport
    <3>2. lignes' = Avec(g, n) /\ lignes'[g] = n
      BY <2>5, <3>1 DEF Avec
    <3>3. lignes[g] \in Mesures
      BY <2>5 DEF InvariantLignes
    <3>4. n \in Mesures /\ Coherente(n) /\ n.fcfa = n.montant /\ n.taux = lignes[g].taux
      BY <2>1, <3>3 DEF Mesures, Coherente, EnFrancs
    <3>5. libres \ {g} \subseteq libres' /\ (g \in libres /\ n.taux # 1 => g \in libres')
      BY <2>2, <3>2
    <3>6. g.devise = Pivot
      BY DEF GrainPar
    <3>7. g \in libres' \/ n.taux = 1
      BY <2>5, <3>4, <3>5, <3>6 DEF InvariantLignes, Convertie
    <3>8. g \in libres' \/ Convertie(g, n)
      BY <3>4, <3>7 DEF Convertie, Mesures
    <3>. HIDE DEF g, m, n
    <3>. QED  BY <2>2, <3>2, <3>4, <3>5, <3>8, Ecriture
  <2>. QED  BY <2>3, <2>4, <2>5
<1>4. CASE Creer
  <2>1. PICK g \in Grains, x \in MontantsSaisis, f \in MontantsSaisis, t \in Taux \cup {1}, e \in Encours \cup {0} :
          /\ Ecrire(g, [montant |-> IF e = 0 THEN x ELSE e, fcfa |-> f, taux |-> t, encours |-> e])
          /\ libres' = libres \cup {g} /\ lot' = lot
    BY <1>4 DEF Creer
  <2>2. [montant |-> IF e = 0 THEN x ELSE e, fcfa |-> f, taux |-> t, encours |-> e] \in Mesures
    BY DEF Mesures
  <2>3. Coherente([montant |-> IF e = 0 THEN x ELSE e, fcfa |-> f, taux |-> t, encours |-> e])
    BY DEF Coherente
  <2>. QED  BY <2>1, <2>2, <2>3, Ecriture DEF Ecrire
<1>5. ASSUME NEW c \in Cellules, CreerParCodes(c)
      PROVE  InvariantLignes'
  <2>. DEFINE G(d) == [GrainPar(c, RangAu(c.compte, c.mois), RangAu(Produit, c.mois)) EXCEPT !.devise = d]
  <2>0. PICK d \in Devises, x \in MontantsSaisis, e \in Encours \cup {0} :
          /\ \E t \in TauxRetenus(d) :
               Ecrire(G(d), [montant |-> IF e = 0 THEN x ELSE e, fcfa |-> x * t, taux |-> t, encours |-> e])
          /\ libres' = IF e = 0 THEN libres \ {G(d)} ELSE libres \cup {G(d)}
          /\ lot' = lot
    BY <1>5 DEF CreerParCodes
  <2>1. PICK t \in TauxRetenus(d) :
          Ecrire(G(d), [montant |-> IF e = 0 THEN x ELSE e, fcfa |-> x * t, taux |-> t, encours |-> e])
    BY <2>0
  <2>d. G(d).devise = d
    BY DEF GrainPar
  <2>. DEFINE g == G(d)
  <2>. DEFINE m == [montant |-> IF e = 0 THEN x ELSE e, fcfa |-> x * t, taux |-> t, encours |-> e]
  <2>2. t \in Nat \ {0} /\ (d = Pivot => t = 1)
    BY <2>1 DEF TauxRetenus
  <2>3. x \in Nat /\ x * t \in Nat
    BY <2>2
  <2>4. m \in Mesures /\ Coherente(m)
    BY <2>2, <2>3 DEF Mesures, Coherente
  <2>5. g \in libres' \/ Convertie(g, m)
    BY <2>0, <2>2, <2>d DEF Convertie
  <2>6. libres \ {g} \subseteq libres'
    BY <2>0
  <2>. HIDE DEF G, g, m
  <2>. QED  BY <2>0, <2>1, <2>4, <2>5, <2>6, Ecriture DEF Ecrire, g, m
<1>6. CASE Modifier
  <2>0. PICK g \in DOMAIN lignes :
          \E x \in MontantsSaisis \cup {lignes[g].montant} \cup Encours,
             f \in MontantsSaisis \cup {lignes[g].fcfa}, t \in Taux \cup {lignes[g].taux},
             e \in Encours \cup {0} :
            /\ ModeResolu(g, x, e)
            /\ Ecrire(g, [montant |-> x, fcfa |-> f, taux |-> t, encours |-> e])
            /\ libres' = libres \cup {g} /\ lot' = lot
    BY <1>6 DEF Modifier
  <2>1. PICK x \in MontantsSaisis \cup {lignes[g].montant} \cup Encours,
             f \in MontantsSaisis \cup {lignes[g].fcfa}, t \in Taux \cup {lignes[g].taux},
             e \in Encours \cup {0} :
          /\ ModeResolu(g, x, e)
          /\ Ecrire(g, [montant |-> x, fcfa |-> f, taux |-> t, encours |-> e])
          /\ libres' = libres \cup {g} /\ lot' = lot
    BY <2>0
  <2>2. lignes[g] \in Mesures /\ Coherente(lignes[g])
    BY DEF InvariantLignes
  <2>3. [montant |-> x, fcfa |-> f, taux |-> t, encours |-> e] \in Mesures
    BY <2>1, <2>2 DEF Mesures
  <2>4. Coherente([montant |-> x, fcfa |-> f, taux |-> t, encours |-> e])
    BY <2>1, <2>2 DEF Coherente, ModeResolu, Mesures
  <2>. QED  BY <2>1, <2>3, <2>4, Ecriture DEF Ecrire
<1>7. CASE Supprimer
  BY <1>7, Retrait DEF Supprimer
<1>8. CASE AbandonnerImport \/ Contexte
  BY <1>8, RienNEcrit DEF AbandonnerImport, Contexte, Reviser, ArchiverScenario, Redemarrer
<1>9. CASE UNCHANGED vars
  BY <1>9, RienNEcrit DEF vars
<1>. QED
  BY <1>1, <1>2, <1>3, <1>4, <1>5, <1>6, <1>7, <1>8, <1>9 DEF Next, Importer, AppelsUnitaires

LEMMA LignesTenues == Spec => []InvariantLignes
<1>1. Init => InvariantLignes
  BY DEF Init, InvariantLignes, Aucun
<1>. QED  BY <1>1, Pas, PTL DEF Spec

(* Whatever the paths that write a line and their order, the amount in       *)
(* francs follows the amount and the rate of the line, unless the client     *)
(* sent the amounts itself.                                                  *)
THEOREM ConversionToujoursSuivie == Spec => []ConversionSuivie
<1>1. InvariantLignes => ConversionSuivie
  BY DEF InvariantLignes, ConversionSuivie, Convertie
<1>. QED  BY <1>1, LignesTenues, PTL

(* A line in ENCOURS_TIE is always within half a cent of the monthly          *)
(* interest of its balance, through every path of writing.                    *)
THEOREM EncoursToujoursCoherent == Spec => []EncoursCoherent
<1>1. InvariantLignes => EncoursCoherent
  BY DEF InvariantLignes, EncoursCoherent, Coherente
<1>. QED  BY <1>1, LignesTenues, PTL

(* What was entered is kept: a cell that is not excluded has no line, or the *)
(* one that the grid and the import both find, with the amount entered last  *)
(* in both of its columns.                                                 *)
GrainCourant(c) == GrainPar(c, Courant(c.compte), Courant(Produit))
Gardee(c) ==
  /\ LignesDe(c) \subseteq {GrainCourant(c)}
  /\ IF LignesDe(c) = {} THEN saisi[c] = 0
     ELSE LET m == lignes[GrainCourant(c)] IN m.fcfa = saisi[c] /\ m.montant = saisi[c]

InvariantCellules ==
  /\ saisi = [c \in Cellules |-> saisi[c]]
  /\ \A g \in DOMAIN lignes : Cellule(g) \in Cellules
  /\ lot # Aucun => lot.cellule \in Cellules
  /\ \A c \in Cellules \ exclues : Gardee(c)

LEMMA CelluleDuGrain ==
  ASSUME NEW c \in Cellules, NEW rang, NEW produit
  PROVE  Cellule(GrainPar(c, rang, produit)) = c /\ GrainPar(c, rang, produit).rang = rang
  BY DEF Cellule, GrainPar, Cellules

(* The line of the cell that is written (g, m), or excluded; of the others,   *)
(* nothing changes.                                                        *)
LEMMA EcritureGardee ==
  ASSUME InvariantCellules, NEW c \in Cellules, NEW g, Cellule(g) = c, NEW m,
         DOMAIN lignes' = DOMAIN lignes \cup {g},
         \A h \in DOMAIN lignes' : lignes'[h] = IF h = g THEN m ELSE lignes[h],
         NEW aPart \in BOOLEAN, Suivre(c, m.montant, aPart), UNCHANGED debuts,
         lot' = lot \/ lot' = Aucun,
         c \notin exclues /\ ~ aPart => g = GrainCourant(c) /\ m.fcfa = m.montant
  PROVE  InvariantCellules'
<1>1. DOMAIN lignes' = DOMAIN lignes \cup {g} /\ \A h \in DOMAIN lignes' : lignes'[h] = IF h = g THEN m ELSE lignes[h]
  OBVIOUS
<1>2. ~ \A h \in DOMAIN lignes' : Cellule(h) # c
  BY <1>1
<1>3. /\ exclues' = IF aPart \/ c \in exclues THEN exclues \cup {c} ELSE exclues \ {c}
      /\ saisi' = [saisi EXCEPT ![c] = IF aPart \/ c \in exclues THEN 0 ELSE m.montant]
  BY <1>2 DEF Suivre
<1>4. \A d : GrainCourant(d)' = GrainCourant(d)
  BY DEF GrainCourant, Courant, GrainPar
<1>5. ASSUME NEW d \in Cellules \ exclues', d # c
      PROVE  Gardee(d)'
  <2>1. d \notin exclues /\ saisi'[d] = saisi[d]
    BY <1>3, <1>5 DEF InvariantCellules
  <2>2. LignesDe(d)' = LignesDe(d)
    BY <1>1, <1>5 DEF LignesDe
  <2>3. \A h \in LignesDe(d) : lignes'[h] = lignes[h]
    BY <1>1, <1>5 DEF LignesDe
  <2>4. Gardee(d)
    BY <2>1 DEF InvariantCellules
  <2>5. LignesDe(d) # {} => GrainCourant(d) \in LignesDe(d)
    BY <2>4 DEF Gardee
  <2>. QED  BY <2>1, <2>2, <2>3, <2>4, <2>5, <1>4 DEF Gardee
<1>6. ASSUME c \notin exclues'
      PROVE  Gardee(c)'
  <2>1. c \notin exclues /\ ~ aPart /\ saisi'[c] = m.montant
    BY <1>3, <1>6 DEF InvariantCellules
  <2>2. LignesDe(c) \subseteq {g} /\ g = GrainCourant(c) /\ m.fcfa = m.montant
    BY <2>1 DEF InvariantCellules, Gardee
  <2>3. LignesDe(c)' = {g}
    BY <1>1, <2>2 DEF LignesDe
  <2>4. lignes'[g] = m
    BY <1>1
  <2>. QED  BY <1>4, <2>1, <2>2, <2>3, <2>4 DEF Gardee
<1>7. /\ saisi' = [d \in Cellules |-> saisi'[d]] /\ (lot' # Aucun => lot'.cellule \in Cellules)
      /\ \A h \in DOMAIN lignes' : Cellule(h) \in Cellules
  BY <1>1, <1>3 DEF InvariantCellules
<1>8. \A h : Cellule(h)' = Cellule(h)
  BY DEF Cellule
<1>. QED  BY <1>5, <1>6, <1>7, <1>8 DEF InvariantCellules

LEMMA RetraitGarde ==
  ASSUME InvariantCellules, NEW c \in Cellules, NEW g \in LignesDe(c), lignes' = Restrict(lignes, DOMAIN lignes \ {g}),
         NEW aPart \in BOOLEAN, Suivre(c, 0, aPart), UNCHANGED <<debuts, lot>>
  PROVE  InvariantCellules'
<1>1. DOMAIN lignes' = DOMAIN lignes \ {g} /\ \A h \in DOMAIN lignes' : lignes'[h] = lignes[h]
  BY DEF Restrict
<1>. DEFINE vide == LignesDe(c)' = {}
<1>2. vide <=> \A h \in DOMAIN lignes' : Cellule(h) # c
  BY DEF LignesDe
<1>3. /\ exclues' = IF ~ vide /\ (aPart \/ c \in exclues) THEN exclues \cup {c} ELSE exclues \ {c}
      /\ saisi' = [saisi EXCEPT ![c] = 0]
  BY <1>2 DEF Suivre
<1>4. \A d : GrainCourant(d)' = GrainCourant(d)
  BY DEF GrainCourant, Courant, GrainPar
<1>5. ASSUME NEW d \in Cellules \ exclues', d # c
      PROVE  Gardee(d)'
  <2>1. d \notin exclues /\ saisi'[d] = saisi[d]
    BY <1>3, <1>5 DEF InvariantCellules
  <2>2. LignesDe(d)' = LignesDe(d)
    BY <1>1, <1>5 DEF LignesDe
  <2>3. \A h \in LignesDe(d) : lignes'[h] = lignes[h]
    BY <1>1, <2>2 DEF LignesDe
  <2>4. Gardee(d)
    BY <2>1 DEF InvariantCellules
  <2>5. LignesDe(d) # {} => GrainCourant(d) \in LignesDe(d)
    BY <2>4 DEF Gardee
  <2>. QED  BY <2>1, <2>2, <2>3, <2>4, <2>5, <1>4 DEF Gardee
<1>6. ASSUME c \notin exclues'
      PROVE  Gardee(c)'
  <2>1. vide
    <3>1. CASE c \in exclues
      BY <1>3, <1>6, <3>1
    <3>2. CASE c \notin exclues
      <4>1. LignesDe(c) \subseteq {g}
        BY <3>2 DEF InvariantCellules, Gardee
      <4>. QED  BY <1>1, <4>1 DEF LignesDe
    <3>. QED  BY <3>1, <3>2
  <2>2. saisi'[c] = 0
    BY <1>3 DEF InvariantCellules
  <2>. QED  BY <2>1, <2>2 DEF Gardee
<1>7. /\ saisi' = [d \in Cellules |-> saisi'[d]] /\ (lot' # Aucun => lot'.cellule \in Cellules)
      /\ \A h \in DOMAIN lignes' : Cellule(h) \in Cellules
  BY <1>1, <1>3 DEF InvariantCellules
<1>8. \A h : Cellule(h)' = Cellule(h)
  BY DEF Cellule
<1>. QED  BY <1>5, <1>6, <1>7, <1>8 DEF InvariantCellules

LEMMA RienGarde ==
  ASSUME InvariantCellules, UNCHANGED <<debuts, lignes, saisi, exclues>>,
         lot' # Aucun => lot' = lot \/ lot'.cellule \in Cellules
  PROVE  InvariantCellules'
<1>1. \A d : GrainCourant(d)' = GrainCourant(d) /\ LignesDe(d)' = LignesDe(d)
  BY DEF GrainCourant, Courant, GrainPar, LignesDe, Cellule
<1>. QED  BY <1>1 DEF InvariantCellules, Gardee, Cellule

(* The revision of a code excludes the cells that have lines of it.          *)
LEMMA RevisionGardee ==
  ASSUME InvariantCellules, NEW code \in Codes, Reviser(code)
  PROVE  InvariantCellules'
<1>. DEFINE touchees == {Cellule(g) : g \in {l \in DOMAIN lignes : code \in {l.compte, Produit}}}
<1>1. /\ \E j : debuts' = [debuts EXCEPT ![code] = Append(@, j)]
      /\ exclues' = exclues \cup touchees
      /\ saisi' = [c \in Cellules |-> IF c \in touchees THEN 0 ELSE saisi[c]]
      /\ lignes' = lignes /\ lot' = lot
  BY DEF Reviser
<1>2. ASSUME NEW c \in Cellules \ exclues'
      PROVE  Gardee(c)'
  <2>1. c \notin exclues /\ c \notin touchees /\ saisi'[c] = saisi[c] /\ LignesDe(c)' = LignesDe(c)
    BY <1>1 DEF LignesDe
  <2>2. Gardee(c)
    BY <2>1 DEF InvariantCellules
  <2>3. CASE LignesDe(c) = {}
    BY <2>1, <2>2, <2>3 DEF Gardee
  <2>4. CASE LignesDe(c) # {}
    <3>1. GrainCourant(c) \in DOMAIN lignes /\ Cellule(GrainCourant(c)) = c /\ GrainCourant(c).compte = c.compte
      BY <2>2, <2>4 DEF Gardee, LignesDe, GrainCourant, GrainPar
    <3>2. code # c.compte /\ code # Produit
      BY <2>1, <3>1
    <3>3. GrainCourant(c)' = GrainCourant(c)
      BY <1>1, <3>2 DEF GrainCourant, Courant, GrainPar
    <3>. QED  BY <1>1, <2>1, <2>2, <3>3 DEF Gardee
  <2>. QED  BY <2>3, <2>4
<1>3. /\ saisi' = [c \in Cellules |-> saisi'[c]] /\ (lot' # Aucun => lot'.cellule \in Cellules)
      /\ \A h \in DOMAIN lignes' : Cellule(h)' \in Cellules
  BY <1>1 DEF InvariantCellules, Cellule
<1>. QED  BY <1>2, <1>3 DEF InvariantCellules

(* The line m is written at g, over another or not.                         *)
Ecrit(g, m) ==
  /\ DOMAIN lignes' = DOMAIN lignes \cup {g}
  /\ \A h \in DOMAIN lignes' : lignes'[h] = IF h = g THEN m ELSE lignes[h]

LEMMA AvecEcrit ==
  ASSUME NEW g, NEW m, lignes' = Avec(g, m)
  PROVE  Ecrit(g, m)
  BY DEF Avec, Ecrit

LEMMA PasGarde == InvariantLignes /\ InvariantCellules /\ [Next]_vars => InvariantCellules'
<1>. SUFFICES ASSUME InvariantLignes, InvariantCellules, [Next]_vars
              PROVE  InvariantCellules'
  OBVIOUS
<1>. USE Grandeurs
<1>1. ASSUME NEW c \in Cellules, SaisirGrille(c)
      PROVE  InvariantCellules'
  <2>0. lot' = lot /\ UNCHANGED debuts
    BY <1>1 DEF SaisirGrille, donnees
  <2>1. ASSUME NEW r, ViderCellule(c, r)
        PROVE  InvariantCellules'
    <3>1. CASE UNCHANGED <<lignes, saisi, exclues>>
      BY <2>0, <3>1, RienGarde
    <3>2. ASSUME NEW g \in TrouveesParGrille(c, r),
                 lignes' = Restrict(lignes, DOMAIN lignes \ {g}), Suivre(c, 0, FALSE)
          PROVE  InvariantCellules'
      <4>1. g \in LignesDe(c)
        BY DEF TrouveesParGrille
      <4>. QED  BY <2>0, <3>2, <4>1, RetraitGarde
    <3>. QED  BY <2>1, <3>1, <3>2 DEF ViderCellule
  <2>2. ASSUME NEW r, NEW m, EnFrancs(m), RemplirCellule(c, r, m)
        PROVE  InvariantCellules'
    <3>. DEFINE trouvees == TrouveesParGrille(c, r)
                cibles == IF trouvees = {} THEN {GrainGrille(c, r)} ELSE trouvees
                perime == r # Courant(c.compte)
    <3>1. CASE UNCHANGED <<lignes, saisi, exclues>>
      BY <2>0, <3>1, RienGarde
    <3>2. ASSUME NEW g \in cibles, Ecrire(g, m), Suivre(c, m.montant, perime)
          PROVE  InvariantCellules'
      <4>1. Cellule(g) = c
        BY CelluleDuGrain DEF TrouveesParGrille, LignesDe, GrainGrille
      <4>2. ASSUME c \notin exclues, ~ perime
            PROVE  g = GrainCourant(c)
        <5>1. LignesDe(c) \subseteq {GrainCourant(c)}
          BY <4>2 DEF InvariantCellules, Gardee
        <5>. QED  BY <4>2, <5>1 DEF TrouveesParGrille, GrainGrille, GrainCourant
      <4>3. perime \in BOOLEAN
        OBVIOUS
      <4>4. Ecrit(g, m) /\ m.fcfa = m.montant
        BY <2>2, <3>2, AvecEcrit DEF Ecrire, EnFrancs
      <4>. HIDE DEF perime, cibles
      <4>. QED  BY <2>0, <3>2, <4>1, <4>2, <4>3, <4>4, EcritureGardee DEF Ecrit
    <3>. QED  BY <2>2, <3>1, <3>2 DEF RemplirCellule
  <2>. QED  BY <1>1, <2>1, <2>2, MesuresSaisies DEF SaisirGrille
<1>2. ASSUME NEW c \in Cellules, PreparerImport(c)
      PROVE  InvariantCellules'
  <2>1. lot'.cellule = c /\ UNCHANGED <<debuts, lignes, saisi, exclues>>
    BY <1>2 DEF PreparerImport, donnees
  <2>. QED  BY <2>1, RienGarde
<1>3. CASE EcrireImport
  <2>. DEFINE c == lot.cellule
              m == lot.mesure
              g == GrainPar(c, lot.rang, lot.produit)
              perime == lot.rang # Courant(g.compte) \/ lot.produit # Courant(Produit)
  <2>1. c \in Cellules /\ m.fcfa = m.montant
    BY <1>3 DEF EcrireImport, InvariantLignes, InvariantCellules, EnFrancs
  <2>2. lignes' = UpsertImport(g, m) /\ lot' = Aucun /\ UNCHANGED debuts /\ Suivre(c, m.montant, perime)
    BY <1>3 DEF EcrireImport, donnees
  <2>3. Cellule(g) = c /\ g.compte = c.compte
    BY <2>1, CelluleDuGrain DEF GrainPar
  <2>4. perime \in BOOLEAN
    OBVIOUS
  <2>5. ~ perime => g = GrainCourant(c)
    BY <2>3 DEF GrainCourant
  <2>6. ASSUME NEW n, Ecrit(g, n), n.montant = m.montant, c \notin exclues /\ ~ perime => n.fcfa = n.montant
        PROVE  InvariantCellules'
    <3>. HIDE DEF c, m, g, perime
    <3>. QED  BY <2>1, <2>2, <2>3, <2>4, <2>5, <2>6, EcritureGardee DEF Ecrit
  <2>7. CASE g \notin DOMAIN lignes
    BY <2>1, <2>2, <2>6, <2>7, AvecEcrit DEF UpsertImport
  <2>8. CASE g \in DOMAIN lignes /\ Inchange(lignes[g], m)
    <3>1. Ecrit(g, lignes[g]) /\ lignes[g].montant = m.montant
      <4>1. lignes' = lignes
        BY <2>2, <2>8 DEF UpsertImport
      <4>. QED  BY <2>8, <4>1 DEF Ecrit, Inchange
    <3>2. ASSUME c \notin exclues, ~ perime
          PROVE  lignes[g].fcfa = lignes[g].montant
      <4>1. Gardee(c) /\ g \in LignesDe(c)
        BY <2>1, <2>3, <2>8, <3>2 DEF InvariantCellules, LignesDe
      <4>. QED  BY <2>5, <3>2, <4>1 DEF Gardee
    <3>. QED  BY <2>6, <3>1, <3>2
  <2>9. CASE g \in DOMAIN lignes /\ ~ Inchange(lignes[g], m)
    <3>. DEFINE n == [m EXCEPT !.taux = lignes[g].taux]
    <3>1. Ecrit(g, n)
      BY <2>2, <2>9 DEF UpsertImport, Ecrit
    <3>2. n.montant = m.montant /\ n.fcfa = m.fcfa
      <4>1. m \in Mesures
        BY <1>3 DEF EcrireImport, InvariantLignes
      <4>. QED  BY <4>1 DEF Mesures
    <3>. QED  BY <2>1, <2>6, <3>1, <3>2
  <2>. QED  BY <2>7, <2>8, <2>9
<1>4. CASE AbandonnerImport
  BY <1>4, RienGarde DEF AbandonnerImport, donnees
<1>5. ASSUME NEW g, Cellule(g) \in Cellules, NEW m, Ecrire(g, m), Suivre(Cellule(g), 0, TRUE), UNCHANGED <<debuts, lot>>
      PROVE  InvariantCellules'
  <2>. DEFINE c == Cellule(g)
  <2>1. Suivre(c, m.montant, TRUE)
    BY <1>5 DEF Suivre, Ecrire, Avec
  <2>. HIDE DEF c
  <2>2. c \in Cellules /\ Cellule(g) = c /\ Ecrit(g, m)
    BY <1>5, AvecEcrit DEF c, Ecrire
  <2>. QED  BY <1>5, <2>1, <2>2, EcritureGardee DEF Ecrit
<1>6. CASE Creer
  <2>1. PICK g \in Grains : (\E m : Ecrire(g, m)) /\ Suivre(Cellule(g), 0, TRUE) /\ UNCHANGED <<debuts, lot>>
    BY <1>6 DEF Creer, donnees
  <2>2. Cellule(g) \in Cellules
    BY DEF Cellule, Cellules, Grains
  <2>. QED  BY <1>5, <2>1, <2>2
<1>7. ASSUME NEW c \in Cellules, CreerParCodes(c)
      PROVE  InvariantCellules'
  <2>1. PICK d \in Devises :
          LET g == [GrainPar(c, RangAu(c.compte, c.mois), RangAu(Produit, c.mois)) EXCEPT !.devise = d]
          IN  (\E m : Ecrire(g, m)) /\ Suivre(c, 0, TRUE) /\ UNCHANGED <<debuts, lot>>
    BY <1>7 DEF CreerParCodes, donnees
  <2>. DEFINE g == [GrainPar(c, RangAu(c.compte, c.mois), RangAu(Produit, c.mois)) EXCEPT !.devise = d]
  <2>2. Cellule(g) = c
    BY DEF Cellule, GrainPar, Cellules
  <2>3. PICK m : Ecrire(g, m)
    BY <2>1
  <2>4. Suivre(Cellule(g), 0, TRUE) /\ UNCHANGED <<debuts, lot>> /\ Cellule(g) \in Cellules
    BY <2>1, <2>2
  <2>. HIDE DEF g
  <2>. QED  BY <1>5, <2>3, <2>4
<1>8. CASE Modifier
  <2>1. PICK g \in DOMAIN lignes : (\E m : Ecrire(g, m)) /\ Suivre(Cellule(g), 0, TRUE) /\ UNCHANGED <<debuts, lot>>
    BY <1>8 DEF Modifier, donnees
  <2>2. Cellule(g) \in Cellules
    BY DEF InvariantCellules
  <2>. QED  BY <1>5, <2>1, <2>2
<1>9. CASE Supprimer
  <2>1. PICK g \in DOMAIN lignes : /\ lignes' = Restrict(lignes, DOMAIN lignes \ {g})
                                  /\ Suivre(Cellule(g), 0, TRUE) /\ UNCHANGED <<debuts, lot>>
    BY <1>9 DEF Supprimer, donnees
  <2>2. Cellule(g) \in Cellules /\ g \in LignesDe(Cellule(g))
    BY DEF InvariantCellules, LignesDe
  <2>. QED  BY <2>1, <2>2, RetraitGarde
<1>10. CASE Contexte
  BY <1>10, RevisionGardee, RienGarde DEF Contexte, ArchiverScenario, Redemarrer, donnees
<1>11. CASE UNCHANGED vars
  BY <1>11, RienGarde DEF vars
<1>. QED
  BY <1>1, <1>2, <1>3, <1>4, <1>6, <1>7, <1>8, <1>9, <1>10, <1>11 DEF Next, Importer, AppelsUnitaires

(* The table adds up to what was entered.                                   *)
LEMMA TotalGarde ==
  ASSUME InvariantLignes, NEW c, Gardee(c)
  PROVE  Total(c) = saisi[c]
<1>. DEFINE f == [g \in LignesDe(c) |-> lignes[g].fcfa]
<1>1. Total(c) = SumFunctionOnSet(f, LignesDe(c))
  BY DEF Total, SumFunction
<1>2. CASE LignesDe(c) = {}
  BY <1>1, <1>2, SommeVide DEF Gardee
<1>3. CASE LignesDe(c) # {}
  <2>. DEFINE g == GrainCourant(c)
  <2>1. LignesDe(c) = {g} /\ g \in DOMAIN lignes /\ f[g] = saisi[c]
    BY <1>3 DEF Gardee, LignesDe
  <2>2. f[g] \in Int
    BY <2>1 DEF InvariantLignes, Mesures
  <2>3. IsFiniteSet({g})
    BY FS_Singleton
  <2>. HIDE DEF g, f
  <2>4. SumFunctionOnSet(f, {g}) = f[g] + SumFunctionOnSet(f, {})
    <3>1. {g} \ {g} = {}
      OBVIOUS
    <3>2. \A h \in {g} : f[h] \in Int
      BY <2>2
    <3>. QED  BY <2>3, <3>1, <3>2, SommeRetrait
  <2>. QED  BY <1>1, <2>1, <2>2, <2>4, SommeVide
<1>. QED  BY <1>2, <1>3

(* The grid, the imports and the unit calls in any order, across revisions and *)
(* restarts: what was entered last in a cell is what the table adds up to.     *)
THEOREM SaisieToujoursGardee == Spec => []SaisieGardee
<1>1. Init => InvariantCellules
  BY DEF Init, InvariantCellules, Gardee, LignesDe, Aucun
<1>2. InvariantLignes /\ InvariantCellules => SaisieGardee
  BY TotalGarde DEF SaisieGardee, InvariantCellules
<1>. QED  BY <1>1, <1>2, LignesTenues, PasGarde, PTL DEF Spec
=============================================================================

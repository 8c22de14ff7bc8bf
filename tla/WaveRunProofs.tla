---------------------------- MODULE WaveRunProofs ----------------------------
(***************************************************************************)
(* One wave generation, for any orders, stock, rules and model, any number of *)
(* arrivals and dispatch plans, and any slugs: its types, that a listed run is *)
(* whole, and, when no two run groups have one slug, that every product is *)
(* picked as often as it was ordered, every order is on one sheet, and none *)
(* is waved on an uncertain prediction.                                    *)
(***************************************************************************)
EXTENDS WaveRun, SequenceTheorems, FiniteSetTheorems, WellFoundedInduction, TLAPS

(***************************************************************************)
(* Minima, folds and sums.  Induction over a finite set is had from its    *)
(* smallest subset without the property, since a set of subsets has one.   *)
(***************************************************************************)
(* A collection of subsets of a finite set has a smallest member.          *)
LEMMA SmallestSet ==
  ASSUME NEW S, IsFiniteSet(S), NEW B \in SUBSET (SUBSET S), B # {}
  PROVE  \E s \in B : \A t \in B : t \subseteq s => t = s
<1>1. IsWellFoundedOn(StrictSubsetOrdering(S), SUBSET S)
  BY FS_StrictSubsetOrderingWellFounded, FS_FiniteSubsetsOfFinite
<1>2. PICK s \in B : \A t \in B : ~(<<t, s>> \in StrictSubsetOrdering(S))
  BY <1>1, WFMin
<1>3. \A t \in B : t \subseteq s => t = s
  BY <1>2 DEF StrictSubsetOrdering
<1> QED BY <1>3

LEMMA LeastNumber ==
  ASSUME NEW B \in SUBSET Nat, B # {}
  PROVE  \E n \in B : \A m \in B : n <= m
<1> DEFINE R == {r \in Nat \X Nat : r[1] < r[2]}
<1>1. IsWellFoundedOn(R, Nat)
  BY NatLessThanWellFounded DEF OpToRel
<1>2. PICK n \in B : \A m \in B : ~(<<m, n>> \in R)
  <2> HIDE DEF R
  <2> QED BY <1>1, WFMin
<1>3. \A m \in B : ~(m < n)
  BY <1>2
<1> QED BY <1>3

(* Folds.  it is the fold of the subsets of S that takes the elements of a *)
(* set away in the order of choice and combines them by step.              *)
IsFold(it, S, base, choice, step) ==
  /\ DOMAIN it = SUBSET S
  /\ \A s \in SUBSET S :
       it[s] = IF s = {} THEN base ELSE step[<<choice[s], it[s \ {choice[s]}]>>]

Chooses(choice, S) == \A s \in SUBSET S : s # {} => choice[s] \in s

LEMMA FoldUnique ==
  ASSUME NEW S, IsFiniteSet(S), NEW base, NEW choice, Chooses(choice, S), NEW step,
         NEW T, S \subseteq T,
         NEW g, IsFold(g, S, base, choice, step),
         NEW h, IsFold(h, T, base, choice, step)
  PROVE  g[S] = h[S]
<1> DEFINE B == {s \in SUBSET S : g[s] # h[s]}
<1> SUFFICES ASSUME B # {} PROVE FALSE
  OBVIOUS
<1>1. PICK s \in B : \A t \in B : t \subseteq s => t = s
  <2> HIDE DEF B
  <2>1. B \in SUBSET (SUBSET S)
    BY DEF B
  <2> QED BY <2>1, SmallestSet
<1>2. CASE s = {}
  BY <1>2 DEF IsFold
<1>3. CASE s # {}
  <2>1. choice[s] \in s
    BY <1>3 DEF Chooses
  <2>2. s \ {choice[s]} \in SUBSET S /\ s \ {choice[s]} # s /\ s \ {choice[s]} \subseteq s
    BY <2>1
  <2>3. g[s \ {choice[s]}] = h[s \ {choice[s]}]
    BY <1>1, <2>2
  <2> QED BY <1>3, <2>3 DEF IsFold
<1> QED BY <1>2, <1>3

LEMMA FoldExists ==
  ASSUME NEW S, IsFiniteSet(S), NEW V, NEW base \in V, NEW choice, Chooses(choice, S),
         NEW step \in [S \X V -> V]
  PROVE  \E it \in [SUBSET S -> V] : IsFold(it, S, base, choice, step)
<1> DEFINE Good(u) == \E it \in [SUBSET u -> V] : IsFold(it, u, base, choice, step)
           B == {u \in SUBSET S : ~Good(u)}
           sol(u) == CHOOSE it \in [SUBSET u -> V] : IsFold(it, u, base, choice, step)
<1> SUFFICES ASSUME B # {} PROVE FALSE
  OBVIOUS
<1>1. PICK u \in B : \A t \in B : t \subseteq u => t = u
  <2> HIDE DEF B
  <2>1. B \in SUBSET (SUBSET S)
    BY DEF B
  <2> QED BY <2>1, SmallestSet
<1>2. \A t \in SUBSET u : t # u => sol(t) \in [SUBSET t -> V] /\ IsFold(sol(t), t, base, choice, step)
  <2> SUFFICES ASSUME NEW t \in SUBSET u, t # u
               PROVE  sol(t) \in [SUBSET t -> V] /\ IsFold(sol(t), t, base, choice, step)
    OBVIOUS
  <2>1. Good(t)
    BY <1>1
  <2> QED BY <2>1
<1> HIDE DEF sol
<1> DEFINE last(s) == s \ {choice[s]}
           it == [s \in SUBSET u |-> IF s = {} THEN base ELSE step[<<choice[s], sol(last(s))[last(s)]>>]]
<1>3. \A s \in SUBSET u : s # {} => choice[s] \in s /\ last(s) \in SUBSET u /\ last(s) # u /\ last(s) # s
  BY DEF Chooses
<1>4. it \in [SUBSET u -> V]
  <2> SUFFICES ASSUME NEW s \in SUBSET u, s # {} PROVE step[<<choice[s], sol(last(s))[last(s)]>>] \in V
    OBVIOUS
  <2>1. sol(last(s))[last(s)] \in V
    <3> DEFINE t == last(s)
    <3>1. sol(t) \in [SUBSET t -> V]
      BY <1>2, <1>3
    <3>2. t \in SUBSET t
      OBVIOUS
    <3> HIDE DEF t
    <3>3. sol(t)[t] \in V
      BY <3>1, <3>2
    <3> QED BY <3>3 DEF t
  <2>2. choice[s] \in S
    BY <1>3
  <2> QED BY <2>1, <2>2
<1>5. \A s \in SUBSET u : s # {} => it[last(s)] = sol(last(s))[last(s)]
  <2> SUFFICES ASSUME NEW s \in SUBSET u, s # {} PROVE it[last(s)] = sol(last(s))[last(s)]
    OBVIOUS
  <2> DEFINE t == last(s)
  <2>1. t \in SUBSET u /\ t # u
    BY <1>3
  <2>2. IsFold(sol(t), t, base, choice, step)
    BY <1>2, <2>1
  <2>3. CASE t = {}
    BY <2>2, <2>3 DEF IsFold
  <2>4. CASE t # {}
    <3>1. last(t) \in SUBSET t /\ last(t) \in SUBSET u /\ last(t) # u /\ choice[t] \in t
      BY <1>3, <2>1, <2>4
    <3>2. IsFold(sol(last(t)), last(t), base, choice, step)
      BY <1>2, <3>1
    <3>3. IsFiniteSet(last(t)) /\ Chooses(choice, last(t))
      BY <3>1, FS_Subset DEF Chooses
    <3>4. sol(last(t))[last(t)] = sol(t)[last(t)]
      <4> DEFINE r == last(t)
                 g == sol(r)
                 h == sol(t)
      <4>1. IsFold(h, t, base, choice, step)
        BY <2>2
      <4>3. IsFold(g, r, base, choice, step) /\ IsFiniteSet(r) /\ Chooses(choice, r) /\ r \subseteq t
        BY <3>1, <3>2, <3>3
      <4> HIDE DEF r, g, h, t
      <4>5. g[r] = h[r]
        <5>1. r \subseteq t
          BY <4>3
        <5>2. /\ IsFiniteSet(r) /\ Chooses(choice, r)
              /\ IsFold(g, r, base, choice, step) /\ IsFold(h, t, base, choice, step)
          BY <4>1, <4>3
        <5> HIDE DEF it, last, B, Good
        <5> QED BY ONLY <5>1, <5>2, FoldUnique
      <4> QED BY <4>5 DEF r, g, h
    <3>5. it[t] = step[<<choice[t], sol(last(t))[last(t)]>>]
      BY <2>1, <2>4
    <3>6. sol(t)[t] = step[<<choice[t], sol(t)[last(t)]>>]
      BY <2>2, <2>4 DEF IsFold
    <3> QED BY <3>4, <3>5, <3>6
  <2> QED BY <2>3, <2>4
<1>6. IsFold(it, u, base, choice, step)
  BY <1>5 DEF IsFold
<1>7. Good(u)
  BY <1>4, <1>6
<1> QED BY <1>7
(* Sums over a finite set.                                                 *)
Addends(f, S, V) == IsFiniteSet(S) /\ V \in {Nat, Int} /\ \A x \in S : f[x] \in V

Chosen(S) == [s \in SUBSET S |-> CHOOSE x \in s : TRUE]
Plus(f, S, V) == [p \in S \X V |-> f[p[1]] + p[2]]

(* it adds up the subsets of T, a subset of S.                             *)
Folded(it, f, T, S, V) ==
  /\ it \in [SUBSET T -> V]
  /\ IsFold(it, T, 0, Chosen(S), Plus(f, S, V))
  /\ SumFunctionOnSet(f, T) = it[T]

LEMMA SumIsFold ==
  ASSUME NEW S, NEW V, NEW f, Addends(f, S, V), NEW T \in SUBSET S
  PROVE  \E it : Folded(it, f, T, S, V)
<1> DEFINE choice == Chosen(S)
           plus == Plus(f, S, V)
<1> USE DEF Chosen, Plus
<1> DEFINE body(it) ==
             [s \in SUBSET T |->
               IF s = {} THEN 0
               ELSE f[CHOOSE x \in s : TRUE] + it[s \ {CHOOSE x \in s : TRUE}]]
           iter == CHOOSE it : it = body(it)
<1>0. V \subseteq Int /\ 0 \in V /\ \A x \in S, v \in V : f[x] + v \in V
  BY DEF Addends
<1>1. Chooses(choice, S) /\ Chooses(choice, T) /\ IsFiniteSet(T)
  BY FS_Subset DEF Chooses, Addends
<1>2. plus \in [S \X V -> V] /\ \A a \in S, v \in V : plus[<<a, v>>] = f[a] + v
  BY <1>0
<1>3. PICK it \in [SUBSET S -> V] : IsFold(it, S, 0, choice, plus)
  <2>1. IsFiniteSet(S)
    BY DEF Addends
  <2> QED BY <1>0, <1>1, <1>2, <2>1, FoldExists
<1>4. \A h \in [SUBSET T -> V] : h = body(h) <=> IsFold(h, T, 0, choice, plus)
  <2> SUFFICES ASSUME NEW h \in [SUBSET T -> V]
               PROVE  h = body(h) <=> IsFold(h, T, 0, choice, plus)
    OBVIOUS
  <2>1. \A s \in SUBSET T : s # {} =>
          plus[<<choice[s], h[s \ {choice[s]}]>>] = f[CHOOSE x \in s : TRUE] + h[s \ {CHOOSE x \in s : TRUE}]
    <3> SUFFICES ASSUME NEW s \in SUBSET T, s # {}
                 PROVE  plus[<<choice[s], h[s \ {choice[s]}]>>]
                          = f[CHOOSE x \in s : TRUE] + h[s \ {CHOOSE x \in s : TRUE}]
      OBVIOUS
    <3>1. choice[s] = CHOOSE x \in s : TRUE
      OBVIOUS
    <3>2. choice[s] \in S /\ h[s \ {choice[s]}] \in V
      BY <1>1 DEF Chooses
    <3>3. plus[<<choice[s], h[s \ {choice[s]}]>>] = f[choice[s]] + h[s \ {choice[s]}]
      BY <1>2, <3>2
    <3> QED BY <3>1, <3>3
  <2>2. h = body(h) <=> \A s \in SUBSET T :
          h[s] = IF s = {} THEN 0 ELSE f[CHOOSE x \in s : TRUE] + h[s \ {CHOOSE x \in s : TRUE}]
    OBVIOUS
  <2>3. DOMAIN h = SUBSET T
    OBVIOUS
  <2> HIDE DEF body
  <2> QED BY <2>1, <2>2, <2>3 DEF IsFold
<1>7. SumFunctionOnSet(f, T) = iter[T]
  BY DEF SumFunctionOnSet, FoldFunctionOnSet, MapThenFoldSet
<1>8. PICK h \in [SUBSET T -> V] : h = body(h)
  <2> DEFINE h == [s \in SUBSET T |-> it[s]]
  <2>1. h \in [SUBSET T -> V]
    OBVIOUS
  <2>2. IsFold(h, T, 0, choice, plus)
    BY <1>3 DEF IsFold
  <2> HIDE DEF h, body
  <2> QED BY <1>4, <2>1, <2>2
<1>6. iter = body(iter)
  <2> HIDE DEF body
  <2> QED BY <1>8
<1>9. iter = h
  <2> DEFINE B == {s \in SUBSET T : iter[s] # h[s]}
  <2>1. B = {}
    <3> SUFFICES ASSUME B # {} PROVE FALSE
      OBVIOUS
    <3>1. B \in SUBSET (SUBSET T)
      OBVIOUS
    <3>2. PICK s \in B : \A t \in B : t \subseteq s => t = s
      <4> HIDE DEF B
      <4> QED BY <1>1, <3>1, SmallestSet
    <3>3. CASE s = {}
      BY <1>6, <1>8, <3>3
    <3>4. CASE s # {}
      <4> DEFINE c == CHOOSE x \in s : TRUE
      <4>1. c \in s
        BY <3>4
      <4>2. iter[s] = f[c] + iter[s \ {c}]
        BY <1>6, <3>4
      <4>3. h[s] = f[c] + h[s \ {c}]
        BY <1>8, <3>4
      <4> HIDE DEF c, body, iter
      <4>4. iter[s \ {c}] = h[s \ {c}]
        BY <3>2, <4>1
      <4> QED BY <4>2, <4>3, <4>4
    <3> QED BY <3>3, <3>4
  <2>2. DOMAIN iter = SUBSET T /\ DOMAIN h = SUBSET T /\ iter = [s \in SUBSET T |-> iter[s]]
    BY <1>6
  <2> HIDE DEF iter, body
  <2> QED BY <1>8, <2>1, <2>2
<1>10. IsFold(iter, T, 0, choice, plus) /\ iter \in [SUBSET T -> V]
  <2> HIDE DEF iter, body
  <2> QED BY <1>4, <1>8, <1>9
<1> HIDE DEF iter
<1> QED BY <1>7, <1>10 DEF Folded

(* Induction on the subsets of a finite set, G those it is proved for.     *)
LEMMA SetInduction ==
  ASSUME NEW S, IsFiniteSet(S), NEW G \in SUBSET (SUBSET S), {} \in G,
         \A T \in SUBSET S : T # {} /\ (\A x \in T : T \ {x} \in G) => T \in G
  PROVE  G = SUBSET S
<1> DEFINE B == (SUBSET S) \ G
<1> SUFFICES ASSUME B # {} PROVE FALSE
  OBVIOUS
<1>1. PICK s \in B : \A t \in B : t \subseteq s => t = s
  <2>1. B \in SUBSET (SUBSET S)
    OBVIOUS
  <2> HIDE DEF B
  <2> QED BY <2>1, SmallestSet
<1>2. \A x \in s : s \ {x} \in G
  BY <1>1
<1> QED BY <1>2

LEMMA SumType ==
  ASSUME NEW S, NEW V, NEW f, Addends(f, S, V), NEW T \in SUBSET S
  PROVE  SumFunctionOnSet(f, T) \in V
<1>1. PICK it : Folded(it, f, T, S, V)
  BY SumIsFold
<1> QED BY <1>1 DEF Folded

LEMMA SumEmpty ==
  ASSUME NEW f
  PROVE  SumFunctionOnSet(f, {}) = 0
<1>1. Addends(f, {}, Nat)
  BY FS_EmptySet DEF Addends
<1>2. PICK it : Folded(it, f, {}, {}, Nat)
  BY <1>1, SumIsFold
<1> QED BY <1>2 DEF Folded, IsFold

LEMMA SumChoose ==
  ASSUME NEW S, NEW V, NEW f, Addends(f, S, V), NEW T \in SUBSET S, T # {}
  PROVE  \E x \in T : SumFunctionOnSet(f, T) = f[x] + SumFunctionOnSet(f, T \ {x})
<1> DEFINE choice == Chosen(S)
           plus == Plus(f, S, V)
           x == choice[T]
           U == T \ {x}
<1>1. x \in T /\ Chooses(choice, U) /\ \A a \in S, v \in V : plus[<<a, v>>] = f[a] + v
  BY DEF Chooses, Chosen, Plus, Addends
<1>2. IsFiniteSet(U) /\ U \in SUBSET S /\ U \subseteq T
  BY FS_Subset DEF Addends
<1> HIDE DEF choice, plus, U, x
<1>a. PICK it : Folded(it, f, T, S, V)
  BY SumIsFold
<1>b. PICK jt : Folded(jt, f, U, S, V)
  BY <1>2, SumIsFold
<1>3. it \in [SUBSET T -> V] /\ IsFold(it, T, 0, choice, plus) /\ SumFunctionOnSet(f, T) = it[T]
  BY <1>a DEF choice, plus, Folded
<1>4. IsFold(jt, U, 0, choice, plus) /\ SumFunctionOnSet(f, U) = jt[U]
  BY <1>b DEF choice, plus, Folded
<1>5. jt[U] = it[U]
  BY ONLY <1>1, <1>2, <1>3, <1>4, FoldUnique
<1>6. it[T] = plus[<<x, it[U]>>]
  BY <1>3 DEF IsFold, x, U
<1>7. it[U] \in V
  BY <1>2, <1>3
<1>8. it[T] = f[x] + it[U]
  BY <1>1, <1>6, <1>7
<1> QED BY <1>1, <1>3, <1>4, <1>5, <1>8 DEF U

(* Any element may be taken first.                                         *)
LEMMA SumPick ==
  ASSUME NEW S, NEW V, NEW f, Addends(f, S, V), NEW x \in S
  PROVE  SumFunctionOnSet(f, S) = f[x] + SumFunctionOnSet(f, S \ {x})
<1> DEFINE sum(T) == SumFunctionOnSet(f, T)
           G == {T \in SUBSET S : \A y \in T : sum(T) = f[y] + sum(T \ {y})}
<1>0. IsFiniteSet(S) /\ V \subseteq Int /\ \A y \in S : f[y] \in V
  BY DEF Addends
<1>1. \A T \in SUBSET S : T # {} /\ (\A y \in T : T \ {y} \in G) => T \in G
  <2> SUFFICES ASSUME NEW T \in SUBSET S, T # {}, \A y \in T : T \ {y} \in G, NEW y \in T
               PROVE  sum(T) = f[y] + sum(T \ {y})
    OBVIOUS
  <2> HIDE DEF sum
  <2>1. PICK c \in T : sum(T) = f[c] + sum(T \ {c})
    BY SumChoose DEF sum
  <2>2. CASE c = y
    BY <2>1, <2>2
  <2>3. CASE c # y
    <3> DEFINE U == (T \ {c}) \ {y}
    <3>1. U = (T \ {y}) \ {c} /\ y \in T \ {c} /\ c \in T \ {y}
      BY <2>3
    <3>2. sum(T \ {c}) = f[y] + sum(U)
      BY <3>1
    <3>3. sum(T \ {y}) = f[c] + sum(U)
      BY <3>1
    <3>4. sum(U) \in V
      BY SumType DEF sum
    <3>5. f[c] \in Int /\ f[y] \in Int /\ sum(U) \in Int
      BY <1>0, <3>4
    <3> HIDE DEF U, G
    <3> QED BY <2>1, <3>2, <3>3, <3>5
  <2> QED BY <2>2, <2>3
<1>2. G = SUBSET S
  <2>1. G \in SUBSET (SUBSET S) /\ {} \in G
    OBVIOUS
  <2> HIDE DEF G
  <2> QED BY <1>0, <1>1, <2>1, SetInduction
<1> QED BY <1>2

LEMMA SumSingleton ==
  ASSUME NEW x, NEW f, f[x] \in Int
  PROVE  SumFunctionOnSet(f, {x}) = f[x]
<1>1. Addends(f, {x}, Int) /\ {x} \ {x} = {}
  BY FS_Singleton DEF Addends
<1>2. SumFunctionOnSet(f, {x}) = f[x] + SumFunctionOnSet(f, {})
  BY <1>1, SumPick
<1> QED BY <1>2, SumEmpty

LEMMA AddendsOfSubset ==
  ASSUME NEW S, NEW V, NEW f, Addends(f, S, V), NEW T \in SUBSET S
  PROVE  Addends(f, T, V)
  BY FS_Subset DEF Addends

LEMMA AddendsInt ==
  ASSUME NEW S, NEW V, NEW f, Addends(f, S, V)
  PROVE  Addends(f, S, Int) /\ SumFunctionOnSet(f, S) \in Int
<1>1. Addends(f, S, Int)
  BY DEF Addends
<1> QED BY <1>1, SumType

LEMMA SumScale ==
  ASSUME NEW S, NEW f, Addends(f, S, Int), NEW n \in Int,
         NEW h, \A x \in S : h[x] = n * f[x]
  PROVE  SumFunctionOnSet(h, S) = n * SumFunctionOnSet(f, S)
<1> DEFINE sum(e, T) == SumFunctionOnSet(e, T)
           G == {T \in SUBSET S : sum(h, T) = n * sum(f, T)}
<1>0. IsFiniteSet(S) /\ \A x \in S : f[x] \in Int /\ h[x] \in Int
  BY DEF Addends
<1>1. \A T \in SUBSET S : T # {} /\ (\A y \in T : T \ {y} \in G) => T \in G
  <2> SUFFICES ASSUME NEW T \in SUBSET S, NEW x \in T, T \ {x} \in G
               PROVE  sum(h, T) = n * sum(f, T)
    OBVIOUS
  <2> HIDE DEF sum
  <2> DEFINE U == T \ {x}
  <2>1. Addends(f, T, Int) /\ Addends(h, T, Int)
    BY <1>0, FS_Subset DEF Addends
  <2>2. sum(f, T) = f[x] + sum(f, U) /\ sum(h, T) = h[x] + sum(h, U)
    BY <2>1, SumPick DEF sum
  <2>3. sum(f, U) \in Int
    BY <2>1, SumType DEF sum
  <2>4. sum(h, U) = n * sum(f, U) /\ h[x] = n * f[x] /\ f[x] \in Int
    BY <1>0
  <2> HIDE DEF U
  <2>5. n * (f[x] + sum(f, U)) = n * f[x] + n * sum(f, U)
    BY <2>3, <2>4
  <2> QED BY <2>2, <2>4, <2>5
<1>2. G = SUBSET S
  <2>1. G \in SUBSET (SUBSET S)
    OBVIOUS
  <2>2. {} \in G
    BY SumEmpty
  <2> HIDE DEF G
  <2> QED BY <1>0, <1>1, <2>1, <2>2, SetInduction
<1> QED BY <1>2

LEMMA SumEqual ==
  ASSUME NEW S, NEW f, Addends(f, S, Int), NEW h, \A x \in S : h[x] = f[x]
  PROVE  SumFunctionOnSet(h, S) = SumFunctionOnSet(f, S)
<1>1. \A x \in S : h[x] = 1 * f[x]
  BY DEF Addends
<1>2. SumFunctionOnSet(h, S) = 1 * SumFunctionOnSet(f, S)
  BY <1>1, SumScale
<1> QED BY <1>2, SumType

LEMMA SumZero ==
  ASSUME NEW S, IsFiniteSet(S), NEW f, \A x \in S : f[x] = 0
  PROVE  SumFunctionOnSet(f, S) = 0
<1>1. Addends(f, S, Int) /\ \A x \in S : f[x] = 0 * f[x]
  BY DEF Addends
<1>2. SumFunctionOnSet(f, S) = 0 * SumFunctionOnSet(f, S)
  BY <1>1, SumScale
<1> QED BY <1>1, <1>2, SumType

(* A sum is the sum of the sums of the parts that key parts S into.        *)
Parts(f, S, key, K) == [y \in K |-> SumFunctionOnSet(f, {x \in S : key[x] = y})]

LEMMA SumOfParts ==
  ASSUME NEW S, NEW f, Addends(f, S, Int), NEW K, IsFiniteSet(K),
         NEW key, \A x \in S : key[x] \in K
  PROVE  /\ SumFunctionOnSet(f, S) = SumFunctionOnSet(Parts(f, S, key, K), K)
         /\ Addends(Parts(f, S, key, K), K, Int)
<1> DEFINE sum(e, T) == SumFunctionOnSet(e, T)
           part(T, y) == {x \in T : key[x] = y}
           parts(T) == Parts(f, T, key, K)
           G == {T \in SUBSET S : sum(f, T) = sum(parts(T), K)}
<1>0. IsFiniteSet(S) /\ \A x \in S : f[x] \in Int
  BY DEF Addends
<1>4. \A T \in SUBSET S : Addends(parts(T), K, Int)
  <2> SUFFICES ASSUME NEW T \in SUBSET S, NEW y \in K PROVE sum(f, part(T, y)) \in Int
    BY DEF Addends, Parts
  <2> QED BY SumType
<1>1. \A T \in SUBSET S : T # {} /\ (\A y \in T : T \ {y} \in G) => T \in G
  <2> SUFFICES ASSUME NEW T \in SUBSET S, NEW x \in T, T \ {x} \in G
               PROVE  sum(f, T) = sum(parts(T), K)
    OBVIOUS
  <2> DEFINE U == T \ {x}
             k == key[x]
             J == K \ {k}
  <2>0. k \in K /\ U \in SUBSET S /\ J \in SUBSET K /\ Addends(f, T, Int)
    BY AddendsOfSubset
  <2>1. sum(f, T) = f[x] + sum(f, U)
    BY <2>0, SumPick
  <2>2. sum(parts(T), K) = parts(T)[k] + sum(parts(T), J)
    BY <1>4, <2>0, SumPick
  <2>3. sum(parts(U), K) = parts(U)[k] + sum(parts(U), J)
    BY <1>4, <2>0, SumPick
  <2>4. sum(parts(T), J) = sum(parts(U), J)
    <3>1. \A y \in J : part(T, y) = part(U, y)
      OBVIOUS
    <3>2. \A y \in J : parts(T)[y] = parts(U)[y]
      BY <3>1 DEF Parts
    <3>3. Addends(parts(U), J, Int)
      BY <1>4, <2>0, AddendsOfSubset
    <3> HIDE DEF parts, J
    <3> QED BY <3>2, <3>3, SumEqual
  <2>5. parts(T)[k] = f[x] + parts(U)[k]
    <3>1. x \in part(T, k) /\ part(T, k) \ {x} = part(U, k)
      OBVIOUS
    <3>2. Addends(f, part(T, k), Int)
      BY <1>0, FS_Subset DEF Addends
    <3>3. sum(f, part(T, k)) = f[x] + sum(f, part(U, k))
      <4> DEFINE P == part(T, k)
                 Q == part(U, k)
      <4>1. x \in P /\ P \ {x} = Q /\ Addends(f, P, Int)
        BY <3>1, <3>2
      <4> HIDE DEF P, Q
      <4>2. SumFunctionOnSet(f, P) = f[x] + SumFunctionOnSet(f, P \ {x})
        BY ONLY <4>1, SumPick
      <4> QED BY <4>1, <4>2 DEF P, Q
    <3>4. parts(T)[k] = sum(f, part(T, k)) /\ parts(U)[k] = sum(f, part(U, k))
      BY <2>0 DEF Parts
    <3> QED BY <3>3, <3>4
  <2>6. sum(f, U) = sum(parts(U), K)
    OBVIOUS
  <2>7. parts(U)[k] \in Int /\ sum(parts(U), J) \in Int /\ f[x] \in Int
    <3>1. Addends(parts(U), K, Int)
      BY <1>4, <2>0
    <3> QED BY <1>0, <2>0, <3>1, SumType DEF Addends
  <2> HIDE DEF U, k, J, parts, sum
  <2> QED BY <2>1, <2>2, <2>3, <2>4, <2>5, <2>6, <2>7
<1>2. G = SUBSET S
  <2>1. G \in SUBSET (SUBSET S)
    OBVIOUS
  <2>2. {} \in G
    <3>1. \A y \in K : part({}, y) = {}
      OBVIOUS
    <3>2. \A y \in K : parts({})[y] = 0
      BY <3>1, SumEmpty DEF Parts
    <3>3. sum(parts({}), K) = 0
      <4> HIDE DEF parts
      <4> QED BY <3>2, SumZero
    <3> QED BY <3>3, SumEmpty
  <2> HIDE DEF G
  <2> QED BY <1>0, <1>1, <2>1, <2>2, SetInduction
<1>3. sum(f, S) = sum(parts(S), K)
  BY <1>2
<1> QED BY <1>3, <1>4

(* Counting along a bijection.                                             *)
LEMMA SumAlong ==
  ASSUME NEW A, IsFiniteSet(A), NEW S, NEW b \in [A -> S], IsFiniteSet(S),
         \A x, y \in A : b[x] = b[y] => x = y, \A s \in S : \E x \in A : b[x] = s,
         NEW f, Addends(f, S, Int), NEW h, \A x \in A : h[x] = f[b[x]]
  PROVE  SumFunctionOnSet(h, A) = SumFunctionOnSet(f, S)
<1>1. Addends(h, A, Int)
  BY DEF Addends
<1>2. SumFunctionOnSet(h, A) = SumFunctionOnSet(Parts(h, A, b, S), S)
  BY <1>1, SumOfParts
<1>3. \A s \in S : Parts(h, A, b, S)[s] = f[s]
  <2> SUFFICES ASSUME NEW s \in S PROVE SumFunctionOnSet(h, {x \in A : b[x] = s}) = f[s]
    BY DEF Parts
  <2>1. PICK x \in A : b[x] = s
    OBVIOUS
  <2>2. {z \in A : b[z] = s} = {x}
    BY <2>1
  <2>3. h[x] = f[s] /\ h[x] \in Int
    BY <2>1 DEF Addends
  <2> QED BY <2>2, <2>3, SumSingleton
<1> QED BY <1>2, <1>3, SumEqual

(* Finite sets of integers have a largest and a smallest member.           *)
----------------------------------------------------------------------------
(***************************************************************************)
(* Finite sets, and sequences made of them.                                *)
(***************************************************************************)
LEMMA MaxInSet ==
  ASSUME NEW S \in SUBSET Int, IsFiniteSet(S), S # {}
  PROVE  Max(S) \in S /\ \A y \in S : Max(S) >= y
<1> DEFINE G == {T \in SUBSET S : T # {} => \E x \in T : \A y \in T : x >= y}
<1>1. \A T \in SUBSET S : T # {} /\ (\A x \in T : T \ {x} \in G) => T \in G
  <2> SUFFICES ASSUME NEW T \in SUBSET S, NEW x \in T, T \ {x} \in G
               PROVE  \E m \in T : \A y \in T : m >= y
    OBVIOUS
  <2>1. CASE T = {x}
    BY <2>1
  <2>2. CASE T # {x}
    <3>1. PICK m \in T \ {x} : \A y \in T \ {x} : m >= y
      BY <2>2
    <3>2. m \in Int /\ x \in Int /\ \A y \in T : y \in Int
      OBVIOUS
    <3>3. CASE m >= x
      BY <3>1, <3>2, <3>3
    <3>4. CASE x > m
      <4>1. \A y \in T : x >= y
        BY <3>1, <3>2, <3>4
      <4> QED BY <4>1
    <3> QED BY <3>2, <3>3, <3>4
  <2> QED BY <2>1, <2>2
<1>2. G = SUBSET S
  <2>1. G \in SUBSET (SUBSET S) /\ {} \in G
    OBVIOUS
  <2> HIDE DEF G
  <2> QED BY <1>1, <2>1, SetInduction
<1>3. \E x \in S : \A y \in S : x >= y
  BY <1>2
<1> QED BY <1>3 DEF Max

LEMMA MinInSet ==
  ASSUME NEW S \in SUBSET Int, IsFiniteSet(S), S # {}
  PROVE  Min(S) \in S /\ \A y \in S : Min(S) <= y
<1> DEFINE G == {T \in SUBSET S : T # {} => \E x \in T : \A y \in T : x <= y}
<1>1. \A T \in SUBSET S : T # {} /\ (\A x \in T : T \ {x} \in G) => T \in G
  <2> SUFFICES ASSUME NEW T \in SUBSET S, NEW x \in T, T \ {x} \in G
               PROVE  \E m \in T : \A y \in T : m <= y
    OBVIOUS
  <2>1. CASE T = {x}
    BY <2>1
  <2>2. CASE T # {x}
    <3>1. PICK m \in T \ {x} : \A y \in T \ {x} : m <= y
      BY <2>2
    <3>2. m \in Int /\ x \in Int /\ \A y \in T : y \in Int
      OBVIOUS
    <3>3. CASE m <= x
      BY <3>1, <3>2, <3>3
    <3>4. CASE x < m
      <4>1. \A y \in T : x <= y
        BY <3>1, <3>2, <3>4
      <4> QED BY <4>1
    <3> QED BY <3>2, <3>3, <3>4
  <2> QED BY <2>1, <2>2
<1>2. G = SUBSET S
  <2>1. G \in SUBSET (SUBSET S) /\ {} \in G
    OBVIOUS
  <2> HIDE DEF G
  <2> QED BY <1>1, <2>1, SetInduction
<1>3. \E x \in S : \A y \in S : x <= y
  BY <1>2
<1> QED BY <1>3 DEF Min

LEMMA FiniteImage ==
  ASSUME NEW S, IsFiniteSet(S), NEW f
  PROVE  IsFiniteSet({f[x] : x \in S})
<1> DEFINE T == {f[x] : x \in S}
           g == [x \in S |-> f[x]]
<1>1. g \in Surjection(S, T)
  BY DEF Surjection
<1> HIDE DEF g, T
<1>2. IsFiniteSet(T)
  BY <1>1, FS_Surjection
<1> QED BY <1>2 DEF T

(* A finite set as a sequence.                                             *)
LEMMA SetAsSeq ==
  ASSUME NEW S, IsFiniteSet(S)
  PROVE  /\ SetToSeq(S) \in Seq(S)
         /\ IsInjective(SetToSeq(S))
         /\ \A x \in S : \E i \in DOMAIN SetToSeq(S) : SetToSeq(S)[i] = x
<1> DEFINE n == Cardinality(S)
           D == 1 .. n
           s == SetToSeq(S)
<1>1. n \in Nat /\ ExistsBijection(D, S)
  BY FS_CardinalityType
<1>2. \E f \in [D -> S] : IsInjective(f)
  BY <1>1 DEF ExistsBijection, Bijection, Injection
<1>3. s \in [D -> S] /\ IsInjective(s)
  BY <1>2 DEF SetToSeq
<1>4. IsFiniteSet(D) /\ Cardinality(D) = n
  BY <1>1, FS_Interval
<1> HIDE DEF s, D
<1>5. s \in Injection(D, S)
  BY <1>3 DEF Injection
<1>6. s \in Surjection(D, S)
  BY <1>4, <1>5, FS_Injection
<1>7. \A x \in S : \E i \in D : s[i] = x
  BY <1>6 DEF Surjection
<1>8. s \in Seq(S)
  BY <1>1, <1>3 DEF D
<1> QED BY <1>3, <1>7, <1>8 DEF s

(* Joining sequences.                                                      *)
LEMMA FlattenType ==
  ASSUME NEW S, NEW ss \in Seq(Seq(S))
  PROVE  FlattenSeq(ss) \in Seq(S)
<1> DEFINE n == Len(ss)
           body(f) == [i \in 1 .. n |-> IF i = 1 THEN ss[i] ELSE f[i - 1] \o ss[i]]
           flatten == CHOOSE f : f = body(f)
<1>0. n \in Nat /\ \A i \in 1 .. n : ss[i] \in Seq(S)
  OBVIOUS
<1>1. CASE n = 0
  BY <1>1 DEF FlattenSeq
<1>2. CASE n # 0
  <2> DEFINE Good(k) == \E f \in [1 .. k -> Seq(S)] :
                          \A i \in 1 .. k : f[i] = IF i = 1 THEN ss[i] ELSE f[i - 1] \o ss[i]
             B == {k \in 1 .. n : ~Good(k)}
  <2>1. Good(n)
    <3> HIDE DEF Good
    <3> SUFFICES ASSUME B # {} PROVE FALSE
      <4>1. n \in 1 .. n
        BY <1>0, <1>2
      <4> QED BY <4>1
    <3>1. PICK k \in B : \A m \in B : k <= m
      <4>1. B \in SUBSET Nat
        BY <1>0
      <4> HIDE DEF B
      <4> QED BY <4>1, LeastNumber
    <3>2. CASE k = 1
      <4> DEFINE f == [i \in 1 .. 1 |-> ss[1]]
      <4>1. f \in [1 .. k -> Seq(S)] /\ \A i \in 1 .. k : f[i] = ss[i] /\ i = 1
        BY <1>0, <3>2
      <4>2. Good(k)
        BY <4>1 DEF Good
      <4> QED BY <3>1, <4>2
    <3>3. CASE k # 1
      <4>1. k - 1 \in 1 .. n /\ k \in 1 .. n
        BY <3>1, <3>3
      <4>2. Good(k - 1)
        <5>1. k - 1 \notin B
          <6> HIDE DEF B
          <6> QED BY <3>1, <4>1
        <5> QED BY <4>1, <5>1
      <4>3. PICK f \in [1 .. (k - 1) -> Seq(S)] :
              \A i \in 1 .. (k - 1) : f[i] = IF i = 1 THEN ss[i] ELSE f[i - 1] \o ss[i]
        BY <4>2 DEF Good
      <4> DEFINE h == [i \in 1 .. k |-> IF i = k THEN f[k - 1] \o ss[k] ELSE f[i]]
      <4>4. f[k - 1] \o ss[k] \in Seq(S)
        BY <1>0, <4>1, <4>3, ConcatProperties
      <4>5. h \in [1 .. k -> Seq(S)]
        BY <4>1, <4>4
      <4>6. \A i \in 1 .. k : h[i] = IF i = 1 THEN ss[i] ELSE h[i - 1] \o ss[i]
        <5> SUFFICES ASSUME NEW i \in 1 .. k
                     PROVE  h[i] = IF i = 1 THEN ss[i] ELSE h[i - 1] \o ss[i]
          OBVIOUS
        <5>1. CASE i = k
          <6>1. k - 1 \in 1 .. k /\ k \in 1 .. k /\ k - 1 # k
            BY <4>1
          <6>2. h[k - 1] = f[k - 1] /\ h[k] = f[k - 1] \o ss[k]
            BY <6>1
          <6> HIDE DEF h
          <6> QED BY <3>3, <5>1, <6>2
        <5>2. CASE i # k
          <6>1. i \in 1 .. (k - 1) /\ (i # 1 => i - 1 \in 1 .. k /\ i - 1 # k)
            BY <4>1, <5>2
          <6>2. h[i] = f[i] /\ (i # 1 => h[i - 1] = f[i - 1])
            BY <5>2, <6>1
          <6>3. f[i] = IF i = 1 THEN ss[i] ELSE f[i - 1] \o ss[i]
            BY <4>3, <6>1
          <6> HIDE DEF h
          <6> QED BY <6>2, <6>3
        <5> QED BY <5>1, <5>2
      <4> HIDE DEF h
      <4>7. Good(k)
        BY <4>5, <4>6 DEF Good
      <4> QED BY <3>1, <4>7
    <3> QED BY <3>2, <3>3
  <2>2. PICK f \in [1 .. n -> Seq(S)] :
          \A i \in 1 .. n : f[i] = IF i = 1 THEN ss[i] ELSE f[i - 1] \o ss[i]
    BY <2>1 DEF Good
  <2>3. f = body(f)
    BY <2>2
  <2>4. flatten = body(flatten)
    <3> HIDE DEF body
    <3> QED BY <2>3
  <2>5. \A i \in 1 .. n : flatten[i] \in Seq(S)
    <3> HIDE DEF flatten
    <3> DEFINE C == {i \in 1 .. n : flatten[i] \notin Seq(S)}
    <3> SUFFICES ASSUME C # {} PROVE FALSE
      OBVIOUS
    <3>1. PICK k \in C : \A m \in C : k <= m
      <4>1. C \in SUBSET Nat
        BY <1>0
      <4> HIDE DEF C
      <4> QED BY <4>1, LeastNumber
    <3>2. flatten[k] = IF k = 1 THEN ss[k] ELSE flatten[k - 1] \o ss[k]
      BY <2>4
    <3>3. CASE k = 1
      BY <1>0, <3>2, <3>3
    <3>4. CASE k # 1
      <4>1. k - 1 \in 1 .. n /\ k - 1 \notin C
        BY <1>0, <3>1, <3>4
      <4>2. flatten[k - 1] \o ss[k] \in Seq(S)
        BY <1>0, <4>1, ConcatProperties
      <4> QED BY <3>2, <3>4, <4>2
    <3> QED BY <3>3, <3>4
  <2>6. FlattenSeq(ss) = flatten[n]
    BY <1>2 DEF FlattenSeq
  <2> HIDE DEF flatten
  <2> QED BY <1>0, <1>2, <2>5, <2>6
<1> QED BY <1>1, <1>2

----------------------------------------------------------------------------
(***************************************************************************)
(* plan_waves: the orders due are divided into waves.                      *)
(***************************************************************************)
(* Waves that part a set of orders: every order is in one of them.         *)
Divides(waves, X) ==
  /\ waves \in Seq(SUBSET Orders)
  /\ \A so : so \in X <=> \E i \in DOMAIN waves : so \in waves[i]
  /\ \A i, j \in DOMAIN waves : \A so : so \in waves[i] /\ so \in waves[j] => i = j

Accs == [released : Seq(SUBSET Orders), wave : SUBSET Orders, cartons : Int]

(* The orders taken so far are in a wave released or in the one under way. *)
Halfway(acc, X) ==
  /\ acc \in Accs
  /\ Divides(acc.released, X \ acc.wave)
  /\ acc.wave \subseteq X

LEMMA DividesAppend ==
  ASSUME NEW waves, NEW X, Divides(waves, X), NEW W \in SUBSET Orders, W \intersect X = {}
  PROVE  Divides(Append(waves, W), X \union W)
<1> DEFINE more == Append(waves, W)
           n == Len(waves)
<1>1. /\ waves \in Seq(SUBSET Orders) /\ n \in Nat /\ DOMAIN waves = 1 .. n
      /\ more \in Seq(SUBSET Orders) /\ DOMAIN more = 1 .. (n + 1)
      /\ more[n + 1] = W /\ \A i \in 1 .. n : more[i] = waves[i]
  BY DEF Divides
<1> HIDE DEF more, n
<1>2. \A i \in 1 .. (n + 1) : i = n + 1 \/ i \in 1 .. n
  BY <1>1
<1>3. n + 1 \in 1 .. (n + 1) /\ \A i \in 1 .. n : i \in 1 .. (n + 1) /\ i # n + 1
  BY <1>1
<1>4. \A so : so \in X \union W <=> \E i \in DOMAIN more : so \in more[i]
  <2> SUFFICES ASSUME NEW so PROVE so \in X \union W <=> \E i \in DOMAIN more : so \in more[i]
    OBVIOUS
  <2>1. so \in X <=> \E i \in 1 .. n : so \in waves[i]
    BY <1>1 DEF Divides
  <2> QED BY <1>1, <1>2, <1>3, <2>1
<1>5. \A i, j \in DOMAIN more : \A so : so \in more[i] /\ so \in more[j] => i = j
  <2> SUFFICES ASSUME NEW i \in DOMAIN more, NEW j \in DOMAIN more, NEW so, so \in more[i], so \in more[j]
               PROVE  i = j
    OBVIOUS
  <2>1. \A k \in 1 .. n : so \in waves[k] => so \in X
    BY <1>1 DEF Divides
  <2>2. \A k, l \in 1 .. n : so \in waves[k] /\ so \in waves[l] => k = l
    BY <1>1 DEF Divides
  <2> QED BY <1>1, <1>2, <2>1, <2>2
<1>6. Divides(more, X \union W)
  BY <1>1, <1>4, <1>5 DEF Divides
<1> QED BY <1>6 DEF more

LEMMA AccumulateHalfway ==
  ASSUME NEW acc, NEW X, Halfway(acc, X), NEW so \in Orders, so \notin X, NEW cartons \in Int
  PROVE  Halfway(Accumulate(acc, so, cartons), X \union {so})
<1> DEFINE W == acc.wave \union {so}
           sum == acc.cartons + cartons
           Y == X \ acc.wave
<1>1. /\ acc \in Accs /\ Divides(acc.released, Y) /\ acc.wave \subseteq X
      /\ W \in SUBSET Orders /\ sum \in Int /\ W \intersect Y = {}
      /\ acc.released \in Seq(SUBSET Orders)
  BY DEF Halfway, Accs
<1>2. CASE sum >= EarlyRelease
  <2> DEFINE next == [released |-> Append(acc.released, W), wave |-> {}, cartons |-> 0]
  <2>1. Accumulate(acc, so, cartons) = next
    BY <1>2 DEF Accumulate, NothingReleased
  <2>2. Divides(Append(acc.released, W), Y \union W)
    BY <1>1, DividesAppend
  <2>3. Y \union W = (X \union {so}) \ {}
    BY <1>1
  <2>4. Append(acc.released, W) \in Seq(SUBSET Orders)
    BY <2>2 DEF Divides
  <2>5. next \in Accs
    BY <2>4 DEF Accs
  <2>6. Divides(Append(acc.released, W), (X \union {so}) \ {})
    BY <2>2, <2>3
  <2> QED BY <2>1, <2>5, <2>6 DEF Halfway
<1>3. CASE ~(sum >= EarlyRelease)
  <2> DEFINE next == [acc EXCEPT !.wave = W, !.cartons = sum]
  <2>1. Accumulate(acc, so, cartons) = next
    BY <1>3 DEF Accumulate
  <2>2. next \in Accs /\ next.wave = W /\ next.released = acc.released
    BY <1>1 DEF Accs
  <2>3. (X \union {so}) \ W = Y /\ W \subseteq X \union {so}
    BY <1>1
  <2> HIDE DEF next, W, Y
  <2> QED BY <1>1, <2>1, <2>2, <2>3 DEF Halfway
<1> QED BY <1>2, <1>3

LEMMA AccumulateType ==
  ASSUME NEW acc \in Accs, NEW so \in Orders, NEW cartons \in Int
  PROVE  Accumulate(acc, so, cartons) \in Accs
<1> DEFINE W == acc.wave \union {so}
<1>1. /\ W \in SUBSET Orders /\ acc.cartons + cartons \in Int
      /\ Append(acc.released, W) \in Seq(SUBSET Orders)
  BY DEF Accs
<1>2. [released |-> Append(acc.released, W), wave |-> {}, cartons |-> 0] \in Accs
  BY <1>1 DEF Accs
<1>3. [acc EXCEPT !.wave = W, !.cartons = acc.cartons + cartons] \in Accs
  BY <1>1 DEF Accs
<1> QED BY <1>2, <1>3 DEF Accumulate, NothingReleased

(* What FoldLeft leaves of the orders pulled.                              *)
LEMMA AccumulatedHalfway ==
  ASSUME NEW s \in Seq(Orders), IsInjective(s), NEW O \in SUBSET Orders, NEW book,
         \A so \in Orders : TotalCartons(book[so]) \in Int
  PROVE  Halfway(Accumulated(O, s, book), ToSet(s) \intersect O)
<1> DEFINE D == DOMAIN s
           choice == [T \in SUBSET D |-> Max(T)]
           next(i, acc) == IF s[i] \in O THEN Accumulate(acc, s[i], TotalCartons(book[s[i]])) ELSE acc
           step == [p \in D \X Accs |-> next(p[1], p[2])]
           body(f) == [T \in SUBSET D |-> IF T = {} THEN NothingReleased
                                          ELSE next(Max(T), f[T \ {Max(T)}])]
           iter == CHOOSE f : f = body(f)
<1>1. /\ D \in SUBSET Int /\ IsFiniteSet(D) /\ \A i \in D : s[i] \in Orders
      /\ \A i \in D : TotalCartons(book[s[i]]) \in Int
  <2>1. D = 1 .. Len(s) /\ Len(s) \in Nat
    OBVIOUS
  <2> QED BY <2>1, FS_Interval
<1>2. \A T \in SUBSET D : T # {} => Max(T) \in T
  BY <1>1, MaxInSet, FS_Subset
<1>3. NothingReleased \in Accs
  BY DEF NothingReleased, Accs
<1>4. \A i \in D, acc \in Accs : next(i, acc) \in Accs
  BY <1>1, AccumulateType
<1> HIDE DEF next
<1>5. step \in [D \X Accs -> Accs] /\ \A i \in D, acc \in Accs : step[<<i, acc>>] = next(i, acc)
  BY <1>4
<1>6. Chooses(choice, D)
  BY <1>2 DEF Chooses
<1>7. PICK it \in [SUBSET D -> Accs] : IsFold(it, D, NothingReleased, choice, step)
  <2> HIDE DEF D, choice, step
  <2> QED BY <1>1, <1>3, <1>5, <1>6, FoldExists
<1>8. it = body(it)
  <2>1. \A T \in SUBSET D : it[T] = IF T = {} THEN NothingReleased ELSE next(Max(T), it[T \ {Max(T)}])
    <3> SUFFICES ASSUME NEW T \in SUBSET D, T # {}
                 PROVE  it[T] = next(Max(T), it[T \ {Max(T)}])
      BY <1>7 DEF IsFold
    <3>1. it[T] = step[<<choice[T], it[T \ {choice[T]}]>>] /\ choice[T] = Max(T)
      BY <1>7 DEF IsFold
    <3>2. Max(T) \in D /\ it[T \ {Max(T)}] \in Accs
      BY <1>2, <1>7
    <3> HIDE DEF step, choice
    <3> QED BY <1>5, <3>1, <3>2
  <2> QED BY <2>1
<1>9. iter = body(iter)
  <2> HIDE DEF body
  <2> QED BY <1>8
<1>10. Accumulated(O, s, book) = iter[D]
  BY DEF Accumulated, FoldLeft, MapThenFoldSet, next
<1> DEFINE seen(T) == {s[i] : i \in T} \intersect O
           G == {T \in SUBSET D : Halfway(iter[T], seen(T))}
<1>11. \A T \in SUBSET D : T # {} /\ (\A x \in T : T \ {x} \in G) => T \in G
  <2> SUFFICES ASSUME NEW T \in SUBSET D, T # {}, \A x \in T : T \ {x} \in G
               PROVE  Halfway(iter[T], seen(T))
    OBVIOUS
  <2> DEFINE m == Max(T)
             U == T \ {m}
  <2>1. m \in T /\ m \in D
    BY <1>2
  <2>2. Halfway(iter[U], seen(U))
    BY <2>1
  <2>3. iter[T] = next(m, iter[U])
    BY <1>9
  <2>4. s[m] \notin {s[i] : i \in U}
    BY <2>1 DEF IsInjective
  <2> HIDE DEF iter, U, m
  <2>5. CASE s[m] \in O
    <3>1. seen(T) = seen(U) \union {s[m]}
      BY <2>1, <2>5 DEF U
    <3>2. Halfway(Accumulate(iter[U], s[m], TotalCartons(book[s[m]])), seen(U) \union {s[m]})
      <4>1. s[m] \in Orders /\ TotalCartons(book[s[m]]) \in Int /\ s[m] \notin seen(U)
        BY <1>1, <2>1, <2>4
      <4> HIDE DEF seen
      <4> QED BY <2>2, <4>1, AccumulateHalfway
    <3> HIDE DEF seen
    <3> QED BY <2>3, <2>5, <3>1, <3>2 DEF next
  <2>6. CASE s[m] \notin O
    <3>1. seen(T) = seen(U)
      BY <2>1, <2>6 DEF U
    <3> HIDE DEF seen
    <3> QED BY <2>2, <2>3, <2>6, <3>1 DEF next
  <2> QED BY <2>5, <2>6
<1>12. {} \in G
  <2>1. iter[{}] = NothingReleased
    BY <1>9
  <2>2. Divides(<<>>, {})
    BY DEF Divides
  <2>3. Halfway(NothingReleased, {})
    BY <1>3, <2>2 DEF Halfway, NothingReleased
  <2>4. seen({}) = {}
    OBVIOUS
  <2> HIDE DEF iter, seen
  <2>5. Halfway(iter[{}], seen({}))
    BY <2>1, <2>3, <2>4
  <2> QED BY <2>5
<1>13. G = SUBSET D
  <2>1. G \in SUBSET (SUBSET D)
    OBVIOUS
  <2> HIDE DEF G, D
  <2> QED BY <1>1, <1>11, <1>12, <2>1, SetInduction
<1>14. Halfway(iter[D], seen(D))
  BY <1>13
<1> HIDE DEF iter
<1> QED BY <1>10, <1>14 DEF ToSet

(* The waves of a group part its orders.                                   *)
LEMMA ReleasedDivides ==
  ASSUME NEW s \in Seq(Orders), IsInjective(s), NEW O \in SUBSET ToSet(s), NEW book,
         \A so \in Orders : TotalCartons(book[so]) \in Int
  PROVE  Divides(Released(O, s, book), O)
<1> DEFINE end == Accumulated(O, s, book)
<1>1. O \in SUBSET Orders /\ ToSet(s) \intersect O = O
  BY DEF ToSet
<1>2. Halfway(end, O)
  BY <1>1, AccumulatedHalfway
<1> HIDE DEF end
<1>3. Divides(end.released, O \ end.wave) /\ end.wave \in SUBSET Orders /\ end.wave \subseteq O
  BY <1>2 DEF Halfway, Accs
<1>4. CASE end.wave = {}
  BY <1>3, <1>4 DEF Released, end
<1>5. CASE end.wave # {}
  <2>1. Divides(Append(end.released, end.wave), (O \ end.wave) \union end.wave)
    BY <1>3, DividesAppend
  <2>2. (O \ end.wave) \union end.wave = O
    BY <1>3
  <2> QED BY <1>5, <2>1, <2>2 DEF Released, end
<1> QED BY <1>4, <1>5

(* No two run groups have one slug, so no two waves one id.  The code does *)
(* not see to it: MCWaveRunTwice has two groups with one slug, and         *)
(* CountedOnce fails.                                                      *)
SlugsDistinct == \A a, b \in Labels : Slug(a) = Slug(b) => a = b

LEMMA TotalCartonsType ==
  ASSUME NEW order \in OrderForms
  PROVE  TotalCartons(order) \in Nat
<1> DEFINE L == order.lines
           D == DOMAIN L
           f == [i \in D |-> L[i].qty]
<1>1. L \in Seq([sku : Skus, qty : Nat])
  BY DEF OrderForms
<1>4. TotalCartons(order) = SumFunctionOnSet(f, D)
  BY DEF TotalCartons, Total, SumFunction
<1> HIDE DEF L
<1>2. D = 1 .. Len(L) /\ Len(L) \in Nat
  BY <1>1
<1>3. Addends(f, D, Nat)
  <2>0. \A i \in D : L[i] \in [sku : Skus, qty : Nat]
    <3> DEFINE R == [sku : Skus, qty : Nat]
    <3>1. L \in Seq(R)
      BY <1>1
    <3> HIDE DEF R, L, D, f
    <3>2. \A i \in 1 .. Len(L) : L[i] \in R
      BY <3>1, ElementOfSeq
    <3>3. \A i \in D : L[i] \in R
      BY <1>2, <3>2
    <3> QED BY <3>3 DEF R
  <2>1. \A i \in D : f[i] \in Nat
    BY <2>0
  <2>2. IsFiniteSet(D)
    BY <1>2, FS_Interval
  <2> HIDE DEF f, D
  <2> QED BY <2>1, <2>2 DEF Addends
<1> HIDE DEF f, D
<1> QED BY <1>3, <1>4, SumType

(* What plan_waves makes of the orders due.                                *)
WavePlan(P, X, grp) ==
  /\ IsFiniteSet(P)
  /\ \A w \in P : w.orders \in SUBSET X /\ w.stream = w.id[2]
  /\ \A w \in P : \A so \in w.orders : grp[so].run_group = w.run_group /\ grp[so].stream = w.stream
  /\ \A so \in X : \E w \in P : so \in w.orders
  /\ \A w, v \in P : \A so : so \in w.orders /\ so \in v.orders => w = v
  /\ SlugsDistinct => \A w, v \in P : w.id = v.id => w = v

LEMMA PlanWavesPlan ==
  ASSUME NEW s \in Seq(Orders), IsInjective(s), NEW book \in [Orders -> OrderForms],
         NEW grp, \A so \in ToSet(s) : grp[so] \in Groups, NEW inc \in BOOLEAN
  PROVE  WavePlan(PlanWaves(s, book, grp, inc), DueOrders(s, grp, inc), grp)
<1> DEFINE X == DueOrders(s, grp, inc)
           O(g) == {so \in X : grp[so] = g}
           waves(g) == IF g.stream \in Waved THEN Released(O(g), s, book) ELSE <<O(g)>>
           emit(g, i) == Emit(g.run_group, g.stream, i, waves(g)[i])
           of(g) == {emit(g, i) : i \in DOMAIN waves(g)}
           K == {grp[so] : so \in X}
           P == UNION {of(g) : g \in K}
<1>1. PlanWaves(s, book, grp, inc) = P
  BY DEF PlanWaves, GroupWaves
<1>2. X \in SUBSET ToSet(s) /\ X \in SUBSET Orders /\ IsFiniteSet(X)
  <2>1. X \in SUBSET ToSet(s) /\ ToSet(s) \in SUBSET Orders
    BY DEF DueOrders, ToSet
  <2>2. IsFiniteSet(DOMAIN s)
    <3>1. DOMAIN s = 1 .. Len(s) /\ Len(s) \in Nat
      OBVIOUS
    <3> QED BY <3>1, FS_Interval
  <2>3. IsFiniteSet(ToSet(s))
    BY <2>2, FiniteImage DEF ToSet
  <2> QED BY <2>1, <2>3, FS_Subset
<1>3. \A g \in K : Divides(waves(g), O(g))
  <2> SUFFICES ASSUME NEW g \in K PROVE Divides(waves(g), O(g))
    OBVIOUS
  <2>1. \A so \in Orders : TotalCartons(book[so]) \in Int
    BY TotalCartonsType
  <2>2. O(g) \in SUBSET ToSet(s) /\ O(g) \in SUBSET Orders
    BY <1>2
  <2> HIDE DEF O
  <2>3. Divides(Released(O(g), s, book), O(g))
    BY <2>1, <2>2, ReleasedDivides
  <2>4. Divides(<<O(g)>>, O(g))
    BY <2>2 DEF Divides
  <2> QED BY <2>3, <2>4
<1>4. \A g \in K : g \in Groups
  BY <1>2
<1>5. \A w \in P : \E g \in K : \E i \in DOMAIN waves(g) : w = emit(g, i)
  OBVIOUS
<1>6. \A g \in K : \A i \in DOMAIN waves(g) : waves(g)[i] \in SUBSET O(g)
  BY <1>3 DEF Divides
<1>7. \A g \in K : \A i \in DOMAIN waves(g) :
        /\ emit(g, i).id = <<Slug(g.run_group), g.stream, i>>
        /\ emit(g, i).run_group = g.run_group /\ emit(g, i).stream = g.stream
        /\ emit(g, i).orders = waves(g)[i]
  BY DEF Emit, MakeWaveId
<1> HIDE DEF waves
<1>8. IsFiniteSet(P)
  <2>1. IsFiniteSet(K)
    <3> HIDE DEF X
    <3> QED BY <1>2, FiniteImage
  <2> DEFINE f == [g \in K |-> of(g)]
  <2>2. IsFiniteSet({f[g] : g \in K})
    <3> HIDE DEF f, K
    <3> QED BY <2>1, FiniteImage
  <2>3. \A g \in K : IsFiniteSet(of(g))
    <3> SUFFICES ASSUME NEW g \in K PROVE IsFiniteSet(of(g))
      OBVIOUS
    <3> DEFINE D == DOMAIN waves(g)
               h == [i \in D |-> emit(g, i)]
    <3>1. D = 1 .. Len(waves(g)) /\ Len(waves(g)) \in Nat
      BY <1>3 DEF Divides
    <3>2. IsFiniteSet(D)
      BY <3>1, FS_Interval
    <3>3. of(g) = {h[i] : i \in D}
      OBVIOUS
    <3> HIDE DEF h, D, of
    <3> QED BY <3>2, <3>3, FiniteImage
  <2>4. {f[g] : g \in K} = {of(g) : g \in K}
    OBVIOUS
  <2> DEFINE W == {of(g) : g \in K}
  <2>5. IsFiniteSet(W) /\ \A T \in W : IsFiniteSet(T)
    BY <2>2, <2>3, <2>4
  <2> HIDE DEF W
  <2>6. IsFiniteSet(UNION W)
    BY <2>5, FS_UNION
  <2> QED BY <2>6 DEF W
<1>9. \A w \in P : /\ w.orders \in SUBSET X /\ w.stream = w.id[2]
                   /\ \A so \in w.orders : grp[so].run_group = w.run_group /\ grp[so].stream = w.stream
  <2> SUFFICES ASSUME NEW g \in K, NEW i \in DOMAIN waves(g)
               PROVE  LET w == emit(g, i)
                      IN  /\ w.orders \in SUBSET X /\ w.stream = w.id[2]
                          /\ \A so \in w.orders : grp[so].run_group = w.run_group /\ grp[so].stream = w.stream
    BY <1>5
  <2>1. waves(g)[i] \in SUBSET O(g)
    BY <1>6
  <2> HIDE DEF emit
  <2> QED BY <1>7, <2>1
<1>10. \A so \in X : \E w \in P : so \in w.orders
  <2> SUFFICES ASSUME NEW so \in X PROVE \E w \in P : so \in w.orders
    OBVIOUS
  <2> DEFINE g == grp[so]
  <2>1. g \in K /\ so \in O(g)
    OBVIOUS
  <2> HIDE DEF g
  <2>2. PICK i \in DOMAIN waves(g) : so \in waves(g)[i]
    BY <1>3, <2>1 DEF Divides
  <2>3. emit(g, i) \in P
    BY <2>1
  <2> HIDE DEF emit, P
  <2> QED BY <1>7, <2>1, <2>2, <2>3
<1>11. \A w, v \in P : \A so : so \in w.orders /\ so \in v.orders => w = v
  <2> SUFFICES ASSUME NEW w \in P, NEW v \in P, NEW so, so \in w.orders, so \in v.orders
               PROVE  w = v
    OBVIOUS
  <2>a. PICK g \in K : \E i \in DOMAIN waves(g) : w = emit(g, i)
    BY <1>5
  <2>1. PICK i \in DOMAIN waves(g) : w = emit(g, i)
    BY <2>a
  <2>b. PICK h \in K : \E j \in DOMAIN waves(h) : v = emit(h, j)
    BY <1>5
  <2>2. PICK j \in DOMAIN waves(h) : v = emit(h, j)
    BY <2>b
  <2> HIDE DEF emit
  <2>3. so \in waves(g)[i] /\ so \in waves(h)[j]
    BY <1>7, <2>1, <2>2
  <2>4. g = grp[so] /\ h = grp[so]
    BY <1>6, <2>3
  <2>5. i = j
    BY <1>3, <2>3, <2>4 DEF Divides
  <2> QED BY <2>1, <2>2, <2>4, <2>5
<1>12. SlugsDistinct => \A w, v \in P : w.id = v.id => w = v
  <2> SUFFICES ASSUME SlugsDistinct, NEW w \in P, NEW v \in P, w.id = v.id
               PROVE  w = v
    OBVIOUS
  <2>a. PICK g \in K : \E i \in DOMAIN waves(g) : w = emit(g, i)
    BY <1>5
  <2>1. PICK i \in DOMAIN waves(g) : w = emit(g, i)
    BY <2>a
  <2>b. PICK h \in K : \E j \in DOMAIN waves(h) : v = emit(h, j)
    BY <1>5
  <2>2. PICK j \in DOMAIN waves(h) : v = emit(h, j)
    BY <2>b
  <2> HIDE DEF emit
  <2>3. Slug(g.run_group) = Slug(h.run_group) /\ g.stream = h.stream /\ i = j
    <3>1. w.id = <<Slug(g.run_group), g.stream, i>> /\ v.id = <<Slug(h.run_group), h.stream, j>>
      BY <1>7, <2>1, <2>2
    <3>2. <<Slug(g.run_group), g.stream, i>> = <<Slug(h.run_group), h.stream, j>>
      BY <3>1
    <3> QED BY ONLY <3>2
  <2>4. g \in Groups /\ h \in Groups
    BY <1>4
  <2>5. g.run_group = h.run_group
    BY <2>3, <2>4 DEF SlugsDistinct, Groups
  <2>6. g = h
    BY <2>3, <2>4, <2>5 DEF Groups
  <2> QED BY <2>1, <2>2, <2>3, <2>6
<1> HIDE DEF P, X
<1>13. WavePlan(P, X, grp)
  BY <1>8, <1>9, <1>10, <1>11, <1>12 DEF WavePlan
<1> QED BY <1>1, <1>13 DEF X

----------------------------------------------------------------------------
(***************************************************************************)
(* split_line and wave_picks: the parts of a line come to the line, the picks *)
(* of an order to the order, the rows of a sheet to its orders.            *)
(***************************************************************************)
(* What adds nothing may be left out.                                      *)
LEMMA SumSubset ==
  ASSUME NEW S, NEW f, Addends(f, S, Int), NEW T \in SUBSET S, \A x \in S \ T : f[x] = 0
  PROVE  SumFunctionOnSet(f, T) = SumFunctionOnSet(f, S)
<1> DEFINE sum(U) == SumFunctionOnSet(f, U)
           R == S \ T
           G == {U \in SUBSET R : sum(T \union U) = sum(T)}
<1>1. \A U \in SUBSET R : U # {} /\ (\A x \in U : U \ {x} \in G) => U \in G
  <2> SUFFICES ASSUME NEW U \in SUBSET R, NEW x \in U, U \ {x} \in G
               PROVE  sum(T \union U) = sum(T)
    OBVIOUS
  <2> DEFINE V == T \union U
             W == T \union (U \ {x})
  <2>1. V \in SUBSET S /\ x \in V /\ V \ {x} = W /\ f[x] = 0 /\ sum(W) = sum(T)
    OBVIOUS
  <2>2. Addends(f, V, Int)
    BY <2>1, AddendsOfSubset
  <2> HIDE DEF V, W, sum
  <2>3. sum(V) = f[x] + sum(V \ {x})
    BY <2>1, <2>2, SumPick DEF sum
  <2>4. sum(T) \in Int
    BY SumType DEF sum
  <2>5. sum(V \ {x}) = sum(W)
    BY <2>1
  <2>6. sum(V) = sum(T)
    BY <2>1, <2>3, <2>4, <2>5
  <2> QED BY <2>6 DEF V
<1>2. G = SUBSET R
  <2>1. G \in SUBSET (SUBSET R) /\ {} \in G
    <3>1. T \union {} = T
      OBVIOUS
    <3> QED BY <3>1
  <2>2. IsFiniteSet(R)
    BY FS_Subset DEF Addends
  <2> HIDE DEF G, R
  <2> QED BY <1>1, <2>1, <2>2, SetInduction
<1>3. sum(T \union R) = sum(T) /\ T \union R = S
  BY <1>2
<1> QED BY <1>3

LEMMA FinitePair ==
  ASSUME NEW x, NEW y
  PROVE  IsFiniteSet({x, y})
<1> DEFINE X == {x}
           Y == {y}
<1>1. IsFiniteSet(X) /\ IsFiniteSet(Y)
  BY FS_Singleton
<1>2. {x, y} = X \union Y
  OBVIOUS
<1> HIDE DEF X, Y
<1>3. IsFiniteSet(X \union Y)
  BY <1>1, FS_Union
<1> QED BY <1>2, <1>3

LEMMA SumPair ==
  ASSUME NEW x, NEW y, x # y, NEW f, f[x] \in Int, f[y] \in Int
  PROVE  SumFunctionOnSet(f, {x, y}) = f[x] + f[y]
<1>1. Addends(f, {x, y}, Int)
  BY FinitePair DEF Addends
<1>2. {x, y} \ {x} = {y}
  OBVIOUS
<1>3. SumFunctionOnSet(f, {x, y}) = f[x] + SumFunctionOnSet(f, {x, y} \ {x})
  BY <1>1, SumPick
<1> QED BY <1>2, <1>3, SumSingleton

(* The units of a product that a row or a part of a line stands for.       *)
SkuUnits(row, sku) == IF row.sku = sku THEN Units(row) ELSE 0

LineForms == [sku : Skus, qty : Nat]
PartForms == [sku : Skus, uom : {"CTN", "EA"}, qty : Nat, eaches : Int]

LEMMA DivMod ==
  ASSUME NEW q \in Nat, NEW n \in Nat, n > 0
  PROVE  /\ q \div n \in Nat /\ q % n \in Nat
         /\ (q \div n) * n + (q % n) = q
OBVIOUS

LEMMA UnitsType ==
  ASSUME NEW row, row.sku \in Skus, row.qty \in Int
  PROVE  /\ Units(row) \in Int
         /\ Dims[row.sku].inner_pack_qty \in Nat
<1>1. Dims[row.sku] \in [inner_pack_qty : Nat, cartons_per_pallet : Nat,
                         cube : Nat, pickbench : Bench, full_pallet_brand : BOOLEAN]
  BY DimsAssumption
<1>2. Dims[row.sku].inner_pack_qty \in Nat
  BY <1>1
<1> QED BY <1>2 DEF Units

(* A line is split into parts that come to what was ordered.               *)
LEMMA SplitLineUnits ==
  ASSUME NEW l \in LineForms, NEW sku, NEW f,
         \A p \in SplitLine(l) : f[p] = SkuUnits(p, sku)
  PROVE  /\ SplitLine(l) \in SUBSET PartForms /\ IsFiniteSet(SplitLine(l))
         /\ \A p \in SplitLine(l) : p.sku = l.sku
         /\ SumFunctionOnSet(f, SplitLine(l)) = IF l.sku = sku THEN l.qty ELSE 0
<1> DEFINE n == Dims[l.sku].inner_pack_qty
           q == l.qty
           whole == Part(l, "EA", q, 0)
           cartons == Part(l, "CTN", q \div n, q - Remainder(l))
           rest == Part(l, "EA", Remainder(l), 0)
<1>1. l.sku \in Skus /\ q \in Nat /\ n \in Nat
  BY UnitsType DEF LineForms
<1>2. /\ whole.sku = l.sku /\ whole.uom = "EA" /\ whole.qty = q
      /\ cartons.sku = l.sku /\ cartons.uom = "CTN" /\ cartons.qty = q \div n
      /\ rest.sku = l.sku /\ rest.uom = "EA" /\ rest.qty = q % n
  BY DEF Part, Remainder
<1>3. whole \in PartForms
  BY <1>1 DEF Part, PartForms
<1>4. CASE ~Converts(l)
  <2>1. SplitLine(l) = {whole}
    BY <1>4 DEF SplitLine
  <2>2. SkuUnits(whole, sku) = IF l.sku = sku THEN q ELSE 0
    BY <1>2 DEF SkuUnits, Units
  <2>3. f[whole] = IF l.sku = sku THEN q ELSE 0
    BY <2>1, <2>2
  <2>5. f[whole] \in Int
    BY <1>1, <2>3
  <2> HIDE DEF whole
  <2>4. SumFunctionOnSet(f, {whole}) = f[whole]
    BY <2>5, SumSingleton
  <2> QED BY <1>2, <1>3, <2>1, <2>3, <2>4, FS_Singleton
<1>5. CASE Converts(l)
  <2>0. n > 0
    BY <1>1, <1>5 DEF Converts
  <2>1. /\ q \div n \in Nat /\ q % n \in Nat /\ (q \div n) * n + (q % n) = q
    BY <1>1, <2>0, DivMod
  <2>2. Remainder(l) = q % n
    BY DEF Remainder
  <2>3. cartons \in PartForms /\ rest \in PartForms
    BY <1>1, <2>1, <2>2 DEF Part, PartForms
  <2>4. /\ SkuUnits(cartons, sku) = IF l.sku = sku THEN (q \div n) * n ELSE 0
        /\ SkuUnits(rest, sku) = IF l.sku = sku THEN q % n ELSE 0
    BY <1>2 DEF SkuUnits, Units
  <2>5. (q \div n) * n \in Int
    BY <1>1, <2>1
  <2>6. CASE Remainder(l) > 0
    <3>1. SplitLine(l) = {cartons, rest}
      BY <1>5, <2>6 DEF SplitLine
    <3>2. f[cartons] = SkuUnits(cartons, sku) /\ f[rest] = SkuUnits(rest, sku) /\ cartons # rest
      BY <1>2, <3>1
    <3>3. f[cartons] \in Int /\ f[rest] \in Int
      BY <2>1, <2>4, <2>5, <3>2
    <3> HIDE DEF cartons, rest, n, q
    <3>4. SumFunctionOnSet(f, {cartons, rest}) = f[cartons] + f[rest]
      BY <3>2, <3>3, SumPair
    <3>5. IsFiniteSet({cartons, rest})
      BY FinitePair
    <3>6. f[cartons] + f[rest] = IF l.sku = sku THEN q ELSE 0
      BY <2>1, <2>4, <2>5, <3>2
    <3> QED BY <1>2, <2>3, <3>1, <3>4, <3>5, <3>6 DEF q
  <2>7. CASE ~(Remainder(l) > 0)
    <3>1. SplitLine(l) = {cartons}
      BY <1>5, <2>7 DEF SplitLine
    <3>2. f[cartons] = SkuUnits(cartons, sku)
      BY <3>1
    <3>3. q % n = 0 /\ (q \div n) * n = q
      BY <1>1, <2>1, <2>2, <2>7
    <3>4. f[cartons] = IF l.sku = sku THEN q ELSE 0
      BY <2>4, <3>2, <3>3
    <3> HIDE DEF cartons, n, q
    <3>5. SumFunctionOnSet(f, {cartons}) = f[cartons]
      BY <1>1, <3>4, SumSingleton
    <3> QED BY <1>2, <2>3, <3>1, <3>4, <3>5, FS_Singleton DEF q
  <2> QED BY <2>6, <2>7
<1> QED BY <1>4, <1>5

LEMMA SplitLineParts ==
  ASSUME NEW l \in LineForms
  PROVE  /\ SplitLine(l) \in SUBSET PartForms /\ IsFiniteSet(SplitLine(l))
         /\ \A p \in SplitLine(l) : p.sku = l.sku
<1> DEFINE f == [p \in SplitLine(l) |-> SkuUnits(p, l.sku)]
<1>1. \A p \in SplitLine(l) : f[p] = SkuUnits(p, l.sku)
  OBVIOUS
<1> HIDE DEF f
<1> QED BY <1>1, SplitLineUnits

IsPick(p) == p.part \in PartForms

LEMMA PickFields ==
  ASSUME NEW so, NEW i, NEW part, NEW stock, NEW exported
  PROVE  LET p == Pick(so, i, part, stock, exported)
         IN  p.so = so /\ p.line = i /\ p.part = part
BY DEF Pick

LEMMA SkuUnitsType ==
  ASSUME NEW row, row.sku \in Skus, row.qty \in Int, NEW sku
  PROVE  SkuUnits(row, sku) \in Int
BY UnitsType DEF SkuUnits

LineUnits(l, sku) == IF l.sku = sku THEN l.qty ELSE 0

LinePicks(so, i, l, stock, exported) ==
  {Pick(so, i, part, stock, exported) : part \in {p \in SplitLine(l) : p.qty > 0}}

LEMMA LinePicksType ==
  ASSUME NEW so, NEW i, NEW l \in LineForms, NEW stock, NEW exported
  PROVE  /\ IsFiniteSet(LinePicks(so, i, l, stock, exported))
         /\ \A p \in LinePicks(so, i, l, stock, exported) :
              p.so = so /\ p.line = i /\ IsPick(p) /\ p.part.sku = l.sku
<1> DEFINE L == LinePicks(so, i, l, stock, exported)
           S == SplitLine(l)
           T == {p \in S : p.qty > 0}
           b == [p \in T |-> Pick(so, i, p, stock, exported)]
<1>1. S \in SUBSET PartForms /\ IsFiniteSet(S) /\ \A p \in S : p.sku = l.sku
  BY SplitLineParts
<1>2. L = {b[p] : p \in T}
  BY DEF LinePicks
<1>3. \A p \in T : b[p].so = so /\ b[p].line = i /\ b[p].part = p
  BY PickFields
<1>4. IsFiniteSet(T)
  BY <1>1, FS_Subset
<1>5. IsFiniteSet(L)
  <2> HIDE DEF L, T, b
  <2> QED BY <1>2, <1>4, FiniteImage
<1>6. \A p \in L : p.so = so /\ p.line = i /\ IsPick(p) /\ p.part.sku = l.sku
  <2> SUFFICES ASSUME NEW p \in T
               PROVE b[p].so = so /\ b[p].line = i /\ IsPick(b[p]) /\ b[p].part.sku = l.sku
    BY <1>2
  <2>1. p \in PartForms /\ p.sku = l.sku
    BY <1>1
  <2> HIDE DEF b, T
  <2> QED BY <1>3, <2>1 DEF IsPick
<1> QED BY <1>5, <1>6

LEMMA LinePicksUnits ==
  ASSUME NEW so, NEW i, NEW l \in LineForms, NEW stock, NEW exported, NEW sku, NEW f,
         \A p \in LinePicks(so, i, l, stock, exported) : f[p] = SkuUnits(p.part, sku)
  PROVE  SumFunctionOnSet(f, LinePicks(so, i, l, stock, exported))
           = LineUnits(l, sku)
<1> DEFINE L == LinePicks(so, i, l, stock, exported)
           S == SplitLine(l)
           T == {p \in S : p.qty > 0}
           g == [p \in S |-> SkuUnits(p, sku)]
           b == [p \in T |-> Pick(so, i, p, stock, exported)]
           h == [p \in T |-> SkuUnits(p, sku)]
           want == IF l.sku = sku THEN l.qty ELSE 0
<1>0. S \in SUBSET PartForms /\ IsFiniteSet(S) /\ \A p \in S : p.sku = l.sku
  BY SplitLineParts
<1>1. SumFunctionOnSet(g, S) = want
  <2>1. \A p \in S : g[p] = SkuUnits(p, sku)
    OBVIOUS
  <2> HIDE DEF g
  <2> QED BY <2>1, SplitLineUnits
<1>2. \A p \in S : p.sku \in Skus /\ p.qty \in Nat
  BY <1>0 DEF PartForms
<1>3. Addends(g, S, Int)
  BY <1>0, <1>2, SkuUnitsType DEF Addends
<1>4. \A p \in S \ T : g[p] = 0
  <2> SUFFICES ASSUME NEW p \in S, ~(p.qty > 0) PROVE SkuUnits(p, sku) = 0
    OBVIOUS
  <2>1. p.qty = 0
    BY <1>2
  <2>2. p.sku \in Skus /\ p.qty \in Int
    BY <1>2, <2>1
  <2>3. Dims[p.sku].inner_pack_qty \in Nat
    BY <2>2, UnitsType
  <2> QED BY <2>1, <2>3 DEF SkuUnits, Units
<1>5. SumFunctionOnSet(g, T) = want
  <2>1. T \in SUBSET S
    OBVIOUS
  <2> HIDE DEF T, g, want
  <2> QED BY <1>1, <1>3, <1>4, <2>1, SumSubset
<1>6. L = {b[p] : p \in T}
  BY DEF LinePicks
<1>7. \A p \in T : b[p].so = so /\ b[p].line = i /\ b[p].part = p
  BY PickFields
<1>8. IsFiniteSet(T) /\ Addends(g, T, Int)
  BY <1>0, <1>3, FS_Subset, AddendsOfSubset
<1>9. IsFiniteSet(L)
  <2> HIDE DEF S, T, g, b, h, want
  <2> QED BY LinePicksType
<1>11. SumFunctionOnSet(f, L) = want
  <2>1. \A x, y \in T : b[x] = b[y] => x = y
    <3> HIDE DEF b, T
    <3> QED BY <1>7
  <2>2. b \in [T -> L] /\ \A s \in L : \E x \in T : b[x] = s
    BY <1>6
  <2>3. \A x \in T : g[x] = f[b[x]]
    <3> SUFFICES ASSUME NEW x \in T PROVE SkuUnits(x, sku) = f[b[x]]
      OBVIOUS
    <3>1. f[b[x]] = SkuUnits(b[x].part, sku)
      BY <2>2
    <3> HIDE DEF b, T
    <3> QED BY <1>7, <3>1
  <2>4. \A p \in L : f[p] \in Int
    <3> SUFFICES ASSUME NEW x \in T PROVE f[b[x]] \in Int
      BY <1>6
    <3>1. g[x] \in Int
      BY <1>8 DEF Addends
    <3> QED BY <2>3, <3>1
  <2>5. Addends(f, L, Int)
    BY <1>9, <2>4 DEF Addends
  <2> HIDE DEF b, T, L, g, want
  <2>6. SumFunctionOnSet(g, T) = SumFunctionOnSet(f, L)
    BY ONLY <1>8, <1>9, <2>1, <2>2, <2>3, <2>5, SumAlong
  <2> QED BY <1>5, <2>6
<1> QED BY <1>11 DEF LineUnits

(* What a line with a quantity is picked by.                               *)
LEMMA LinePicksSome ==
  ASSUME NEW so, NEW i, NEW l \in LineForms, NEW stock, NEW exported, l.qty > 0
  PROVE  \E p \in LinePicks(so, i, l, stock, exported) : TRUE
<1> DEFINE L == LinePicks(so, i, l, stock, exported)
           f == [p \in L |-> SkuUnits(p.part, l.sku)]
<1>1. SumFunctionOnSet(f, L) = l.qty
  <2>1. \A p \in LinePicks(so, i, l, stock, exported) : f[p] = SkuUnits(p.part, l.sku)
    OBVIOUS
  <2> HIDE DEF f, L
  <2>2. SumFunctionOnSet(f, LinePicks(so, i, l, stock, exported))
          = LineUnits(l, l.sku)
    BY ONLY <2>1, LinePicksUnits, l \in LineForms
  <2> QED BY <2>2 DEF L, LineUnits
<1>2. L # {}
  <2> SUFFICES ASSUME L = {} PROVE FALSE
    OBVIOUS
  <2> HIDE DEF L, f
  <2>1. SumFunctionOnSet(f, L) = 0
    BY SumEmpty
  <2> QED BY <1>1, <2>1
<1> QED BY <1>2

(* What an order asks of a product.                                        *)
OrderUnits(order, sku) ==
  Total(order, LAMBDA l : IF l.sku = sku THEN l.qty ELSE 0)

LEMMA OrderPicksUnits ==
  ASSUME NEW so, NEW order \in OrderForms, NEW stock, NEW exported, NEW sku, NEW f,
         \A p \in OrderPicks(so, order, stock, exported) : f[p] = SkuUnits(p.part, sku)
  PROVE  /\ IsFiniteSet(OrderPicks(so, order, stock, exported))
         /\ \A p \in OrderPicks(so, order, stock, exported) : p.so = so /\ IsPick(p)
         /\ SumFunctionOnSet(f, OrderPicks(so, order, stock, exported)) = OrderUnits(order, sku)
<1> DEFINE P == OrderPicks(so, order, stock, exported)
           D == DOMAIN order.lines
           L(i) == LinePicks(so, i, order.lines[i], stock, exported)
           key == [p \in P |-> p.line]
           g == [i \in D |-> IF order.lines[i].sku = sku THEN order.lines[i].qty ELSE 0]
<1>1. order.lines \in Seq(LineForms)
  BY DEF OrderForms, LineForms
<1>2. D = 1 .. Len(order.lines) /\ Len(order.lines) \in Nat
  BY <1>1
<1>3. IsFiniteSet(D)
  BY <1>2, FS_Interval
<1>4. \A i \in D : order.lines[i] \in LineForms
  BY <1>1, <1>2, ElementOfSeq
<1>5. P = UNION {L(i) : i \in D}
  BY DEF OrderPicks, LinePicks
<1>6. \A i \in D : /\ IsFiniteSet(L(i))
                   /\ \A p \in L(i) : p.so = so /\ p.line = i /\ IsPick(p)
                   /\ SumFunctionOnSet(f, L(i)) = g[i]
  <2> SUFFICES ASSUME NEW i \in D
               PROVE  /\ IsFiniteSet(L(i))
                      /\ \A p \in L(i) : p.so = so /\ p.line = i /\ IsPick(p)
                      /\ SumFunctionOnSet(f, L(i)) = g[i]
    OBVIOUS
  <2>1. \A p \in L(i) : f[p] = SkuUnits(p.part, sku)
    BY <1>5
  <2> DEFINE l == order.lines[i]
  <2>2. l \in LineForms /\ g[i] = IF l.sku = sku THEN l.qty ELSE 0
    BY <1>4
  <2>a. l \in LineForms
    BY <2>2
  <2>3. L(i) = LinePicks(so, i, l, stock, exported)
    OBVIOUS
  <2> HIDE DEF L, l, g, P, D
  <2>4. \A p \in LinePicks(so, i, l, stock, exported) : f[p] = SkuUnits(p.part, sku)
    BY <2>1, <2>3
  <2>5. SumFunctionOnSet(f, LinePicks(so, i, l, stock, exported))
          = LineUnits(l, sku)
    BY ONLY <2>4, <2>a, LinePicksUnits
  <2>6. /\ IsFiniteSet(LinePicks(so, i, l, stock, exported))
        /\ \A p \in LinePicks(so, i, l, stock, exported) :
             p.so = so /\ p.line = i /\ IsPick(p) /\ p.part.sku = l.sku
    BY ONLY <2>a, LinePicksType
  <2> QED BY <2>2, <2>3, <2>5, <2>6 DEF LineUnits
<1> HIDE DEF L
<1>7. \A p \in P : p.line \in D /\ p \in L(p.line)
  <2> SUFFICES ASSUME NEW p \in P PROVE p.line \in D /\ p \in L(p.line)
    OBVIOUS
  <2>1. PICK i \in D : p \in L(i)
    BY <1>5
  <2> QED BY <1>6, <2>1
<1>8. IsFiniteSet(P)
  <2> DEFINE e == [i \in D |-> L(i)]
             W == {e[i] : i \in D}
  <2>1. IsFiniteSet(W)
    <3> HIDE DEF e, D
    <3> QED BY <1>3, FiniteImage
  <2>2. \A T \in W : IsFiniteSet(T)
    BY <1>6
  <2>3. P = UNION W
    BY <1>5
  <2> HIDE DEF W, P
  <2> QED BY <2>1, <2>2, <2>3, FS_UNION
<1>9. \A p \in P : p.so = so /\ IsPick(p) /\ p.line \in D
  BY <1>6, <1>7
<1>10. Addends(f, P, Int)
  <2> SUFFICES ASSUME NEW p \in P PROVE f[p] \in Int
    BY <1>8 DEF Addends
  <2>1. p.part.sku \in Skus /\ p.part.qty \in Int
    BY <1>9 DEF IsPick, PartForms
  <2> QED BY <2>1, SkuUnitsType
<1>11. \A i \in D : {p \in P : key[p] = i} = L(i)
  <2> SUFFICES ASSUME NEW i \in D PROVE {p \in P : p.line = i} = L(i)
    OBVIOUS
  <2>1. \A p \in L(i) : p \in P /\ p.line = i
    BY <1>5, <1>6
  <2>2. \A p \in P : p.line = i => p \in L(i)
    BY <1>7
  <2> HIDE DEF P
  <2> QED BY <2>1, <2>2
<1>12. /\ SumFunctionOnSet(f, P) = SumFunctionOnSet(Parts(f, P, key, D), D)
       /\ Addends(Parts(f, P, key, D), D, Int)
  <2>1. \A p \in P : key[p] \in D
    BY <1>9
  <2> HIDE DEF key, D, P
  <2> QED BY <1>3, <1>10, <2>1, SumOfParts
<1>13. \A i \in D : g[i] = Parts(f, P, key, D)[i]
  <2> SUFFICES ASSUME NEW i \in D PROVE g[i] = Parts(f, P, key, D)[i]
    OBVIOUS
  <2>1. Parts(f, P, key, D)[i] = SumFunctionOnSet(f, {p \in P : key[p] = i})
    BY DEF Parts
  <2>2. {p \in P : key[p] = i} = L(i) /\ SumFunctionOnSet(f, L(i)) = g[i]
    BY <1>6, <1>11
  <2> HIDE DEF key, g, P, D
  <2> QED BY <2>1, <2>2
<1>14. SumFunctionOnSet(g, D) = SumFunctionOnSet(Parts(f, P, key, D), D)
  <2> HIDE DEF g, D, P, key
  <2> QED BY <1>12, <1>13, SumEqual
<1>15. OrderUnits(order, sku) = SumFunctionOnSet(g, D)
  BY DEF OrderUnits, Total, SumFunction
<1> QED BY <1>8, <1>9, <1>12, <1>14, <1>15

LEMMA OrderPicksType ==
  ASSUME NEW so, NEW order \in OrderForms, NEW stock, NEW exported
  PROVE  /\ IsFiniteSet(OrderPicks(so, order, stock, exported))
         /\ \A p \in OrderPicks(so, order, stock, exported) : p.so = so /\ IsPick(p)
<1> DEFINE f == [p \in OrderPicks(so, order, stock, exported) |-> SkuUnits(p.part, 0)]
<1>1. \A p \in OrderPicks(so, order, stock, exported) : f[p] = SkuUnits(p.part, 0)
  OBVIOUS
<1> HIDE DEF f
<1> QED BY <1>1, OrderPicksUnits

LEMMA FiniteUnion ==
  ASSUME NEW X, IsFiniteSet(X), NEW e, \A x \in X : IsFiniteSet(e[x])
  PROVE  IsFiniteSet(UNION {e[x] : x \in X})
<1> DEFINE W == {e[x] : x \in X}
<1>1. IsFiniteSet(W)
  BY FiniteImage
<1>2. \A T \in W : IsFiniteSet(T)
  OBVIOUS
<1> HIDE DEF W
<1>3. IsFiniteSet(UNION W)
  BY <1>1, <1>2, FS_UNION
<1> QED BY <1>3 DEF W

LEMMA PicksOfType ==
  ASSUME NEW O \in SUBSET Orders, IsFiniteSet(O), NEW book \in [Orders -> OrderForms],
         NEW stock, NEW exported
  PROVE  /\ IsFiniteSet(PicksOf(O, book, stock, exported))
         /\ \A p \in PicksOf(O, book, stock, exported) :
              p.so \in O /\ p \in OrderPicks(p.so, book[p.so], stock, exported) /\ IsPick(p)
<1> DEFINE P == PicksOf(O, book, stock, exported)
           e == [so \in O |-> OrderPicks(so, book[so], stock, exported)]
<1>1. \A so \in O : IsFiniteSet(e[so]) /\ \A p \in e[so] : p.so = so /\ IsPick(p)
  BY OrderPicksType
<1>2. P = UNION {e[so] : so \in O}
  BY DEF PicksOf
<1>3. IsFiniteSet(P)
  <2> HIDE DEF P, e
  <2> QED BY <1>1, <1>2, FiniteUnion
<1>4. \A p \in P : p.so \in O /\ p \in e[p.so] /\ IsPick(p)
  <2> HIDE DEF P, e
  <2> QED BY <1>1, <1>2
<1> QED BY <1>3, <1>4

OrderedUnits(O, book, sku) == SumFunction([so \in O |-> OrderUnits(book[so], sku)])

(* An order's picks come to its lines, so the picks of a set of orders do. *)
LEMMA PicksOfUnits ==
  ASSUME NEW O \in SUBSET Orders, IsFiniteSet(O), NEW book \in [Orders -> OrderForms],
         NEW stock, NEW exported, NEW sku, NEW f,
         \A p \in PicksOf(O, book, stock, exported) : f[p] = SkuUnits(p.part, sku)
  PROVE  /\ Addends(f, PicksOf(O, book, stock, exported), Int)
         /\ SumFunctionOnSet(f, PicksOf(O, book, stock, exported)) = OrderedUnits(O, book, sku)
<1> DEFINE P == PicksOf(O, book, stock, exported)
           E(so) == OrderPicks(so, book[so], stock, exported)
           key == [p \in P |-> p.so]
           g == [so \in O |-> OrderUnits(book[so], sku)]
<1>1. IsFiniteSet(P) /\ \A p \in P : p.so \in O /\ p \in E(p.so) /\ IsPick(p)
  BY PicksOfType
<1>2. P = UNION {E(so) : so \in O}
  BY DEF PicksOf
<1>3. \A so \in O : (\A p \in E(so) : p.so = so) /\ SumFunctionOnSet(f, E(so)) = g[so]
  <2> SUFFICES ASSUME NEW so \in O
               PROVE (\A p \in E(so) : p.so = so) /\ SumFunctionOnSet(f, E(so)) = OrderUnits(book[so], sku)
    OBVIOUS
  <2>1. book[so] \in OrderForms
    OBVIOUS
  <2>2. \A p \in E(so) : f[p] = SkuUnits(p.part, sku)
    BY <1>2
  <2> QED BY <2>1, <2>2, OrderPicksUnits, OrderPicksType
<1>4. Addends(f, P, Int)
  <2> SUFFICES ASSUME NEW p \in P PROVE f[p] \in Int
    BY <1>1 DEF Addends
  <2>1. p.part.sku \in Skus /\ p.part.qty \in Int
    BY <1>1 DEF IsPick, PartForms
  <2> QED BY <2>1, SkuUnitsType
<1>5. \A so \in O : {p \in P : key[p] = so} = E(so)
  <2> SUFFICES ASSUME NEW so \in O PROVE {p \in P : p.so = so} = E(so)
    OBVIOUS
  <2>1. \A p \in E(so) : p \in P /\ p.so = so
    BY <1>2, <1>3
  <2>2. \A p \in P : p.so = so => p \in E(so)
    BY <1>1
  <2> HIDE DEF P
  <2> QED BY <2>1, <2>2
<1>6. /\ SumFunctionOnSet(f, P) = SumFunctionOnSet(Parts(f, P, key, O), O)
      /\ Addends(Parts(f, P, key, O), O, Int)
  <2>1. \A p \in P : key[p] \in O
    BY <1>1
  <2> HIDE DEF key, P
  <2> QED BY <1>4, <2>1, SumOfParts
<1>7. \A so \in O : g[so] = Parts(f, P, key, O)[so]
  <2> SUFFICES ASSUME NEW so \in O PROVE g[so] = Parts(f, P, key, O)[so]
    OBVIOUS
  <2>1. Parts(f, P, key, O)[so] = SumFunctionOnSet(f, {p \in P : key[p] = so})
    BY DEF Parts
  <2>2. {p \in P : key[p] = so} = E(so) /\ SumFunctionOnSet(f, E(so)) = g[so]
    BY <1>3, <1>5
  <2> HIDE DEF key, g, P, E
  <2> QED BY <2>1, <2>2
<1>8. SumFunctionOnSet(g, O) = SumFunctionOnSet(Parts(f, P, key, O), O)
  <2> HIDE DEF g, P, key
  <2> QED BY <1>6, <1>7, SumEqual
<1>9. OrderedUnits(O, book, sku) = SumFunctionOnSet(g, O)
  BY DEF OrderedUnits, SumFunction
<1> QED BY <1>4, <1>6, <1>8, <1>9

LEMMA RowFields ==
  ASSUME NEW picks, NEW key
  PROVE  LET r == Consolidate(picks, key)
             mine == {p \in picks : RowOf(p) = key}
         IN  /\ r.location = key[1] /\ r.sku = key[2] /\ r.uom = key[3]
             /\ r.qty = SumFunctionOnSet([p \in mine |-> p.part.qty], mine)
             /\ r.so_refs = {p.so : p \in mine}
BY DEF Consolidate, SumFunction

(* What the rows of a sheet hold is what its picks do.                     *)
LEMMA PickLinesUnits ==
  ASSUME NEW Pk, IsFiniteSet(Pk), \A p \in Pk : IsPick(p), NEW sku,
         NEW f, \A p \in Pk : f[p] = SkuUnits(p.part, sku), Addends(f, Pk, Int),
         NEW F, \A r \in PickLines(Pk) : F[r] = SkuUnits(r, sku)
  PROVE  SumFunctionOnSet(F, PickLines(Pk)) = SumFunctionOnSet(f, Pk)
<1> DEFINE at == [p \in Pk |-> RowOf(p)]
           K == {at[p] : p \in Pk}
           R == PickLines(Pk)
           b == [key \in K |-> Consolidate(Pk, key)]
           mine(key) == {p \in Pk : at[p] = key}
           qty(key) == [p \in mine(key) |-> p.part.qty]
           h == Parts(f, Pk, at, K)
<1>1. IsFiniteSet(K)
  <2> HIDE DEF at
  <2> QED BY FiniteImage
<1>2. R = {b[key] : key \in K}
  <2>1. {RowOf(p) : p \in Pk} = K
    OBVIOUS
  <2>2. R = {Consolidate(Pk, key) : key \in {RowOf(p) : p \in Pk}}
    BY DEF PickLines
  <2> HIDE DEF K, R
  <2>3. R = {Consolidate(Pk, key) : key \in K}
    BY <2>1, <2>2
  <2> QED BY <2>3
<1>3. IsFiniteSet(R)
  <2> HIDE DEF R, b, K
  <2> QED BY <1>1, <1>2, FiniteImage
<1>4. \A key \in K : /\ b[key].location = key[1] /\ b[key].sku = key[2] /\ b[key].uom = key[3]
                     /\ b[key].qty = SumFunctionOnSet(qty(key), mine(key))
  <2> SUFFICES ASSUME NEW key \in K
               PROVE  /\ b[key].location = key[1] /\ b[key].sku = key[2] /\ b[key].uom = key[3]
                      /\ b[key].qty = SumFunctionOnSet(qty(key), mine(key))
    OBVIOUS
  <2>1. mine(key) = {p \in Pk : RowOf(p) = key} /\ b[key] = Consolidate(Pk, key)
    OBVIOUS
  <2> HIDE DEF mine, b, K
  <2> QED BY <2>1, RowFields
<1>5. \A key \in K : \A p \in mine(key) : key = <<p.loc, p.part.sku, p.part.uom>> /\ IsPick(p)
  BY DEF RowOf
<1>6. \A key \in K : key = <<key[1], key[2], key[3]>>
  BY DEF RowOf
<1>7. \A x, y \in K : b[x] = b[y] => x = y
  <2> SUFFICES ASSUME NEW x \in K, NEW y \in K, b[x] = b[y] PROVE x = y
    OBVIOUS
  <2>1. x = <<x[1], x[2], x[3]>> /\ y = <<y[1], y[2], y[3]>>
    BY <1>6
  <2>2. /\ b[x].location = x[1] /\ b[x].sku = x[2] /\ b[x].uom = x[3]
        /\ b[y].location = y[1] /\ b[y].sku = y[2] /\ b[y].uom = y[3]
    BY <1>4
  <2> HIDE DEF b, K
  <2>3. x[1] = y[1] /\ x[2] = y[2] /\ x[3] = y[3]
    BY <2>2
  <2> QED BY <2>1, <2>3
<1>8. b \in [K -> R] /\ \A s \in R : \E x \in K : b[x] = s
  BY <1>2
<1>9. /\ SumFunctionOnSet(f, Pk) = SumFunctionOnSet(h, K) /\ Addends(h, K, Int)
  <2>1. \A p \in Pk : at[p] \in K
    OBVIOUS
  <2> HIDE DEF at, K
  <2> QED BY <1>1, <2>1, SumOfParts
<1>10. \A key \in K : h[key] = F[b[key]]
  <2> SUFFICES ASSUME NEW key \in K PROVE h[key] = F[b[key]]
    OBVIOUS
  <2> DEFINE M == mine(key)
             q == qty(key)
             r == b[key]
             n == IF key[2] = sku THEN (IF key[3] = "CTN" THEN Dims[key[2]].inner_pack_qty ELSE 1) ELSE 0
  <2>1. h[key] = SumFunctionOnSet(f, M)
    BY DEF Parts
  <2>2. F[r] = SkuUnits(r, sku)
    BY <1>8
  <2>3. \A p \in M : /\ p.part.sku = key[2] /\ p.part.uom = key[3]
                     /\ p.part.qty \in Int /\ p.part.sku \in Skus /\ p \in Pk
    <3> SUFFICES ASSUME NEW p \in M
                 PROVE  /\ p.part.sku = key[2] /\ p.part.uom = key[3]
                        /\ p.part.qty \in Int /\ p.part.sku \in Skus /\ p \in Pk
      OBVIOUS
    <3>1. key = <<p.loc, p.part.sku, p.part.uom>> /\ p.part \in PartForms
      BY <1>5 DEF IsPick
    <3>2. p \in Pk
      OBVIOUS
    <3> QED BY <3>1, <3>2 DEF PartForms
  <2>4. M # {} /\ M \in SUBSET Pk
    OBVIOUS
  <2>5. Addends(q, M, Int)
    <3>1. IsFiniteSet(M)
      BY <2>4, FS_Subset
    <3> QED BY <2>3, <3>1 DEF Addends
  <2>6. n \in Int
    <3>1. key[2] \in Skus
      BY <2>3, <2>4
    <3>2. Dims[key[2]] \in [inner_pack_qty : Nat, cartons_per_pallet : Nat,
                         cube : Nat, pickbench : Bench, full_pallet_brand : BOOLEAN]
      BY <3>1, DimsAssumption
    <3>3. Dims[key[2]].inner_pack_qty \in Nat
      BY <3>2
    <3> QED BY <3>3
  <2>7. \A p \in M : f[p] = n * q[p]
    <3> SUFFICES ASSUME NEW p \in M PROVE f[p] = n * p.part.qty
      OBVIOUS
    <3>1. /\ p.part.sku = key[2] /\ p.part.uom = key[3] /\ p.part.qty \in Int /\ p \in Pk
      BY <2>3
    <3>2. f[p] = SkuUnits(p.part, sku)
      BY <3>1
    <3>3. f[p] = IF key[2] = sku
                 THEN IF key[3] = "CTN" THEN p.part.qty * Dims[key[2]].inner_pack_qty ELSE p.part.qty
                 ELSE 0
      BY <3>1, <3>2 DEF SkuUnits, Units
    <3> HIDE DEF M
    <3> QED BY <2>6, <3>1, <3>3
  <2>8. SumFunctionOnSet(f, M) = n * SumFunctionOnSet(q, M)
    <3> HIDE DEF M, q, n
    <3> QED BY <2>5, <2>6, <2>7, SumScale
  <2>9. /\ r.sku = key[2] /\ r.uom = key[3] /\ r.qty = SumFunctionOnSet(q, M)
    BY <1>4
  <2>10. SumFunctionOnSet(q, M) \in Int
    <3> HIDE DEF M, q
    <3> QED BY <2>5, AddendsInt
  <2>11. SkuUnits(r, sku) = n * SumFunctionOnSet(q, M)
    <3>1. SkuUnits(r, sku) = IF key[2] = sku
                 THEN IF key[3] = "CTN" THEN r.qty * Dims[key[2]].inner_pack_qty ELSE r.qty
                 ELSE 0
      BY <2>9 DEF SkuUnits, Units
    <3>2. r.qty \in Int /\ r.qty = SumFunctionOnSet(q, M)
      BY <2>9, <2>10
    <3> HIDE DEF M, q, r
    <3> QED BY <2>6, <3>1, <3>2
  <2> HIDE DEF M, q, r, n, h
  <2>12. h[key] = F[r]
    BY <2>1, <2>2, <2>8, <2>11
  <2> QED BY <2>12 DEF r
<1>11. \A s \in R : F[s] \in Int
  <2> HIDE DEF b, K, R, h
  <2> SUFFICES ASSUME NEW x \in K PROVE F[b[x]] \in Int
    BY <1>2
  <2> QED BY <1>9, <1>10 DEF Addends
<1>12. Addends(F, R, Int)
  BY <1>3, <1>11 DEF Addends
<1>13. SumFunctionOnSet(h, K) = SumFunctionOnSet(F, R)
  <2> HIDE DEF b, K, R, h
  <2> QED BY ONLY <1>1, <1>3, <1>7, <1>8, <1>10, <1>12, SumAlong
<1> QED BY <1>9, <1>13

(* A pick has a row, which names its product and its order.                *)
LEMMA PickHasRow ==
  ASSUME NEW Pk, NEW p \in Pk
  PROVE  \E r \in PickLines(Pk) : r.sku = p.part.sku /\ p.so \in r.so_refs
<1> DEFINE key == RowOf(p)
           r == Consolidate(Pk, key)
<1>1. r \in PickLines(Pk)
  BY DEF PickLines
<1>2. r.sku = key[2] /\ r.so_refs = {x.so : x \in {y \in Pk : RowOf(y) = key}}
  BY RowFields
<1>3. key[2] = p.part.sku /\ p.so \in r.so_refs
  BY <1>2 DEF RowOf
<1> QED BY <1>1, <1>2, <1>3

LEMMA OrderUnitsType ==
  ASSUME NEW order \in OrderForms, NEW sku
  PROVE  OrderUnits(order, sku) \in Int
<1> DEFINE D == DOMAIN order.lines
           g == [i \in D |-> IF order.lines[i].sku = sku THEN order.lines[i].qty ELSE 0]
<1>1. order.lines \in Seq(LineForms)
  BY DEF OrderForms, LineForms
<1>2. D = 1 .. Len(order.lines) /\ Len(order.lines) \in Nat
  BY <1>1
<1>3. \A i \in D : order.lines[i] \in LineForms
  BY <1>1, <1>2, ElementOfSeq
<1>4. \A i \in D : g[i] \in Int
  BY <1>3 DEF LineForms
<1>5. Addends(g, D, Int)
  <2>1. IsFiniteSet(D)
    BY <1>2, FS_Interval
  <2> QED BY <1>4, <2>1 DEF Addends
<1>6. OrderUnits(order, sku) = SumFunctionOnSet(g, D)
  BY DEF OrderUnits, Total, SumFunction
<1> QED BY <1>5, <1>6, AddendsInt

LEMMA OrderedAddends ==
  ASSUME NEW O \in SUBSET Orders, IsFiniteSet(O), NEW book \in [Orders -> OrderForms], NEW sku
  PROVE  /\ Addends([so \in O |-> OrderUnits(book[so], sku)], O, Int)
         /\ OrderedUnits(O, book, sku) = SumFunctionOnSet([so \in O |-> OrderUnits(book[so], sku)], O)
         /\ OrderedUnits(O, book, sku) \in Int
<1> DEFINE u == [so \in O |-> OrderUnits(book[so], sku)]
<1>1. \A so \in O : u[so] \in Int
  BY OrderUnitsType
<1>2. Addends(u, O, Int)
  BY <1>1 DEF Addends
<1>3. OrderedUnits(O, book, sku) = SumFunctionOnSet(u, O)
  BY DEF OrderedUnits, SumFunction
<1> QED BY <1>2, <1>3, AddendsInt

----------------------------------------------------------------------------
(***************************************************************************)
(* generate_sheets: a sheet for every wave, and what the sheets hold together. *)
(***************************************************************************)
(* The sheets of waves that divide the orders and have an id each.         *)
Distinct(P, X) ==
  /\ IsFiniteSet(P) /\ IsFiniteSet(X) /\ X \in SUBSET Orders
  /\ \A w \in P : w.orders \in SUBSET X
  /\ \A so \in X : \E w \in P : so \in w.orders
  /\ \A w, v \in P : \A so : so \in w.orders /\ so \in v.orders => w = v
  /\ \A w, v \in P : w.id = v.id => w = v

LEMMA SheetFields ==
  ASSUME NEW P, NEW X, Distinct(P, X), NEW w \in P, NEW book, NEW stock, NEW exported
  PROVE  LET s == Sheet(w, P, book, stock, exported)
         IN  /\ s.wave_id = w.id /\ s.stream = w.stream /\ s.run_group = w.run_group
             /\ s.orders = w.orders
             /\ s.pick_lines = PickLines(PicksOf(w.orders, book, stock, exported))
<1>1. {v \in P : v.id = w.id} = {w}
  BY DEF Distinct
<1>2. WaveOrders(P, w.id) = w.orders
  BY <1>1 DEF WaveOrders
<1> QED BY <1>2 DEF Sheet

(* What a sheet holds of it.                                               *)
SheetUnits(s, sku) ==
  SumFunction([r \in s.pick_lines |-> IF r.sku = sku THEN Units(r) ELSE 0])

LEMMA SheetUnitsOrdered ==
  ASSUME NEW P, NEW X, Distinct(P, X), NEW w \in P, NEW book \in [Orders -> OrderForms],
         NEW stock, NEW exported, NEW sku
  PROVE  SheetUnits(Sheet(w, P, book, stock, exported), sku) = OrderedUnits(w.orders, book, sku)
<1> DEFINE s == Sheet(w, P, book, stock, exported)
           O == w.orders
           Pk == PicksOf(O, book, stock, exported)
           R == PickLines(Pk)
           F == [r \in R |-> IF r.sku = sku THEN Units(r) ELSE 0]
           f == [p \in Pk |-> SkuUnits(p.part, sku)]
<1>1. O \in SUBSET Orders /\ IsFiniteSet(O)
  BY FS_Subset DEF Distinct
<1>2. s.pick_lines = R
  BY SheetFields
<1>3. SheetUnits(s, sku) = SumFunctionOnSet(F, R)
  BY <1>2 DEF SheetUnits, SumFunction
<1>4. \A r \in R : F[r] = SkuUnits(r, sku)
  BY DEF SkuUnits
<1>5. IsFiniteSet(Pk) /\ \A p \in Pk : IsPick(p)
  BY <1>1, PicksOfType
<1>6. \A p \in PicksOf(O, book, stock, exported) : f[p] = SkuUnits(p.part, sku)
  OBVIOUS
<1>7. Addends(f, PicksOf(O, book, stock, exported), Int)
      /\ SumFunctionOnSet(f, PicksOf(O, book, stock, exported)) = OrderedUnits(O, book, sku)
  <2> HIDE DEF f, O
  <2> QED BY <1>1, <1>6, PicksOfUnits
<1>8. SumFunctionOnSet(F, PickLines(Pk)) = SumFunctionOnSet(f, Pk)
  <2>1. \A p \in Pk : f[p] = SkuUnits(p.part, sku)
    BY <1>6
  <2>2. Addends(f, Pk, Int)
    BY <1>7
  <2> HIDE DEF Pk, f, F
  <2> QED BY <1>4, <1>5, <2>1, <2>2, PickLinesUnits
<1> QED BY <1>3, <1>7, <1>8

(* The sheets hold what the orders of the waves asked for.                 *)
LEMMA SheetsUnits ==
  ASSUME NEW P, NEW X, Distinct(P, X), NEW book \in [Orders -> OrderForms],
         NEW stock, NEW exported, NEW sku,
         NEW h, \A s \in GenerateSheets(P, book, stock, exported) : h[s] = SheetUnits(s, sku)
  PROVE  /\ Addends(h, GenerateSheets(P, book, stock, exported), Int)
         /\ SumFunctionOnSet(h, GenerateSheets(P, book, stock, exported)) = OrderedUnits(X, book, sku)
<1> DEFINE sh == [w \in P |-> Sheet(w, P, book, stock, exported)]
           A == {w \in P : sh[w].pick_lines # {}}
           G == GenerateSheets(P, book, stock, exported)
           b == [w \in A |-> sh[w]]
           g == [w \in P |-> OrderedUnits(w.orders, book, sku)]
           u == [so \in X |-> OrderUnits(book[so], sku)]
           key == [so \in X |-> CHOOSE w \in P : so \in w.orders]
           parts == Parts(u, X, key, P)
<1>1. G = {b[w] : w \in A}
  BY DEF GenerateSheets
<1>2. /\ IsFiniteSet(P) /\ IsFiniteSet(X) /\ X \in SUBSET Orders
      /\ \A w \in P : w.orders \in SUBSET X
      /\ \A w \in P : w.orders \in SUBSET Orders /\ IsFiniteSet(w.orders)
  BY FS_Subset DEF Distinct
<1>3. IsFiniteSet(A) /\ A \in SUBSET P
  BY <1>2, FS_Subset
<1>4. IsFiniteSet(G)
  <2> HIDE DEF G, A, b
  <2> QED BY <1>1, <1>3, FiniteImage
<1>5. \A w \in P : SheetUnits(sh[w], sku) = g[w]
  BY SheetUnitsOrdered
<1>6. \A w \in P : sh[w].wave_id = w.id
  BY SheetFields
<1>7. \A w, v \in A : b[w] = b[v] => w = v
  <2> SUFFICES ASSUME NEW w \in A, NEW v \in A, b[w] = b[v] PROVE w = v
    OBVIOUS
  <2>1. w.id = v.id
    BY <1>6
  <2> QED BY <2>1 DEF Distinct
<1>8. b \in [A -> G] /\ \A s \in G : \E w \in A : b[w] = s
  BY <1>1
<1>9. Addends(g, P, Int)
  <2>1. \A w \in P : g[w] \in Int
    BY <1>2, OrderedAddends
  <2> QED BY <1>2, <2>1 DEF Addends
<1>10. \A w \in A : g[w] = h[b[w]]
  <2> SUFFICES ASSUME NEW w \in A PROVE g[w] = h[b[w]]
    OBVIOUS
  <2>1. h[b[w]] = SheetUnits(b[w], sku)
    BY <1>8
  <2>2. SheetUnits(b[w], sku) = g[w]
    BY <1>5
  <2> QED BY <2>1, <2>2
<1>11. Addends(h, G, Int)
  <2>1. \A s \in G : h[s] \in Int
    <3> HIDE DEF G, b, A, g
    <3> SUFFICES ASSUME NEW w \in A PROVE h[b[w]] \in Int
      BY <1>1
    <3> QED BY <1>3, <1>9, <1>10 DEF Addends
  <2> QED BY <1>4, <2>1 DEF Addends
<1>12. SumFunctionOnSet(g, A) = SumFunctionOnSet(h, G)
  <2> HIDE DEF G, b, A, g
  <2> QED BY ONLY <1>3, <1>4, <1>7, <1>8, <1>10, <1>11, SumAlong
<1>13. \A w \in P \ A : g[w] = 0
  <2> SUFFICES ASSUME NEW w \in P, sh[w].pick_lines = {} PROVE SheetUnits(sh[w], sku) = 0
    BY <1>5
  <2>1. SheetUnits(sh[w], sku)
          = SumFunctionOnSet([r \in {} |-> IF r.sku = sku THEN Units(r) ELSE 0], {})
    BY DEF SheetUnits, SumFunction
  <2> QED BY <2>1, SumEmpty
<1>14. SumFunctionOnSet(g, A) = SumFunctionOnSet(g, P)
  <2> HIDE DEF A, g
  <2> QED BY <1>3, <1>9, <1>13, SumSubset
<1>15. \A so \in X : key[so] \in P /\ so \in key[so].orders
  BY DEF Distinct
<1>16. Addends(u, X, Int) /\ OrderedUnits(X, book, sku) = SumFunctionOnSet(u, X)
  BY <1>2, OrderedAddends
<1>17. /\ SumFunctionOnSet(u, X) = SumFunctionOnSet(parts, P) /\ Addends(parts, P, Int)
  <2> HIDE DEF u, key
  <2> QED BY <1>2, <1>15, <1>16, SumOfParts
<1>18. \A w \in P : g[w] = parts[w]
  <2> SUFFICES ASSUME NEW w \in P PROVE g[w] = parts[w]
    OBVIOUS
  <2> DEFINE O == w.orders
             v == [so \in O |-> OrderUnits(book[so], sku)]
  <2>1. {so \in X : key[so] = w} = O
    <3>1. \A so \in O : so \in X
      BY <1>2
    <3>2. \A so \in O : key[so] = w
      BY <3>1, <1>15 DEF Distinct
    <3>3. \A so \in X : key[so] = w => so \in O
      BY <1>15
    <3> HIDE DEF key
    <3> QED BY <3>1, <3>2, <3>3
  <2>2. parts[w] = SumFunctionOnSet(u, {so \in X : key[so] = w})
    BY DEF Parts
  <2>3. Addends(v, O, Int) /\ g[w] = SumFunctionOnSet(v, O)
    BY <1>2, OrderedAddends
  <2>4. \A so \in O : u[so] = v[so]
    BY <1>2
  <2>5. SumFunctionOnSet(u, O) = SumFunctionOnSet(v, O)
    <3> HIDE DEF u, v, O
    <3> QED BY <2>3, <2>4, SumEqual
  <2> HIDE DEF u, v, O, key, parts, g
  <2> QED BY <2>1, <2>2, <2>3, <2>5
<1>19. SumFunctionOnSet(g, P) = SumFunctionOnSet(parts, P)
  <2> HIDE DEF g, parts
  <2> QED BY <1>17, <1>18, SumEqual
<1> QED BY <1>11, <1>12, <1>14, <1>16, <1>17, <1>19

LEMMA SheetsFinite ==
  ASSUME NEW P, IsFiniteSet(P), NEW book, NEW stock, NEW exported
  PROVE  IsFiniteSet(GenerateSheets(P, book, stock, exported))
<1> DEFINE sh == [w \in P |-> Sheet(w, P, book, stock, exported)]
           S == {sh[w] : w \in P}
           G == GenerateSheets(P, book, stock, exported)
<1>1. IsFiniteSet(S)
  <2> HIDE DEF sh
  <2> QED BY FiniteImage
<1>2. G \in SUBSET S
  BY DEF GenerateSheets
<1> HIDE DEF G, S
<1>3. IsFiniteSet(G)
  BY <1>1, <1>2, FS_Subset
<1> QED BY <1>3 DEF G

(* The same of the sheets in the order they are written.                   *)
LEMMA SheetSeqUnits ==
  ASSUME NEW P, NEW X, Distinct(P, X), NEW book \in [Orders -> OrderForms],
         NEW stock, NEW exported, NEW sku,
         NEW seq, seq = SetToSeq(GenerateSheets(P, book, stock, exported))
  PROVE  SumFunction([i \in DOMAIN seq |-> SheetUnits(seq[i], sku)]) = OrderedUnits(X, book, sku)
<1> DEFINE G == GenerateSheets(P, book, stock, exported)
           D == DOMAIN seq
           h == [s \in G |-> SheetUnits(s, sku)]
           k == [i \in D |-> SheetUnits(seq[i], sku)]
           b == [i \in D |-> seq[i]]
<1>1. IsFiniteSet(G)
  BY SheetsFinite DEF Distinct
<1>2. seq \in Seq(G) /\ IsInjective(seq) /\ \A s \in G : \E i \in DOMAIN seq : seq[i] = s
  <2> HIDE DEF G
  <2>1. seq = SetToSeq(G)
    BY DEF G
  <2> QED BY <1>1, <2>1, SetAsSeq
<1>3. D = 1 .. Len(seq) /\ Len(seq) \in Nat
  BY <1>2
<1>4. IsFiniteSet(D)
  BY <1>3, FS_Interval
<1>5. \A i \in D : seq[i] \in G
  <2> HIDE DEF G
  <2> QED BY <1>2, <1>3, ElementOfSeq
<1>6. \A i, j \in D : b[i] = b[j] => i = j
  <2> HIDE DEF G
  <2> QED BY <1>2 DEF IsInjective
<1>7. b \in [D -> G] /\ \A s \in G : \E i \in D : b[i] = s
  <2> HIDE DEF G
  <2> QED BY <1>2, <1>5
<1>8. Addends(h, G, Int) /\ SumFunctionOnSet(h, G) = OrderedUnits(X, book, sku)
  <2>1. \A s \in GenerateSheets(P, book, stock, exported) : h[s] = SheetUnits(s, sku)
    OBVIOUS
  <2> HIDE DEF h
  <2> QED BY <2>1, SheetsUnits
<1>9. \A i \in D : k[i] = h[b[i]]
  BY <1>5
<1>10. SumFunctionOnSet(k, D) = SumFunctionOnSet(h, G)
  <2> HIDE DEF G, D, h, k, b
  <2> QED BY ONLY <1>1, <1>4, <1>6, <1>7, <1>8, <1>9, SumAlong
<1>11. SumFunction(k) = SumFunctionOnSet(k, D)
  BY DEF SumFunction
<1> QED BY <1>8, <1>10, <1>11

LEMMA SomeLine ==
  ASSUME NEW order \in OrderForms, TotalCartons(order) > 0
  PROVE  \E i \in DOMAIN order.lines : order.lines[i] \in LineForms /\ order.lines[i].qty > 0
<1> DEFINE D == DOMAIN order.lines
           g == [i \in D |-> order.lines[i].qty]
<1>1. order.lines \in Seq(LineForms)
  BY DEF OrderForms, LineForms
<1>2. D = 1 .. Len(order.lines) /\ Len(order.lines) \in Nat
  BY <1>1
<1>3. \A i \in D : order.lines[i] \in LineForms
  BY <1>1, <1>2, ElementOfSeq
<1>4. TotalCartons(order) = SumFunctionOnSet(g, D)
  BY DEF TotalCartons, Total, SumFunction
<1> SUFFICES ASSUME \A i \in D : ~(order.lines[i].qty > 0) PROVE FALSE
  BY <1>3
<1>5. \A i \in D : g[i] = 0
  BY <1>3 DEF LineForms
<1>6. IsFiniteSet(D)
  BY <1>2, FS_Interval
<1>7. SumFunctionOnSet(g, D) = 0
  <2> HIDE DEF D, g
  <2> QED BY <1>5, <1>6, SumZero
<1> QED BY <1>4, <1>7

LEMMA OrderHasPick ==
  ASSUME NEW O \in SUBSET Orders, NEW book \in [Orders -> OrderForms], NEW so \in O,
         NEW i \in DOMAIN book[so].lines, book[so].lines[i] \in LineForms,
         book[so].lines[i].qty > 0, NEW stock, NEW exported
  PROVE  \E p \in PicksOf(O, book, stock, exported) :
           p.so = so /\ p.part.sku = book[so].lines[i].sku
<1> DEFINE l == book[so].lines[i]
<1>1. PICK p \in LinePicks(so, i, l, stock, exported) : TRUE
  <2> HIDE DEF l
  <2>1. l \in LineForms /\ l.qty > 0
    BY DEF l
  <2> QED BY <2>1, LinePicksSome
<1>2. p.so = so /\ p.part.sku = l.sku
  <2> HIDE DEF l
  <2>1. l \in LineForms
    BY DEF l
  <2> QED BY <2>1, <1>1, LinePicksType
<1>3. p \in OrderPicks(so, book[so], stock, exported)
  BY <1>1 DEF OrderPicks, LinePicks
<1>4. p \in PicksOf(O, book, stock, exported)
  BY <1>3 DEF PicksOf
<1> QED BY <1>2, <1>4

OnOneSheet(so, lines, seq) ==
  \E i \in DOMAIN seq :
    /\ \A j \in DOMAIN seq : so \in seq[j].orders <=> i = j
    /\ \A l \in ToSet(lines) : l.qty > 0 =>
         \E r \in seq[i].pick_lines : r.sku = l.sku /\ so \in r.so_refs

(* An order with something to pick is on one sheet, whose rows name it.    *)
LEMMA OneSheet ==
  ASSUME NEW P, NEW X, Distinct(P, X), NEW book \in [Orders -> OrderForms],
         NEW stock, NEW exported, NEW so \in X, TotalCartons(book[so]) > 0,
         NEW seq, seq = SetToSeq(GenerateSheets(P, book, stock, exported))
  PROVE  OnOneSheet(so, book[so].lines, seq)
<1> DEFINE sh == [w \in P |-> Sheet(w, P, book, stock, exported)]
           G == GenerateSheets(P, book, stock, exported)
           D == DOMAIN seq
<1>1. IsFiniteSet(G)
  BY SheetsFinite DEF Distinct
<1>2. seq \in Seq(G) /\ IsInjective(seq) /\ \A s \in G : \E i \in DOMAIN seq : seq[i] = s
  <2> HIDE DEF G
  <2>1. seq = SetToSeq(G)
    BY DEF G
  <2> QED BY <1>1, <2>1, SetAsSeq
<1>3. D = 1 .. Len(seq) /\ Len(seq) \in Nat
  BY <1>2
<1>4. \A i \in D : seq[i] \in G
  <2> HIDE DEF G
  <2> QED BY <1>2, <1>3, ElementOfSeq
<1>5. \A w \in P : /\ sh[w].orders = w.orders /\ sh[w].wave_id = w.id
                   /\ sh[w].pick_lines = PickLines(PicksOf(w.orders, book, stock, exported))
  BY SheetFields
<1>6. PICK w \in P : so \in w.orders
  BY DEF Distinct
<1>7. so \in Orders /\ w.orders \in SUBSET Orders /\ book[so] \in OrderForms
  BY DEF Distinct
<1> DEFINE Pk == PicksOf(w.orders, book, stock, exported)
<1>8. book[so].lines \in Seq(LineForms)
  BY <1>7 DEF OrderForms, LineForms
<1>9. \A l \in ToSet(book[so].lines) : l.qty > 0 =>
        \E r \in sh[w].pick_lines : r.sku = l.sku /\ so \in r.so_refs
  <2> SUFFICES ASSUME NEW l \in ToSet(book[so].lines), l.qty > 0
               PROVE  \E r \in PickLines(Pk) : r.sku = l.sku /\ so \in r.so_refs
    BY <1>5
  <2>1. PICK k \in DOMAIN book[so].lines : book[so].lines[k] = l
    BY DEF ToSet
  <2>2. l \in LineForms
    BY <1>8, <2>1, ElementOfSeq
  <2> DEFINE O == w.orders
  <2>3. \E p \in PicksOf(O, book, stock, exported) : p.so = so /\ p.part.sku = book[so].lines[k].sku
    <3>1. /\ O \in SUBSET Orders /\ so \in O /\ k \in DOMAIN book[so].lines
          /\ book[so].lines[k] \in LineForms /\ book[so].lines[k].qty > 0
          /\ book \in [Orders -> OrderForms]
      BY <1>6, <1>7, <2>1, <2>2
    <3> HIDE DEF O
    <3> QED BY ONLY <3>1, OrderHasPick
  <2>4. PICK p \in Pk : p.so = so /\ p.part.sku = l.sku
    BY <2>1, <2>3
  <2> HIDE DEF Pk
  <2>5. \E r \in PickLines(Pk) : r.sku = p.part.sku /\ p.so \in r.so_refs
    BY PickHasRow
  <2> QED BY <2>4, <2>5
<1>10. PICK k \in DOMAIN book[so].lines : book[so].lines[k] \in LineForms /\ book[so].lines[k].qty > 0
  BY <1>7, SomeLine
<1>11. sh[w].pick_lines # {}
  BY <1>9, <1>10 DEF ToSet
<1>12. sh[w] \in G
  BY <1>11 DEF GenerateSheets
<1>13. PICK i \in D : seq[i] = sh[w]
  BY <1>2, <1>12
<1>14. \A j \in D : so \in seq[j].orders <=> i = j
  <2> SUFFICES ASSUME NEW j \in D PROVE so \in seq[j].orders <=> i = j
    OBVIOUS
  <2>1. so \in seq[i].orders
    BY <1>5, <1>6, <1>13
  <2>2. ASSUME so \in seq[j].orders PROVE i = j
    <3>1. PICK v \in P : seq[j] = sh[v]
      BY <1>4 DEF GenerateSheets
    <3>2. so \in v.orders
      BY <1>5, <2>2, <3>1
    <3>3. v = w
      BY <1>6, <3>2 DEF Distinct
    <3>4. seq[i] = seq[j]
      BY <1>13, <3>1, <3>3
    <3> HIDE DEF G, sh
    <3> QED BY <1>2, <3>4 DEF IsInjective
  <2> QED BY <2>1, <2>2
<1> QED BY <1>5, <1>9, <1>13, <1>14 DEF OnOneSheet

----------------------------------------------------------------------------
(***************************************************************************)
(* The dispatch plan: what predict_runs gives, what a reader of its files  *)
(* gets, and what attach_dispatch_runs and classify_stream make of it.     *)
(***************************************************************************)
FullRows == [so_id : Orders, predicted_run : Labels, flag : Flags]

(* A prediction is of a row of the plan, with a label and a flag it knows. *)
LEMMA WeightType ==
  ASSUME NEW c \in Consignments
  PROVE  Weight(c) \in Nat /\ RunOf(c) \in Runs \union DateLabels /\ c.age \in -1 .. Window
<1>1. c.age \in -1 .. Window
  BY DEF Consignments
<1>2. IsFiniteSet({c.age, 0}) /\ {c.age, 0} \in SUBSET Int /\ {c.age, 0} # {}
  <2>1. IsFiniteSet({c.age, 0})
    BY FinitePair
  <2> QED BY <1>1, <2>1 DEF Window
<1>3. Max({c.age, 0}) \in {c.age, 0} /\ \A y \in {c.age, 0} : Max({c.age, 0}) >= y
  <2> DEFINE S == {c.age, 0}
  <2> HIDE DEF S
  <2>1. Max(S) \in S /\ \A y \in S : Max(S) >= y
    BY <1>2, MaxInSet DEF S
  <2> QED BY <2>1 DEF S
<1>4. 1 + Max({c.age, 0}) \in 1 .. 4
  BY <1>1, <1>3 DEF Window
<1>5. \A i \in 1 .. 4 : Weights[i] \in Nat
  BY DEF Weights
<1>6. Weight(c) \in Nat
  BY <1>4, <1>5 DEF Weight
<1>7. RunOf(c) \in Runs \union DateLabels
  BY <1>1 DEF RunOf, Consignments, DateLabels
<1> QED BY <1>1, <1>6, <1>7

LEMMA CandidateType ==
  ASSUME NEW history \in Seq(Consignments), NEW at \in SUBSET (DOMAIN history),
         NEW i \in at
  PROVE  Candidate(history, at, RunOf(history[i])) \in RunCandidates
<1> DEFINE run == RunOf(history[i])
           mine == {k \in at : RunOf(history[k]) = run}
           w == [k \in mine |-> Weight(history[k])]
           ages == [k \in mine |-> history[k].age]
           A == {ages[k] : k \in mine}
<1>1. DOMAIN history = 1 .. Len(history) /\ Len(history) \in Nat
  OBVIOUS
<1>2. \A k \in DOMAIN history : history[k] \in Consignments
  BY <1>1, ElementOfSeq
<1>3. IsFiniteSet(DOMAIN history)
  BY <1>1, FS_Interval
<1>4. /\ IsFiniteSet(mine) /\ mine \in SUBSET Nat /\ mine \in SUBSET Int /\ mine # {}
      /\ \A k \in mine : history[k] \in Consignments
  BY <1>1, <1>2, <1>3, FS_Subset
<1>5. \A k \in mine : w[k] \in Nat /\ ages[k] \in -1 .. Window /\ ages[k] \in Int
  <2> SUFFICES ASSUME NEW k \in mine
               PROVE /\ Weight(history[k]) \in Nat /\ history[k].age \in -1 .. Window
                     /\ history[k].age \in Int
    OBVIOUS
  <2>1. history[k] \in Consignments
    BY <1>4
  <2>2. Weight(history[k]) \in Nat /\ history[k].age \in -1 .. Window
    BY <2>1, WeightType
  <2> QED BY <2>2 DEF Window
<1>6. SumFunctionOnSet(w, mine) \in Nat
  <2>1. Addends(w, mine, Nat)
    BY <1>4, <1>5 DEF Addends
  <2> HIDE DEF w, mine
  <2> QED BY <2>1, SumType
<1>7. IsFiniteSet(A) /\ A \in SUBSET Int /\ A # {} /\ A \in SUBSET (-1 .. Window)
  <2>1. IsFiniteSet(A)
    <3> HIDE DEF mine, ages
    <3> QED BY <1>4, FiniteImage
  <2> HIDE DEF mine, ages
  <2> QED BY <1>4, <1>5, <2>1
<1>8. Min(A) \in -1 .. Window
  <2> HIDE DEF A
  <2>1. Min(A) \in A
    BY <1>7, MinInSet
  <2> QED BY <1>7, <2>1
<1>9. Min(mine) \in Nat
  <2> HIDE DEF mine
  <2>1. Min(mine) \in mine
    BY <1>4, MinInSet
  <2> QED BY <1>4, <2>1
<1>10. Cardinality(mine) \in Nat
  BY <1>4, FS_CardinalityType
<1>11. run \in Runs \union DateLabels
  BY <1>2, WeightType
<1>12. A = {history[k].age : k \in mine}
  OBVIOUS
<1>13. Candidate(history, at, run)
         = [run |-> run, score |-> SumFunctionOnSet(w, mine), n |-> Cardinality(mine),
            last_seen |-> Min(A), first |-> Min(mine)]
  <2>1. SumFunction(w) = SumFunctionOnSet(w, mine)
    BY DEF SumFunction
  <2> QED BY <1>12, <2>1 DEF Candidate
<1> HIDE DEF run, mine, w, A
<1>14. Candidate(history, at, run) \in RunCandidates
  BY <1>6, <1>8, <1>9, <1>10, <1>11, <1>13 DEF RunCandidates
<1> QED BY <1>14 DEF run

LEMMA HistoryModel ==
  ASSUME NEW history \in Seq(Consignments)
  PROVE  IsModel(ComputeRunHistory(history))
<1> DEFINE At(a) == {i \in DOMAIN history : history[i].address = a}
           m == ComputeRunHistory(history)
<1>1. \A a \in Addresses : m[a] = {Candidate(history, At(a), run) : run \in {RunOf(history[i]) : i \in At(a)}}
  BY DEF ComputeRunHistory
<1>2. ASSUME NEW a \in Addresses PROVE m[a] \in SUBSET RunCandidates /\ IsFiniteSet(m[a])
  <2> DEFINE at == At(a)
             runs == [i \in at |-> RunOf(history[i])]
             R == {runs[i] : i \in at}
             c == [run \in R |-> Candidate(history, at, run)]
  <2>1. m[a] = {c[run] : run \in R}
    <3>1. R = {RunOf(history[i]) : i \in at}
      OBVIOUS
    <3>2. m[a] = {Candidate(history, at, run) : run \in R}
      BY <1>1, <3>1
    <3> HIDE DEF R
    <3> QED BY <3>2
  <2>2. IsFiniteSet(DOMAIN history)
    BY FS_Interval
  <2>3. IsFiniteSet(at)
    BY <2>2, FS_Subset
  <2>4. IsFiniteSet(R)
    <3> HIDE DEF at, runs
    <3> QED BY <2>3, FiniteImage
  <2>5. IsFiniteSet(m[a])
    <3> HIDE DEF R, c, m
    <3> QED BY <2>1, <2>4, FiniteImage
  <2>6. \A run \in R : c[run] \in RunCandidates
    <3> SUFFICES ASSUME NEW i \in at PROVE Candidate(history, at, RunOf(history[i])) \in RunCandidates
      OBVIOUS
    <3>1. at \in SUBSET (DOMAIN history)
      OBVIOUS
    <3> HIDE DEF at
    <3> QED BY <3>1, CandidateType
  <2> HIDE DEF R, c, m
  <2> QED BY <2>1, <2>5, <2>6
<1>3. m = [a \in Addresses |-> m[a]]
  BY DEF ComputeRunHistory
<1> HIDE DEF m
<1>4. m \in [Addresses -> SUBSET RunCandidates]
  BY <1>2, <1>3
<1>5. IsModel(m)
  BY <1>2, <1>4 DEF IsModel
<1> QED BY <1>5 DEF m

(* The best candidate is one of them.                                      *)
LEMMA BestOfSome ==
  ASSUME NEW cands \in SUBSET RunCandidates, IsFiniteSet(cands), cands # {}
  PROVE  Best(cands) \in cands
<1> DEFINE score == [c \in cands |-> c.score]
           S == {score[c] : c \in cands}
           T == {c \in cands : c.score = Max(S)}
           first == [c \in T |-> c.first]
           F == {first[c] : c \in T}
<1>1. \A c \in cands : c.score \in Nat /\ c.first \in Nat
  BY DEF RunCandidates
<1>2. IsFiniteSet(S)
  <2> HIDE DEF score
  <2> QED BY FiniteImage
<1>3. S \in SUBSET Int /\ S # {}
  BY <1>1
<1>4. Max(S) \in S /\ \A y \in S : Max(S) >= y
  <2> HIDE DEF S
  <2> QED BY <1>2, <1>3, MaxInSet
<1>5. T # {} /\ T \in SUBSET cands /\ IsFiniteSet(T)
  <2>1. T # {}
    BY <1>4
  <2> QED BY <2>1, FS_Subset
<1>6. IsFiniteSet(F)
  <2> HIDE DEF T, first
  <2> QED BY <1>5, FiniteImage
<1>7. F \in SUBSET Int /\ F # {}
  <2> HIDE DEF T
  <2> QED BY <1>1, <1>5
<1>8. Min(F) \in F /\ \A y \in F : Min(F) <= y
  <2> HIDE DEF F
  <2> QED BY <1>6, <1>7, MinInSet
<1>9. PICK c \in T : c.first = Min(F)
  BY <1>8
<1>10. \A d \in cands : c.score > d.score \/ (c.score = d.score /\ c.first <= d.first)
  <2> SUFFICES ASSUME NEW d \in cands
               PROVE c.score > d.score \/ (c.score = d.score /\ c.first <= d.first)
    OBVIOUS
  <2>1. c \in cands /\ c.score = Max(S) /\ Max(S) >= d.score
    BY <1>4
  <2>2. d.score = Max(S) => c.first <= d.first
    BY <1>8, <1>9
  <2> HIDE DEF S, T, F
  <2> QED BY <1>1, <2>1, <2>2
<1>11. \E b \in cands : \A d \in cands : b.score > d.score \/ (b.score = d.score /\ b.first <= d.first)
  BY <1>9, <1>10
<1> HIDE DEF S, T, F
<1> QED BY <1>11 DEF Best

LEMMA PredictType ==
  ASSUME NEW so \in Orders, NEW address \in Addresses \union {NoAddress},
         NEW m, IsModel(m)
  PROVE  Predict(so, address, m) \in FullRows
<1> DEFINE cands == m[address]
           best == Best(cands)
<1>1. CASE address = NoAddress
  BY <1>1 DEF Predict, Row, FullRows, Labels, Flags
<1>2. CASE address # NoAddress /\ cands = {}
  BY <1>2 DEF Predict, Row, FullRows, Labels, Flags
<1>3. CASE address # NoAddress /\ cands # {}
  <2>1. cands \in SUBSET RunCandidates /\ IsFiniteSet(cands)
    BY <1>3 DEF IsModel
  <2>2. best \in cands
    <3> HIDE DEF cands
    <3> QED BY <1>3, <2>1, BestOfSome
  <2>3. best.run \in Labels
    BY <2>1, <2>2 DEF RunCandidates, Labels
  <2>4. Trust(best, cands) \in Flags
    BY DEF Trust, Flags
  <2>5. Predict(so, address, m) = Row(so, best.run, Trust(best, cands))
    BY <1>3 DEF Predict
  <2> HIDE DEF best, cands
  <2> QED BY <2>3, <2>4, <2>5 DEF Row, FullRows
<1> QED BY <1>1, <1>2, <1>3

LEMMA PredictRunsType ==
  ASSUME NEW orders \in Seq(Orders),
         NEW addresses \in [Orders -> Addresses \union {NoAddress}], NEW m, IsModel(m)
  PROVE  /\ PredictRuns(orders, addresses, m).suggested \in Seq(FullRows)
         /\ PredictRuns(orders, addresses, m).review \in Seq(FullRows)
<1> DEFINE rs == [i \in DOMAIN orders |-> Predict(orders[i], addresses[orders[i]], m)]
           one(trusted) == [i \in DOMAIN rs |->
                              IF rs[i].flag = "stable" <=> trusted THEN <<rs[i]>> ELSE <<>>]
<1>1. DOMAIN orders = 1 .. Len(orders) /\ Len(orders) \in Nat
  OBVIOUS
<1>2. \A i \in DOMAIN orders : rs[i] \in FullRows
  <2> SUFFICES ASSUME NEW i \in DOMAIN orders
               PROVE Predict(orders[i], addresses[orders[i]], m) \in FullRows
    OBVIOUS
  <2>1. orders[i] \in Orders
    BY <1>1, ElementOfSeq
  <2> QED BY <2>1, PredictType
<1>3. ASSUME NEW trusted PROVE one(trusted) \in Seq(Seq(FullRows))
  <2> DEFINE o == one(trusted)
  <2>1. \A i \in 1 .. Len(orders) : o[i] \in Seq(FullRows)
    <3> HIDE DEF rs
    <3>1. DOMAIN rs = 1 .. Len(orders)
      BY <1>1 DEF rs
    <3> QED BY <1>1, <1>2, <3>1
  <2>2. o = [i \in 1 .. Len(orders) |-> o[i]]
    BY <1>1
  <2> HIDE DEF o
  <2>3. o \in Seq(Seq(FullRows))
    BY <1>1, <2>1, <2>2
  <2> QED BY <2>3 DEF o
<1>4. FlattenSeq(one(TRUE)) \in Seq(FullRows) /\ FlattenSeq(one(FALSE)) \in Seq(FullRows)
  <2>1. one(TRUE) \in Seq(Seq(FullRows)) /\ one(FALSE) \in Seq(Seq(FullRows))
    BY <1>3
  <2> HIDE DEF one
  <2> QED BY <2>1, FlattenType
<1>5. /\ PredictRuns(orders, addresses, m).suggested = FlattenSeq(one(TRUE))
      /\ PredictRuns(orders, addresses, m).review = FlattenSeq(one(FALSE))
  BY DEF PredictRuns
<1> QED BY <1>4, <1>5

(* What a reader has of a row of the plan: all of it, or a part that says so. *)
ReadOf(row, full) ==
  /\ row.so_id = full.so_id
  /\ \/ row = full
     \/ row.flag = "no_run"
     \/ row.flag = TornFlag /\ row.predicted_run = full.predicted_run

LEMMA FullRowsArePlanRows == FullRows \subseteq PlanRows
BY DEF FullRows, PlanRows, PlanFlags

LEMMA CutRead ==
  ASSUME NEW r \in FullRows, NEW cut \in CutRows(r)
  PROVE  cut \in PlanRows /\ ReadOf(cut, r)
<1>1. r.so_id \in Orders /\ r.predicted_run \in Labels
  BY DEF FullRows
<1>2. NoRun \in Labels /\ Torn \in Labels
  BY DEF Labels
<1>3. PICK run \in {NoRun, Torn, r.predicted_run} : 
        cut = Row(r.so_id, run, "no_run") \/ cut = Row(r.so_id, r.predicted_run, TornFlag)
  BY DEF CutRows
<1> QED BY <1>1, <1>2, <1>3 DEF Row, PlanRows, PlanFlags, ReadOf

LEMMA SubSeqRead ==
  ASSUME NEW full \in Seq(FullRows), NEW n \in 0 .. Len(full)
  PROVE  /\ SubSeq(full, 1, n) \in Seq(PlanRows)
         /\ Len(SubSeq(full, 1, n)) = n
         /\ \A i \in 1 .. n : SubSeq(full, 1, n)[i] \in ToSet(full)
<1> DEFINE s == SubSeq(full, 1, n)
<1>1. Len(full) \in Nat /\ DOMAIN full = 1 .. Len(full)
  OBVIOUS
<1>2. s = [i \in 1 .. n |-> full[i]]
  BY <1>1
<1>3. \A i \in 1 .. n : full[i] \in FullRows /\ i \in DOMAIN full
  BY <1>1, ElementOfSeq
<1>4. \A i \in 1 .. n : full[i] \in PlanRows /\ full[i] \in ToSet(full)
  BY <1>3, FullRowsArePlanRows DEF ToSet
<1> HIDE DEF s
<1>5. s \in [1 .. n -> PlanRows] /\ n \in Nat
  BY <1>1, <1>2, <1>4
<1>6. s \in Seq(PlanRows) /\ Len(s) = n
  BY <1>5
<1> QED BY <1>2, <1>4, <1>6 DEF s

LEMMA ReadWhole ==
  ASSUME NEW r
  PROVE  ReadOf(r, r)
BY DEF ReadOf

LEMMA BeginningsRead ==
  ASSUME NEW full \in Seq(FullRows), NEW s \in Beginnings(full)
  PROVE  s \in Seq(PlanRows) /\ \A i \in DOMAIN s : \E r \in ToSet(full) : ReadOf(s[i], r)
<1>0. Len(full) \in Nat /\ DOMAIN full = 1 .. Len(full)
  OBVIOUS
<1>1. CASE \E n \in 0 .. Len(full) : s = SubSeq(full, 1, n)
  <2>1. PICK n \in 0 .. Len(full) : s = SubSeq(full, 1, n)
    BY <1>1
  <2>2. /\ s \in Seq(PlanRows) /\ Len(s) = n
        /\ \A i \in 1 .. n : s[i] \in ToSet(full)
    BY <2>1, SubSeqRead
  <2>3. DOMAIN s = 1 .. n
    BY <2>2
  <2> QED BY <2>2, <2>3, ReadWhole
<1>2. CASE \E k \in DOMAIN full : \E cut \in CutRows(full[k]) :
             s = Append(SubSeq(full, 1, k - 1), cut)
  <2>1. PICK k \in DOMAIN full :
          \E cut \in CutRows(full[k]) : s = Append(SubSeq(full, 1, k - 1), cut)
    BY <1>2
  <2>2. PICK cut \in CutRows(full[k]) : s = Append(SubSeq(full, 1, k - 1), cut)
    BY <2>1
  <2> DEFINE b == SubSeq(full, 1, k - 1)
  <2>3. full[k] \in FullRows /\ full[k] \in ToSet(full)
    BY <1>0, ElementOfSeq DEF ToSet
  <2>4. cut \in PlanRows /\ ReadOf(cut, full[k])
    BY <2>3, CutRead
  <2>5. k - 1 \in 0 .. Len(full)
    BY <1>0
  <2>6. /\ b \in Seq(PlanRows) /\ Len(b) = k - 1
        /\ \A i \in 1 .. (k - 1) : b[i] \in ToSet(full)
    BY <2>5, SubSeqRead
  <2> HIDE DEF b
  <2>7. /\ s \in Seq(PlanRows) /\ DOMAIN s = 1 .. k
        /\ s[k] = cut /\ \A i \in 1 .. (k - 1) : s[i] = b[i]
    BY <2>2, <2>4, <2>5, <2>6 DEF b
  <2>8. ASSUME NEW i \in DOMAIN s PROVE \E r \in ToSet(full) : ReadOf(s[i], r)
    <3>1. CASE i = k
      BY <2>3, <2>4, <2>7, <3>1
    <3>2. CASE i # k
      <4>1. i \in 1 .. (k - 1)
        BY <2>5, <2>7, <3>2
      <4>2. s[i] \in ToSet(full)
        BY <2>6, <2>7, <4>1
      <4> QED BY <4>2, ReadWhole
    <3> QED BY <3>1, <3>2
  <2> QED BY <2>7, <2>8
<1> QED BY <1>1, <1>2 DEF Beginnings, Prefixes

LEMMA WholeRead ==
  ASSUME NEW full \in Seq(FullRows)
  PROVE  full \in Seq(PlanRows) /\ \A i \in DOMAIN full : \E r \in ToSet(full) : ReadOf(full[i], r)
<1>1. full \in Seq(PlanRows)
  BY FullRowsArePlanRows
<1> QED BY <1>1, ReadWhole DEF ToSet

Plans == [suggested : Seq(FullRows), review : Seq(FullRows), stage : ToSet(PlanStages)]
RowsOf(p) == ToSet(p.suggested) \union ToSet(p.review)

LEMMA ReadingsRead ==
  ASSUME NEW p \in Plans, NEW s \in SuggestedReadings(p) \union ReviewReadings(p)
  PROVE  s \in Seq(PlanRows) /\ \A i \in DOMAIN s : \E r \in RowsOf(p) : ReadOf(s[i], r)
<1>1. p.suggested \in Seq(FullRows) /\ p.review \in Seq(FullRows)
  BY DEF Plans
<1>2. \/ s = <<>>
      \/ s = p.suggested \/ s \in Beginnings(p.suggested)
      \/ s = p.review \/ s \in Beginnings(p.review)
  BY DEF SuggestedReadings, ReviewReadings
<1>3. CASE s = <<>>
  BY <1>3
<1>4. CASE s = p.suggested
  BY <1>1, <1>4, WholeRead DEF RowsOf
<1>5. CASE s \in Beginnings(p.suggested)
  BY <1>1, <1>5, BeginningsRead DEF RowsOf
<1>6. CASE s = p.review
  BY <1>1, <1>6, WholeRead DEF RowsOf
<1>7. CASE s \in Beginnings(p.review)
  BY <1>1, <1>7, BeginningsRead DEF RowsOf
<1> QED BY <1>2, <1>3, <1>4, <1>5, <1>6, <1>7

LEMMA AttachRunType ==
  ASSUME NEW so \in Orders, NEW rs \in Seq(PlanRows)
  PROVE  \/ AttachRun(so, rs) = Row(so, NoRun, "no_run")
         \/ \E i \in DOMAIN rs : /\ rs[i] \in PlanRows /\ rs[i].so_id = so
                                 /\ AttachRun(so, rs) = rs[i]
<1> DEFINE I == {i \in 1 .. Len(rs) : rs[i].so_id = so}
           k == SelectInSeq(rs, LAMBDA r : r.so_id = so)
<1>1. k = IF I # {} THEN Min(I) ELSE 0
  BY DEF SelectInSeq
<1>2. CASE I = {}
  <2>1. k = 0
    BY <1>1, <1>2
  <2> QED BY <2>1 DEF AttachRun
<1>3. CASE I # {}
  <2>1. IsFiniteSet(1 .. Len(rs)) /\ I \in SUBSET (1 .. Len(rs)) /\ I \in SUBSET Int
    BY FS_Interval
  <2>2. IsFiniteSet(I)
    <3> HIDE DEF I
    <3> QED BY <2>1, FS_Subset
  <2>3. Min(I) \in I
    <3> HIDE DEF I
    <3> QED BY <1>3, <2>1, <2>2, MinInSet
  <2>4. k \in 1 .. Len(rs) /\ rs[k].so_id = so
    BY <1>1, <1>3, <2>3
  <2>5. AttachRun(so, rs) = IF k = 0 THEN Row(so, NoRun, "no_run") ELSE rs[k]
    BY DEF AttachRun
  <2> HIDE DEF I, k
  <2>6. k # 0 /\ k \in DOMAIN rs
    BY <2>4
  <2>7. rs[k] \in PlanRows
    BY <2>4, ElementOfSeq
  <2> QED BY <2>4, <2>5, <2>6, <2>7
<1> QED BY <1>2, <1>3

Rules == Seq([consignee : Consignees, override : STRING, min_cartons : Nat])

LEMMA RuleForType ==
  ASSUME NEW rules \in Rules, RulesValid(rules), NEW consignee
  PROVE  RuleFor(rules, consignee).override \in {"pallet", "bypass", "bench", NoOverride}
<1> DEFINE I == {i \in 1 .. Len(rules) : rules[i].consignee = consignee}
           k == SelectLastInSeq(rules, LAMBDA r : r.consignee = consignee)
<1>1. k = IF I # {} THEN Max(I) ELSE 0
  BY DEF SelectLastInSeq
<1>2. CASE I = {}
  <2>1. k = 0
    BY <1>1, <1>2
  <2>2. RuleFor(rules, consignee) = NoRule
    BY <2>1 DEF RuleFor
  <2> QED BY <2>2 DEF NoRule
<1>3. CASE I # {}
  <2>1. IsFiniteSet(1 .. Len(rules)) /\ I \in SUBSET (1 .. Len(rules)) /\ I \in SUBSET Int
    BY FS_Interval
  <2>2. IsFiniteSet(I)
    <3> HIDE DEF I
    <3> QED BY <2>1, FS_Subset
  <2>3. Max(I) \in I
    <3> HIDE DEF I
    <3> QED BY <1>3, <2>1, <2>2, MaxInSet
  <2>4. k \in 1 .. Len(rules)
    BY <1>1, <1>3, <2>3
  <2>5. k # 0 /\ k \in DOMAIN rules
    BY <2>4 DEF Rules
  <2>6. RuleFor(rules, consignee).override = rules[k].override
    BY <2>5 DEF RuleFor
  <2> QED BY <2>5, <2>6 DEF RulesValid
<1> QED BY <1>2, <1>3

LEMMA ClassifyStreamType ==
  ASSUME NEW order, NEW rule, NEW flag,
         rule.override \in {"pallet", "bypass", "bench", NoOverride}
  PROVE  /\ ClassifyStream(order, rule, flag) \in Streams
         /\ rule.override = NoOverride /\ ClassifyStream(order, rule, flag) \in Waved =>
              flag \notin FlaggedDispatch
BY DEF ClassifyStream, Streams, Waved, GoesToPallet, NoOverride

LEMMA StageAfterType ==
  ASSUME NEW st \in ToSet(PlanStages), st # "whole"
  PROVE  StageAfter(st) \in ToSet(PlanStages)
<1> DEFINE I == {i \in 1 .. 4 : PlanStages[i] = st}
<1>1. Len(PlanStages) = 4 /\ DOMAIN PlanStages = 1 .. 4
  BY DEF PlanStages
<1>2. PICK n \in 1 .. 3 : PlanStages[n] = st
  BY DEF PlanStages, ToSet
<1>3. I # {} /\ I \in SUBSET (1 .. 4) /\ I \in SUBSET Int /\ 4 \notin I
  BY <1>2 DEF PlanStages
<1>4. IsFiniteSet(I)
  <2> HIDE DEF I
  <2> DEFINE b == Len(PlanStages)
  <2>0. b \in Int
    BY <1>1
  <2> HIDE DEF b
  <2>2. IsFiniteSet(1 .. b)
    BY <2>0, FS_Interval
  <2>1. IsFiniteSet(1 .. Len(PlanStages))
    BY <2>2 DEF b
  <2> QED BY <1>1, <1>3, <2>1, FS_Subset
<1>5. Min(I) \in I
  <2> HIDE DEF I
  <2> QED BY <1>3, <1>4, MinInSet
<1>6. SelectInSeq(PlanStages, LAMBDA s : s = st) = Min(I)
  BY <1>1, <1>3 DEF SelectInSeq
<1>7. 1 + Min(I) \in 1 .. 4
  <2> DEFINE m == Min(I)
  <2> HIDE DEF I
  <2>1. m \in 1 .. 4 /\ m # 4
    BY <1>3, <1>5
  <2> HIDE DEF m
  <2>2. 1 + m \in 1 .. 4
    BY <2>1
  <2> QED BY <2>2 DEF m
<1>8. PlanStages[1 + Min(I)] \in ToSet(PlanStages)
  BY <1>1, <1>7 DEF ToSet
<1>9. StageAfter(st) = PlanStages[1 + Min(I)]
  BY <1>6 DEF StageAfter
<1> QED BY <1>8, <1>9

----------------------------------------------------------------------------
(***************************************************************************)
(* The inductive invariant: the builder, what the run has read of its plan, *)
(* what it has made of it, and what it has written.  A run that failed may *)
(* have stopped anywhere, so group and sheets are only tied to their orders *)
(* while the run goes on or has completed.                                 *)
(***************************************************************************)
(* The builder has a model while it works and a plan while it writes.      *)
BuilderInv ==
  /\ open \in Seq(Orders) /\ IsInjective(open)
  /\ addressOf \in [Orders -> Addresses \union {NoAddress}]
  /\ cache = NoModel \/ IsModel(cache)
  /\ builder \in {"idle", "predict", "write"}
  /\ IF builder = "idle" THEN model = NoModel ELSE IsModel(model)
  /\ plans \in Seq(Plans)
  /\ builder = "write" => Len(plans) > 0 /\ plans[Len(plans)].stage # "whole"

(* The group of every order pulled, as _classify gives it, and the sheets. *)
Classified ==
  [so \in ToSet(pulled) |->
       LET order == inputs.book[so]
       IN  [run_group |-> RunGroup(so),
            stream |-> ClassifyStream(order, RuleFor(inputs.rules, order.consignee),
                                      DispatchFlag(so))]]

Generated ==
  SetToSeq(GenerateSheets(
                 PlanWaves(pulled, inputs.book, group, settings.include_pallet_sheets),
                 inputs.book, Placed, inputs.exported))

Complete == status \in {"success", "empty"}

(* What the run has read.                                                  *)
LinkInv ==
  /\ inputs.book \in [Orders -> OrderForms] /\ inputs.rules \in Rules
  /\ pulled \in Seq(Orders) /\ IsInjective(pulled)
  /\ settings \in Settings \/ stage = "idle"
  /\ plan \in 0 .. Len(plans)
  /\ stage \in {"suggested", "review"} => plan > 0
  /\ rows \in Seq(PlanRows)
  /\ stage \in {"idle", "pull", "load", "link"} => rows = <<>>
  /\ \A i \in DOMAIN rows : plan > 0 /\ \E r \in RowsOf(plans[plan]) : ReadOf(rows[i], r)
  /\ stage \in {"link", "suggested", "review", "classify"} => RulesValid(inputs.rules)

(* What it has made of it.                                                 *)
SheetsInv ==
  /\ stage \in {"idle", "pull", "load", "link", "suggested", "review", "classify"} =>
       group = <<>>
  /\ stage \in {"idle", "pull", "load", "link", "suggested", "review", "classify", "generate"} =>
       sheets = <<>> /\ written = 0
  /\ stage \in {"load", "link", "suggested", "review", "classify", "generate"} => pulled # <<>>
  /\ stage = "generate" => group = Classified
  /\ stage \in {"write", "manifest", "fill"} \/ Complete =>
       IF pulled = <<>> THEN sheets = <<>> ELSE group = Classified /\ sheets = Generated
  /\ status = "success" => pulled # <<>>
  /\ DOMAIN group \subseteq ToSet(pulled) /\ \A so \in DOMAIN group : group[so] \in Groups

(* What it has written.                                                    *)
FilesInv ==
  /\ stage \in {"idle", "pull", "load", "link", "suggested", "review", "classify",
                "generate", "write", "manifest", "fill", "done"}
  /\ Len(sheets) \in Nat /\ DOMAIN sheets = 1 .. Len(sheets)
  /\ written \in 0 .. Len(sheets)
  /\ files \union pdf_failed = {sheets[i].wave_id : i \in 1 .. written}
  /\ index \in BOOLEAN
  /\ manifest \in {"none", "torn", "whole"}
  /\ status \in {"none", "empty", "success", "failed"}
  /\ status # "none" <=> stage = "done"
  /\ stage \in {"manifest", "fill"} \/ Complete => index /\ written = Len(sheets)
  /\ manifest = "whole" => Complete

Inv == BuilderInv /\ LinkInv /\ SheetsInv /\ FilesInv
----------------------------------------------------------------------------
(***************************************************************************)
(* Init and every step keep it, part by part.                              *)
(***************************************************************************)
LEMMA PlacedSame ==
  ASSUME UNCHANGED <<inputs, pulled>>
  PROVE  Placed' = Placed
BY DEF Placed, Wanted

LEMMA GeneratedSame ==
  ASSUME UNCHANGED <<inputs, pulled, group, settings>>
  PROVE  Generated' = Generated
BY PlacedSame DEF Generated

LEMMA ClassifiedSame ==
  ASSUME UNCHANGED <<inputs, pulled, plan, rows, settings>>
  PROVE  Classified' = Classified
BY DEF Classified, RunGroup, DispatchFlag

LEMMA InitInv == Init => Inv
<1> SUFFICES ASSUME Init PROVE Inv
  OBVIOUS
<1>1. PICK w \in Worlds : inputs = w.inputs /\ open = w.open /\ cache = w.cache
  BY DEF Init
<1>2. /\ inputs.book \in [Orders -> OrderForms] /\ inputs.rules \in Rules
      /\ open \in Seq(Orders) /\ IsInjective(open) /\ (cache = NoModel \/ IsModel(cache))
  BY <1>1, WorldsAssumption DEF Rules
<1>3. addressOf \in [Orders -> Addresses \union {NoAddress}]
  <2>1. \A so \in Orders : inputs.book[so].address \in Addresses \union {NoAddress}
    BY <1>2 DEF OrderForms
  <2> QED BY <2>1 DEF Init
<1>4. BuilderInv
  BY <1>2, <1>3 DEF Init, BuilderInv
<1>5. LinkInv
  <2>1. IsInjective(<<>>)
    BY DEF IsInjective
  <2> QED BY <1>2, <2>1 DEF Init, LinkInv
<1>6. SheetsInv
  BY DEF Init, SheetsInv, Complete
<1>7. FilesInv
  <2>1. files \union pdf_failed = {} /\ written = 0 /\ sheets = <<>>
    BY DEF Init
  <2>2. {sheets[i].wave_id : i \in 1 .. written} = {}
    BY <2>1
  <2>3. files \union pdf_failed = {sheets[i].wave_id : i \in 1 .. written}
    BY <2>1, <2>2
  <2>4. Len(sheets) \in Nat /\ DOMAIN sheets = 1 .. Len(sheets) /\ written \in 0 .. Len(sheets)
    BY <2>1
  <2> QED BY <2>3, <2>4 DEF Init, FilesInv, Complete
<1> QED BY <1>4, <1>5, <1>6, <1>7 DEF Inv

LEMMA InjectiveAppend ==
  ASSUME NEW S, NEW s \in Seq(S), IsInjective(s), NEW x \in S, x \notin ToSet(s)
  PROVE  Append(s, x) \in Seq(S) /\ IsInjective(Append(s, x))
<1> DEFINE t == Append(s, x)
<1>1. /\ t \in Seq(S) /\ Len(s) \in Nat /\ DOMAIN s = 1 .. Len(s)
      /\ DOMAIN t = 1 .. (Len(s) + 1) /\ t[Len(s) + 1] = x
      /\ \A i \in 1 .. Len(s) : t[i] = s[i]
  OBVIOUS
<1>2. \A i \in 1 .. Len(s) : s[i] # x
  BY <1>1 DEF ToSet
<1>3. \A i, j \in 1 .. Len(s) : s[i] = s[j] => i = j
  BY <1>1 DEF IsInjective
<1> HIDE DEF t
<1>4. \A i, j \in DOMAIN t : t[i] = t[j] => i = j
  <2> SUFFICES ASSUME NEW i \in DOMAIN t, NEW j \in DOMAIN t, t[i] = t[j] PROVE i = j
    OBVIOUS
  <2>1. (i \in 1 .. Len(s) \/ i = Len(s) + 1) /\ (j \in 1 .. Len(s) \/ j = Len(s) + 1)
    BY <1>1
  <2> QED BY <1>1, <1>2, <1>3, <2>1
<1>5. IsInjective(t)
  BY <1>4 DEF IsInjective
<1> QED BY <1>1, <1>5 DEF t

(* The builder, and orders that come in.                                   *)
LEMMA LearnInv == ASSUME BuilderInv, NEW skip \in BOOLEAN, Learn(skip) PROVE BuilderInv'
<1>1. /\ cache' = NoModel \/ IsModel(cache') 
      /\ IsModel(model') /\ builder' = "predict"
  <2>1. CASE skip /\ cache # NoModel
    BY <2>1 DEF BuilderInv, Learn
  <2>2. CASE ~(skip /\ cache # NoModel)
    <3>1. model' = ComputeRunHistory(History) /\ cache' = model' /\ builder' = "predict"
      BY <2>2 DEF Learn
    <3> QED BY <3>1, HistoryAssumption, HistoryModel
  <2> QED BY <2>1, <2>2
<1> QED BY <1>1 DEF BuilderInv, Learn

LEMMA PredictOpenInv == ASSUME BuilderInv, PredictOpen PROVE BuilderInv' /\ \E p : plans' = Append(plans, p)
<1> DEFINE new == [suggested |-> PredictRuns(open, addressOf, model).suggested,
                   review |-> PredictRuns(open, addressOf, model).review,
                   stage |-> "suggested"]
<1>1. plans' = Append(plans, new) /\ builder' = "write"
      /\ UNCHANGED <<open, addressOf, cache, model>>
  BY DEF PredictOpen
<1>2. IsModel(model) /\ builder = "predict"
  BY DEF BuilderInv, PredictOpen
<1>3. new \in Plans
  <2>1. /\ PredictRuns(open, addressOf, model).suggested \in Seq(FullRows)
        /\ PredictRuns(open, addressOf, model).review \in Seq(FullRows)
    BY <1>2, PredictRunsType DEF BuilderInv
  <2>2. "suggested" \in ToSet(PlanStages)
    BY DEF PlanStages, ToSet
  <2> QED BY <2>1, <2>2 DEF Plans
<1>4. new.stage = "suggested"
  OBVIOUS
<1> HIDE DEF new
<1>5. /\ plans' \in Seq(Plans) /\ Len(plans') > 0 /\ plans'[Len(plans')] = new
  BY <1>1, <1>3 DEF BuilderInv
<1>6. BuilderInv'
  BY <1>1, <1>2, <1>4, <1>5 DEF BuilderInv
<1> QED BY <1>1, <1>6

LEMMA WritePlanInv ==
  ASSUME BuilderInv, WritePlan
  PROVE  /\ BuilderInv' /\ Len(plans') = Len(plans)
         /\ \A i \in 1 .. Len(plans) : RowsOf(plans'[i]) = RowsOf(plans[i])
<1> DEFINE n == Len(plans)
           st == StageAfter(plans[n].stage)
           new == [plans[n] EXCEPT !.stage = st]
<1>1. n \in 1 .. Len(plans) /\ plans \in Seq(Plans) /\ plans[n].stage # "whole" /\ IsModel(model)
      /\ builder = "write"
  BY DEF BuilderInv, WritePlan
<1>2. plans[n] \in Plans
  BY <1>1, ElementOfSeq
<1>3. st \in ToSet(PlanStages)
  BY <1>1, <1>2, StageAfterType DEF Plans
<1>4. plans' = [plans EXCEPT ![n] = new]
  BY DEF WritePlan
<1>5. new \in Plans /\ RowsOf(new) = RowsOf(plans[n]) /\ new.stage = st
  BY <1>2, <1>3 DEF Plans, RowsOf
<1> HIDE DEF new, n
<1>6. /\ plans' \in Seq(Plans) /\ Len(plans') = Len(plans) /\ plans'[n] = new
      /\ \A i \in 1 .. Len(plans) : i # n => plans'[i] = plans[i]
  BY <1>1, <1>4, <1>5
<1>7. \A i \in 1 .. Len(plans) : RowsOf(plans'[i]) = RowsOf(plans[i])
  BY <1>5, <1>6
<1>8. /\ UNCHANGED <<open, addressOf, cache>>
      /\ \/ new.stage = "whole" /\ builder' = "idle" /\ model' = NoModel
         \/ new.stage # "whole" /\ UNCHANGED <<builder, model>>
  BY <1>6 DEF WritePlan, n
<1>9. BuilderInv'
  BY <1>1, <1>6, <1>8 DEF BuilderInv, n
<1> QED BY <1>6, <1>7, <1>9

LEMMA BuildFailsInv == ASSUME BuilderInv, BuildFails PROVE BuilderInv'
BY DEF BuilderInv, BuildFails

LEMMA ArriveInv == ASSUME BuilderInv, NEW so \in Orders, Arrive(so) PROVE BuilderInv'
<1>1. open' \in Seq(Orders) /\ IsInjective(open')
  BY InjectiveAppend DEF BuilderInv, Arrive
<1> QED BY <1>1 DEF BuilderInv, Arrive

(* The plans a run may have read keep their rows.                          *)
LEMMA BuilderNext ==
  ASSUME BuilderInv, [Next]_vars
  PROVE  /\ BuilderInv' /\ Len(plans') >= Len(plans) /\ Len(plans) \in Nat /\ Len(plans') \in Nat
         /\ \A i \in 1 .. Len(plans) : RowsOf(plans'[i]) = RowsOf(plans[i])
<1>0. Len(plans) \in Nat /\ plans \in Seq(Plans)
  BY DEF BuilderInv
<1>1. CASE UNCHANGED planVars
  BY <1>0, <1>1 DEF planVars, BuilderInv
<1>2. CASE \E skip \in BOOLEAN : Learn(skip)
  <2>1. BuilderInv' /\ plans' = plans
    BY <1>2, LearnInv DEF Learn
  <2> QED BY <1>0, <2>1
<1>3. CASE PredictOpen
  <2>1. BuilderInv'
    BY <1>3, PredictOpenInv
  <2>2. PICK p : plans' = Append(plans, p)
    BY <1>3, PredictOpenInv
  <2> QED BY <1>0, <2>1, <2>2
<1>4. CASE WritePlan
  BY <1>0, <1>4, WritePlanInv
<1>5. CASE BuildFails
  <2>1. BuilderInv' /\ plans' = plans
    BY <1>5, BuildFailsInv DEF BuildFails
  <2> QED BY <1>0, <2>1
<1>6. CASE \E so \in Orders : Arrive(so)
  <2>1. BuilderInv' /\ plans' = plans
    BY <1>6, ArriveInv DEF Arrive
  <2> QED BY <1>0, <2>1
<1>7. CASE \E s \in Settings : Start(s)
  <2>1. UNCHANGED planVars
    BY <1>7 DEF Start
  <2> QED BY <1>1, <2>1
<1>8. CASE RunStep
  <2>1. UNCHANGED planVars
    BY <1>8 DEF RunStep, Fail, PullOpenOrders, LoadRules, FindLatestDispatchPlan, ReadSuggested,
                ReadReview, ClassifyStreams, WriteSheet, BuildIndex, OpenManifest, Finish, Generate
  <2> QED BY <1>1, <2>1
<1>9. CASE UNCHANGED vars
  BY <1>1, <1>9 DEF vars
<1> QED BY <1>1, <1>2, <1>3, <1>4, <1>5, <1>6, <1>7, <1>8, <1>9 DEF Next, Build

(* What was read stays read, and of the same plan, while others work.      *)
LEMMA LinkKept ==
  ASSUME BuilderInv, LinkInv, [Next]_vars,
         UNCHANGED <<inputs, settings, plan, rows>>,
         pulled' = pulled \/ pulled' = open,
         stage' = stage \/ settings \in Settings,
         stage' \in {"idle", "pull", "load", "link"} => stage \in {"idle", "pull", "load", "link"},
         stage' \in {"suggested", "review"} => stage \in {"suggested", "review"},
         stage' \in {"link", "suggested", "review", "classify"} => RulesValid(inputs.rules)
  PROVE  LinkInv'
<1>1. /\ Len(plans') >= Len(plans) /\ Len(plans) \in Nat /\ Len(plans') \in Nat
      /\ \A i \in 1 .. Len(plans) : RowsOf(plans'[i]) = RowsOf(plans[i])
  BY BuilderNext
<1>2. plan' = plan /\ rows' = rows /\ plan \in 0 .. Len(plans)
  BY DEF LinkInv
<1>3. plan' \in 0 .. Len(plans')
  BY <1>1, <1>2
<1>4. \A i \in DOMAIN rows' : plan' > 0 /\ \E r \in RowsOf(plans'[plan']) : ReadOf(rows'[i], r)
  <2> SUFFICES ASSUME NEW i \in DOMAIN rows
               PROVE plan > 0 /\ \E r \in RowsOf(plans'[plan]) : ReadOf(rows[i], r)
    BY <1>2
  <2>1. plan > 0 /\ \E r \in RowsOf(plans[plan]) : ReadOf(rows[i], r)
    BY DEF LinkInv
  <2>2. RowsOf(plans'[plan]) = RowsOf(plans[plan])
    BY <1>1, <1>2, <2>1
  <2> QED BY <2>1, <2>2
<1>5. pulled' \in Seq(Orders) /\ IsInjective(pulled')
  BY DEF LinkInv, BuilderInv
<1> QED BY <1>3, <1>4, <1>5 DEF LinkInv

LEMMA StartLink == ASSUME BuilderInv, LinkInv, SheetsInv, NEW s \in Settings, Start(s) PROVE LinkInv'
BY DEF LinkInv, Start, planVars

LEMMA FindLink == ASSUME BuilderInv, LinkInv, FindLatestDispatchPlan PROVE LinkInv'
<1>1. Len(plans) \in Nat /\ (plans # <<>> => Len(plans) > 0)
  BY DEF BuilderInv
<1>2. /\ plan' = Len(plans) /\ rows' = <<>> /\ plans' = plans
      /\ UNCHANGED <<inputs, settings, pulled>>
      /\ stage' = IF plans = <<>> THEN "classify" ELSE "suggested"
      /\ stage = "link"
  BY DEF FindLatestDispatchPlan, planVars, LinkInv
<1>3. plan' \in 0 .. Len(plans') /\ (stage' \in {"suggested", "review"} => plan' > 0)
  BY <1>1, <1>2
<1>4. rows' \in Seq(PlanRows) /\ DOMAIN rows' = {}
  BY <1>2
<1> QED BY <1>2, <1>3, <1>4 DEF LinkInv

LEMMA ReadSuggestedLink ==
  ASSUME BuilderInv, LinkInv, ReadSuggested
  PROVE  LinkInv'
<1>1. /\ rows' \in SuggestedReadings(plans[plan]) /\ plans' = plans /\ stage = "suggested"
      /\ stage' = "review" /\ UNCHANGED <<inputs, settings, pulled, plan>>
  BY DEF ReadSuggested, planVars
<1>2. plan \in 1 .. Len(plans) /\ plans \in Seq(Plans)
  BY <1>1 DEF LinkInv, BuilderInv
<1>3. plans[plan] \in Plans
  BY <1>2, ElementOfSeq
<1>4. /\ rows' \in Seq(PlanRows)
      /\ \A i \in DOMAIN rows' : \E r \in RowsOf(plans[plan]) : ReadOf(rows'[i], r)
  BY <1>1, <1>3, ReadingsRead
<1> QED BY <1>1, <1>2, <1>4 DEF LinkInv

LEMMA ReadReviewLink ==
  ASSUME BuilderInv, LinkInv, ReadReview
  PROVE  LinkInv'
<1>1. PICK more \in ReviewReadings(plans[plan]) : rows' = rows \o more
  BY DEF ReadReview
<1>2. /\ plans' = plans /\ stage = "review"
      /\ stage' = "classify" /\ UNCHANGED <<inputs, settings, pulled, plan>>
  BY DEF ReadReview, planVars
<1>3. plan \in 1 .. Len(plans) /\ plans \in Seq(Plans) /\ rows \in Seq(PlanRows)
  BY <1>2 DEF LinkInv, BuilderInv
<1>4. plans[plan] \in Plans
  BY <1>3, ElementOfSeq
<1>5. /\ more \in Seq(PlanRows)
      /\ \A i \in DOMAIN more : \E r \in RowsOf(plans[plan]) : ReadOf(more[i], r)
  BY <1>1, <1>4, ReadingsRead
<1>6. \A i \in DOMAIN rows : \E r \in RowsOf(plans[plan]) : ReadOf(rows[i], r)
  BY DEF LinkInv
<1>7. /\ rows' \in Seq(PlanRows)
      /\ \A i \in DOMAIN rows' : \/ i \in DOMAIN rows /\ rows'[i] = rows[i]
                                 \/ \E j \in DOMAIN more : rows'[i] = more[j]
  <2>1. /\ rows \o more \in Seq(PlanRows)
        /\ Len(rows \o more) = Len(rows) + Len(more)
        /\ \A i \in 1 .. Len(rows) + Len(more) :
             (rows \o more)[i] = IF i <= Len(rows) THEN rows[i] ELSE more[i - Len(rows)]
    BY <1>3, <1>5, ConcatProperties
  <2>2. /\ Len(rows) \in Nat /\ Len(more) \in Nat /\ DOMAIN rows = 1 .. Len(rows)
        /\ DOMAIN more = 1 .. Len(more) /\ DOMAIN rows' = 1 .. (Len(rows) + Len(more))
    BY <1>1, <1>3, <1>5, <2>1
  <2>3. ASSUME NEW i \in DOMAIN rows'
        PROVE \/ i \in DOMAIN rows /\ rows'[i] = rows[i]
              \/ \E j \in DOMAIN more : rows'[i] = more[j]
    <3>1. CASE i <= Len(rows)
      BY <1>1, <2>1, <2>2, <3>1
    <3>2. CASE ~(i <= Len(rows))
      <4>1. i - Len(rows) \in DOMAIN more
        BY <2>2, <3>2
      <4> QED BY <1>1, <2>1, <2>2, <3>2, <4>1
    <3> QED BY <3>1, <3>2
  <2> QED BY <1>1, <2>1, <2>3
<1>8. \A i \in DOMAIN rows' : \E r \in RowsOf(plans[plan]) : ReadOf(rows'[i], r)
  BY <1>5, <1>6, <1>7
<1>9. plan' \in 0 .. Len(plans') /\ plan' > 0
  BY <1>2, <1>3
<1> QED BY <1>2, <1>7, <1>8, <1>9 DEF LinkInv

LEMMA LinkNext ==
  ASSUME BuilderInv, LinkInv, SheetsInv, [Next]_vars
  PROVE  LinkInv'
<1>0. stage # "idle" => settings \in Settings
  BY DEF LinkInv
<1>1. CASE UNCHANGED <<inputs, stage, runVars>>
  BY <1>1, LinkKept DEF runVars, LinkInv
<1>2. CASE \E s \in Settings : Start(s)
  BY <1>2, StartLink
<1>3. CASE Fail
  <2>1. /\ stage # "idle" /\ stage' = "done" /\ UNCHANGED <<inputs, settings, plan, rows>>
        /\ pulled' = pulled
    BY <1>3 DEF Fail, Refused, MayRaise
  <2> QED BY <1>0, <2>1, LinkKept
<1>4. CASE PullOpenOrders
  <2>1. /\ stage = "pull" /\ stage' \in {"load", "write"} /\ UNCHANGED <<inputs, settings, plan, rows>>
        /\ pulled' = open
    BY <1>4 DEF PullOpenOrders
  <2> QED BY <1>0, <2>1, LinkKept
<1>5. CASE LoadRules
  <2>1. /\ stage = "load" /\ stage' = "link" /\ UNCHANGED <<inputs, settings, plan, rows>>
        /\ pulled' = pulled /\ RulesValid(inputs.rules)
    BY <1>5 DEF LoadRules, runVars
  <2> QED BY <1>0, <2>1, LinkKept
<1>6. CASE FindLatestDispatchPlan
  BY <1>6, FindLink
<1>7. CASE ReadSuggested
  BY <1>7, ReadSuggestedLink
<1>8. CASE ReadReview
  BY <1>8, ReadReviewLink
<1>9. CASE ClassifyStreams \/ Generate \/ BuildIndex \/ OpenManifest \/ Finish
  <2>1. /\ stage # "idle" /\ stage' \in {"generate", "write", "manifest", "fill", "done"}
        /\ UNCHANGED <<inputs, settings, plan, rows>> /\ pulled' = pulled
    BY <1>9 DEF ClassifyStreams, Generate, BuildIndex, OpenManifest, Finish
  <2> QED BY <1>0, <2>1, LinkKept
<1>10. CASE WriteSheet
  <2>1. /\ stage' = stage /\ stage = "write"
        /\ UNCHANGED <<inputs, settings, plan, rows>> /\ pulled' = pulled
    BY <1>10 DEF WriteSheet
  <2> QED BY <1>0, <2>1, LinkKept
<1>11. CASE UNCHANGED vars
  BY <1>1, <1>11 DEF vars
<1> QED BY <1>1, <1>2, <1>3, <1>4, <1>5, <1>6, <1>7, <1>8, <1>9, <1>10, <1>11 DEF Next, RunStep

(* An order is grouped by a label and a stream the program knows.          *)
LEMMA ClassifiedType ==
  ASSUME LinkInv, stage = "classify"
  PROVE  \A so \in ToSet(pulled) : Classified[so] \in Groups
<1> SUFFICES ASSUME NEW so \in ToSet(pulled) PROVE Classified[so] \in Groups
  OBVIOUS
<1> DEFINE order == inputs.book[so]
           rule == RuleFor(inputs.rules, order.consignee)
<1>1. /\ pulled \in Seq(Orders) /\ inputs.book \in [Orders -> OrderForms] /\ settings \in Settings
      /\ rows \in Seq(PlanRows) /\ inputs.rules \in Rules /\ RulesValid(inputs.rules)
  BY DEF LinkInv
<1>2. so \in Orders
  <2>1. PICK i \in DOMAIN pulled : pulled[i] = so
    BY DEF ToSet
  <2>2. pulled[i] \in Orders
    BY <1>1, <2>1, ElementOfSeq
  <2> QED BY <2>1, <2>2
<1>3. order \in OrderForms
  BY <1>1, <1>2
<1>4. rule.override \in {"pallet", "bypass", "bench", NoOverride}
  BY <1>1, RuleForType
<1>5. ClassifyStream(order, rule, DispatchFlag(so)) \in Streams
  BY <1>4, ClassifyStreamType
<1>6. RunGroup(so) \in Labels
  <2>1. AttachRun(so, rows).predicted_run \in Labels
    <3>1. CASE AttachRun(so, rows) = Row(so, NoRun, "no_run")
      BY <3>1 DEF Row, Labels
    <3>2. CASE \E i \in DOMAIN rows : rows[i] \in PlanRows /\ AttachRun(so, rows) = rows[i]
      BY <3>2 DEF PlanRows
    <3> QED BY <1>1, <1>2, <3>1, <3>2, AttachRunType
  <2>2. order.state \in Labels
    BY <1>3 DEF OrderForms, Labels
  <2> QED BY <2>1, <2>2 DEF RunGroup
<1>7. Classified[so] = [run_group |-> RunGroup(so), stream |-> ClassifyStream(order, rule, DispatchFlag(so))]
  BY DEF Classified
<1> QED BY <1>5, <1>6, <1>7 DEF Groups

LEMMA SheetsKept ==
  ASSUME SheetsInv, UNCHANGED <<inputs, stage, settings, pulled, plan, rows, group, sheets,
                                written, status>>
  PROVE  SheetsInv'
BY ClassifiedSame, GeneratedSame DEF SheetsInv, Complete

LEMMA SheetsNext ==
  ASSUME BuilderInv, LinkInv, SheetsInv, FilesInv, [Next]_vars
  PROVE  SheetsInv'
<1>1. CASE UNCHANGED <<inputs, stage, runVars>>
  BY <1>1, SheetsKept DEF runVars
<1>2. CASE \E s \in Settings : Start(s)
  BY <1>2 DEF Start, SheetsInv, Complete, FilesInv
<1>3. CASE Fail
  BY <1>3 DEF Fail, SheetsInv, Complete
<1>4. CASE PullOpenOrders
  <2>1. /\ stage = "pull" /\ group = <<>> /\ sheets = <<>> /\ written = 0 /\ status = "none"
        /\ stage' = IF pulled' = <<>> THEN "write" ELSE "load"
        /\ UNCHANGED <<group, sheets, written, status>>
    BY <1>4 DEF PullOpenOrders, SheetsInv, FilesInv
  <2> QED BY <2>1 DEF SheetsInv, Complete
<1>5. CASE LoadRules
  <2>1. /\ stage = "load" /\ stage' = "link" /\ status = "none"
        /\ UNCHANGED <<pulled, group, sheets, written, status>>
    BY <1>5 DEF LoadRules, runVars, FilesInv
  <2> QED BY <2>1 DEF SheetsInv, Complete
<1>6. CASE FindLatestDispatchPlan
  <2>1. /\ stage = "link" /\ stage' \in {"suggested", "classify"} /\ status = "none"
        /\ UNCHANGED <<pulled, group, sheets, written, status>>
    BY <1>6 DEF FindLatestDispatchPlan, FilesInv
  <2> QED BY <2>1 DEF SheetsInv, Complete
<1>7. CASE ReadSuggested \/ ReadReview
  <2>1. /\ stage \in {"suggested", "review"} /\ stage' \in {"review", "classify"} /\ status = "none"
        /\ UNCHANGED <<pulled, group, sheets, written, status>>
    BY <1>7 DEF ReadSuggested, ReadReview, FilesInv
  <2> QED BY <2>1 DEF SheetsInv, Complete
<1>8. CASE ClassifyStreams
  <2>1. /\ stage = "classify" /\ stage' = "generate" /\ status = "none"
        /\ group' = Classified
        /\ UNCHANGED <<inputs, settings, pulled, plan, rows, sheets, written, status>>
    BY <1>8 DEF ClassifyStreams, Classified, FilesInv
  <2>2. Classified' = Classified
    BY <2>1, ClassifiedSame
  <2>3. DOMAIN group' = ToSet(pulled) /\ \A so \in ToSet(pulled) : group'[so] \in Groups
    BY <2>1, ClassifiedType DEF Classified
  <2> QED BY <2>1, <2>2, <2>3 DEF SheetsInv, Complete
<1>9. CASE Generate
  <2>1. /\ stage = "generate" /\ stage' = "write" /\ status = "none"
        /\ sheets' = Generated /\ group = Classified
        /\ UNCHANGED <<inputs, settings, pulled, plan, rows, group, written, status>>
    BY <1>9 DEF Generate, Generated, SheetsInv, FilesInv
  <2>2. Classified' = Classified /\ Generated' = Generated
    BY <2>1, ClassifiedSame, GeneratedSame
  <2> QED BY <2>1, <2>2 DEF SheetsInv, Complete
<1>10. CASE WriteSheet
  <2>1. /\ stage' = stage /\ stage = "write" /\ status = "none"
        /\ UNCHANGED <<inputs, settings, pulled, plan, rows, group, sheets, status>>
    BY <1>10 DEF WriteSheet, FilesInv
  <2>2. Classified' = Classified /\ Generated' = Generated
    BY <2>1, ClassifiedSame, GeneratedSame
  <2> QED BY <2>1, <2>2 DEF SheetsInv, Complete
<1>11. CASE BuildIndex \/ OpenManifest \/ Finish
  <2>1. /\ stage \in {"write", "manifest", "fill"} /\ stage' \in {"manifest", "fill", "done"}
        /\ status' = status \/ status' = IF pulled = <<>> THEN "empty" ELSE "success"
        /\ status = "none"
        /\ UNCHANGED <<inputs, settings, pulled, plan, rows, group, sheets, written>>
    BY <1>11 DEF BuildIndex, OpenManifest, Finish, FilesInv
  <2>2. Classified' = Classified /\ Generated' = Generated
    BY <2>1, ClassifiedSame, GeneratedSame
  <2> QED BY <2>1, <2>2 DEF SheetsInv, Complete
<1>12. CASE UNCHANGED vars
  BY <1>1, <1>12 DEF vars
<1> QED BY <1>1, <1>2, <1>3, <1>4, <1>5, <1>6, <1>7, <1>8, <1>9, <1>10, <1>11, <1>12 DEF Next, RunStep

Waves == PlanWaves(pulled, inputs.book, group, settings.include_pallet_sheets)

LEMMA RunWaves ==
  ASSUME LinkInv, SheetsInv, stage # "idle", group = Classified
  PROVE  WavePlan(Waves, Due, group) /\ Due \in SUBSET Orders /\ IsFiniteSet(Due)
<1>1. /\ pulled \in Seq(Orders) /\ IsInjective(pulled) /\ inputs.book \in [Orders -> OrderForms]
      /\ settings.include_pallet_sheets \in BOOLEAN
  BY SettingsAssumption DEF LinkInv
<1>2. \A so \in ToSet(pulled) : group[so] \in Groups
  <2>1. DOMAIN Classified = ToSet(pulled)
    BY DEF Classified
  <2> QED BY <2>1 DEF SheetsInv
<1>3. WavePlan(Waves, Due, group)
  BY <1>1, <1>2, PlanWavesPlan DEF Waves, Due
<1>4. Due \in SUBSET ToSet(pulled) /\ ToSet(pulled) \in SUBSET Orders
  <2>1. \A i \in DOMAIN pulled : pulled[i] \in Orders
    BY <1>1, ElementOfSeq
  <2> QED BY <2>1 DEF Due, DueOrders, ToSet
<1>5. IsFiniteSet(ToSet(pulled))
  <2>1. IsFiniteSet(DOMAIN pulled)
    BY <1>1, FS_Interval
  <2>2. IsFiniteSet({pulled[i] : i \in DOMAIN pulled})
    BY <2>1, FiniteImage
  <2> QED BY <2>2 DEF ToSet
<1>6. IsFiniteSet(Due)
  BY <1>4, <1>5, FS_Subset
<1> QED BY <1>3, <1>4, <1>6

LEMMA GeneratedSeq ==
  ASSUME LinkInv, SheetsInv, stage # "idle", group = Classified
  PROVE  Len(Generated) \in Nat /\ DOMAIN Generated = 1 .. Len(Generated)
<1> DEFINE G == GenerateSheets(Waves, inputs.book, Placed, inputs.exported)
<1>1. IsFiniteSet(Waves)
  BY RunWaves DEF WavePlan
<1>2. IsFiniteSet(G)
  BY <1>1, SheetsFinite
<1>3. Generated = SetToSeq(G)
  BY DEF Generated, Waves
<1> HIDE DEF G
<1>4. SetToSeq(G) \in Seq(G)
  BY <1>2, SetAsSeq
<1> QED BY <1>3, <1>4

LEMMA FilesNext ==
  ASSUME LinkInv, SheetsInv, FilesInv, [Next]_vars
  PROVE  FilesInv'
<1> DEFINE ids(n, seq) == {seq[i].wave_id : i \in 1 .. n}
<1>0. /\ written \in 0 .. Len(sheets) /\ Len(sheets) \in Nat /\ DOMAIN sheets = 1 .. Len(sheets)
      /\ files \union pdf_failed = ids(written, sheets)
  BY DEF FilesInv
<1>1. CASE UNCHANGED <<inputs, stage, runVars>>
  BY <1>1 DEF runVars, FilesInv, Complete
<1>2. CASE \E s \in Settings : Start(s)
  BY <1>2 DEF Start, FilesInv, Complete
<1>3. CASE Fail
  <2>1. /\ stage # "done" /\ stage' = "done" /\ status' = "failed" /\ status = "none"
        /\ UNCHANGED <<sheets, written, files, pdf_failed, index, manifest>>
    BY <1>3 DEF Fail, FilesInv, Refused, MayRaise
  <2>2. manifest # "whole"
    BY <2>1 DEF FilesInv, Complete
  <2> QED BY <2>1, <2>2 DEF FilesInv, Complete
<1>4. CASE \/ PullOpenOrders \/ LoadRules \/ FindLatestDispatchPlan
           \/ ReadSuggested \/ ReadReview \/ ClassifyStreams
  <2>1. /\ stage \in {"pull", "load", "link", "suggested", "review", "classify"}
        /\ stage' \in {"write", "load", "link", "suggested", "review", "classify", "generate"}
        /\ UNCHANGED <<sheets, written, files, pdf_failed, index, manifest, status>>
    BY <1>4 DEF PullOpenOrders, LoadRules, FindLatestDispatchPlan, ReadSuggested, ReadReview,
                ClassifyStreams, runVars
  <2> QED BY <2>1 DEF FilesInv, Complete
<1>5. CASE Generate
  <2>1. /\ stage = "generate" /\ stage' = "write" /\ sheets' = Generated /\ group = Classified
        /\ written = 0
        /\ UNCHANGED <<written, files, pdf_failed, index, manifest, status>>
    BY <1>5 DEF Generate, Generated, SheetsInv
  <2>2. Len(Generated) \in Nat /\ DOMAIN Generated = 1 .. Len(Generated)
    BY <2>1, GeneratedSeq
  <2>3. ids(0, sheets) = {} /\ ids(0, sheets') = {}
    OBVIOUS
  <2>4. files' \union pdf_failed' = ids(written', sheets')
    BY <1>0, <2>1, <2>3
  <2>5. written' \in 0 .. Len(sheets')
    BY <2>1, <2>2
  <2> QED BY <2>1, <2>2, <2>4, <2>5 DEF FilesInv, Complete
<1>6. CASE WriteSheet
  <2>1. /\ stage = "write" /\ stage' = stage /\ written < Len(sheets) /\ written' = written + 1
        /\ files' \union pdf_failed' = (files \union pdf_failed) \union {sheets[written + 1].wave_id}
        /\ UNCHANGED <<sheets, index, manifest, status>>
    BY <1>6 DEF WriteSheet
  <2>2. 1 .. (written + 1) = (1 .. written) \union {written + 1}
    BY <1>0
  <2>3. ids(written + 1, sheets) = ids(written, sheets) \union {sheets[written + 1].wave_id}
    BY <2>2
  <2>4. files' \union pdf_failed' = ids(written', sheets')
    BY <1>0, <2>1, <2>3
  <2>5. written' \in 0 .. Len(sheets')
    BY <1>0, <2>1
  <2> QED BY <2>1, <2>4, <2>5 DEF FilesInv, Complete
<1>7. CASE BuildIndex
  <2>1. /\ stage = "write" /\ stage' = "manifest" /\ index' = TRUE /\ written = Len(sheets)
        /\ UNCHANGED <<sheets, written, files, pdf_failed, manifest, status>>
    BY <1>7 DEF BuildIndex
  <2> QED BY <2>1 DEF FilesInv, Complete
<1>8. CASE OpenManifest
  <2>1. /\ stage = "manifest" /\ stage' = "fill" /\ manifest' = "torn"
        /\ UNCHANGED <<sheets, written, files, pdf_failed, index, status>>
    BY <1>8 DEF OpenManifest
  <2> QED BY <2>1 DEF FilesInv, Complete
<1>9. CASE Finish
  <2>1. /\ stage = "fill" /\ stage' = "done" /\ manifest' = "whole"
        /\ status' \in {"empty", "success"}
        /\ UNCHANGED <<sheets, written, files, pdf_failed, index>>
    BY <1>9 DEF Finish
  <2> QED BY <2>1 DEF FilesInv, Complete
<1>10. CASE UNCHANGED vars
  BY <1>1, <1>10 DEF vars
<1> QED BY <1>1, <1>2, <1>3, <1>4, <1>5, <1>6, <1>7, <1>8, <1>9, <1>10 DEF Next, RunStep

(* The invariant holds in every state, for any orders, stock, rules and    *)
(* model, any number of plans and arrivals, and a run that fails anywhere. *)
THEOREM InvAlways == Spec => []Inv
<1>1. Inv /\ [Next]_vars => Inv'
  <2> SUFFICES ASSUME Inv, [Next]_vars PROVE Inv'
    OBVIOUS
  <2>1. BuilderInv /\ LinkInv /\ SheetsInv /\ FilesInv
    BY DEF Inv
  <2>2. BuilderInv'
    BY <2>1, BuilderNext
  <2>3. LinkInv'
    BY <2>1, LinkNext
  <2>4. SheetsInv'
    BY <2>1, SheetsNext
  <2>5. FilesInv'
    BY <2>1, FilesNext
  <2> QED BY <2>2, <2>3, <2>4, <2>5 DEF Inv
<1> QED BY <1>1, InitInv, PTL DEF Spec

----------------------------------------------------------------------------
(***************************************************************************)
(* What follows from it.                                                   *)
(***************************************************************************)
LEMMA SeqHasType ==
  ASSUME NEW S, NEW s \in Seq(S)
  PROVE  IsSeqOf(s, S)
<1>1. DOMAIN s = 1 .. Len(s)
  OBVIOUS
<1>2. \A i \in DOMAIN s : s[i] \in S
  BY <1>1, ElementOfSeq
<1> QED BY <1>1, <1>2 DEF IsSeqOf, ToSet

LEMMA InvTypeOK == Inv => TypeOK
<1> SUFFICES ASSUME Inv PROVE TypeOK
  OBVIOUS
<1>0. BuilderInv /\ LinkInv /\ SheetsInv /\ FilesInv
  BY DEF Inv
<1>1. IsSeqOf(open, Orders) /\ IsSeqOf(pulled, Orders) /\ IsSeqOf(rows, PlanRows)
  BY <1>0, SeqHasType DEF BuilderInv, LinkInv
<1>2. builder \in {"idle", "predict", "write"} /\ (builder = "idle" <=> model = NoModel)
  BY <1>0, HistoryAssumption DEF BuilderInv
<1>3. \A i \in DOMAIN plans : /\ plans[i].stage \in ToSet(PlanStages)
                              /\ IsSeqOf(plans[i].suggested, PlanRows)
                              /\ IsSeqOf(plans[i].review, PlanRows)
  <2> SUFFICES ASSUME NEW i \in DOMAIN plans
               PROVE  /\ plans[i].stage \in ToSet(PlanStages)
                      /\ IsSeqOf(plans[i].suggested, PlanRows)
                      /\ IsSeqOf(plans[i].review, PlanRows)
    OBVIOUS
  <2>1. plans \in Seq(Plans) /\ i \in 1 .. Len(plans)
    BY <1>0 DEF BuilderInv
  <2>2. plans[i] \in Plans
    BY <2>1, ElementOfSeq
  <2>3. /\ plans[i].stage \in ToSet(PlanStages)
        /\ plans[i].suggested \in Seq(PlanRows) /\ plans[i].review \in Seq(PlanRows)
    BY <2>2, FullRowsArePlanRows DEF Plans
  <2> QED BY <2>3, SeqHasType
<1>4. plan \in 0 .. Len(plans)
  BY <1>0 DEF LinkInv
<1>5. DOMAIN group \subseteq ToSet(pulled) /\ \A so \in DOMAIN group : group[so] \in Groups
  BY <1>0 DEF SheetsInv
<1> QED BY <1>0, <1>1, <1>2, <1>3, <1>4, <1>5 DEF TypeOK, FilesInv

LEMMA InvListed == Inv => ListedRunWhole
<1> SUFFICES ASSUME Inv, manifest = "whole"
             PROVE  /\ status \in {"success", "empty"} /\ index
                    /\ \A i \in DOMAIN sheets : sheets[i].wave_id \in files \union pdf_failed
  BY DEF ListedRunWhole
<1>1. /\ status \in {"success", "empty"} /\ index /\ written = Len(sheets)
      /\ DOMAIN sheets = 1 .. Len(sheets)
      /\ files \union pdf_failed = {sheets[i].wave_id : i \in 1 .. written}
  BY DEF Inv, FilesInv, Complete
<1> QED BY <1>1

LEMMA DoneRun ==
  ASSUME Inv, Done
  PROVE  /\ LinkInv /\ SheetsInv /\ stage # "idle" /\ group = Classified
         /\ sheets = SetToSeq(GenerateSheets(Waves, inputs.book, Placed, inputs.exported))
BY DEF Inv, Done, SheetsInv, FilesInv, Complete, Generated, Waves

LEMMA DoneWaves ==
  ASSUME SlugsDistinct, Inv, Done
  PROVE  /\ WavePlan(Waves, Due, group) /\ Distinct(Waves, Due)
         /\ inputs.book \in [Orders -> OrderForms]
BY DoneRun, RunWaves DEF WavePlan, Distinct, LinkInv

LEMMA InvCountedOnce == ASSUME SlugsDistinct PROVE Inv => CountedOnce
<1> SUFFICES ASSUME Inv, Done, NEW sku \in Skus PROVE Picked(sku) = Ordered(Due, sku)
  BY DEF CountedOnce
<1>1. SumFunction([i \in DOMAIN sheets |-> SheetUnits(sheets[i], sku)])
        = OrderedUnits(Due, inputs.book, sku)
  BY DoneRun, DoneWaves, SheetSeqUnits
<1>2. Picked(sku) = SumFunction([i \in DOMAIN sheets |-> SheetUnits(sheets[i], sku)])
  BY DEF Picked, SheetUnits
<1>3. Ordered(Due, sku) = OrderedUnits(Due, inputs.book, sku)
  BY DEF Ordered, OrderedUnits, OrderUnits
<1> QED BY <1>1, <1>2, <1>3

LEMMA InvOneSheet == ASSUME SlugsDistinct PROVE Inv => OrderOnOneSheet
<1> SUFFICES ASSUME Inv, Done, NEW so \in Due, TotalCartons(inputs.book[so]) > 0
             PROVE \E i \in DOMAIN sheets :
      /\ \A j \in DOMAIN sheets : so \in sheets[j].orders <=> i = j
      /\ \A l \in ToSet(inputs.book[so].lines) : l.qty > 0 =>
           \E r \in sheets[i].pick_lines : r.sku = l.sku /\ so \in r.so_refs
  BY DEF OrderOnOneSheet
<1> DEFINE G == GenerateSheets(Waves, inputs.book, Placed, inputs.exported)
           book == inputs.book
<1>1. /\ Distinct(Waves, Due) /\ book \in [Orders -> OrderForms]
      /\ sheets = SetToSeq(GenerateSheets(Waves, book, Placed, inputs.exported))
      /\ TotalCartons(book[so]) > 0
  BY DoneRun, DoneWaves
<1>2. OnOneSheet(so, book[so].lines, sheets)
  <2> HIDE DEF book
  <2> QED BY ONLY <1>1, so \in Due, OneSheet
<1> QED BY <1>2 DEF OnOneSheet

LEMMA InvUncertain == ASSUME SlugsDistinct PROVE Inv => UncertainToPallet
<1> SUFFICES ASSUME Inv, Done, plan > 0, NEW i \in DOMAIN sheets, NEW so \in Orders,
                    WavedTogether(so, sheets[i])
             PROVE \E r \in ToSet(plans[plan].suggested \o plans[plan].review) :
        /\ r.so_id = so
        /\ r.flag = "stable" \/ TornAt(so)
        /\ settings.run_group_col = "predicted_run" =>
             r.predicted_run = sheets[i].run_group
  BY DEF UncertainToPallet
<1> DEFINE G == GenerateSheets(Waves, inputs.book, Placed, inputs.exported)
           order == inputs.book[so]
           rule == RuleFor(inputs.rules, order.consignee)
           att == AttachRun(so, rows)
           p == plans[plan]
<1>1. /\ WavePlan(Waves, Due, group) /\ Distinct(Waves, Due) /\ sheets = SetToSeq(G)
      /\ group = Classified
  BY DoneRun, DoneWaves
<1>2. sheets[i] \in G
  <2>1. IsFiniteSet(G)
    BY <1>1, SheetsFinite DEF Distinct
  <2> HIDE DEF G
  <2>2. SetToSeq(G) \in Seq(G)
    BY <2>1, SetAsSeq
  <2> QED BY <1>1, <2>2, ElementOfSeq
<1>3. PICK w \in Waves : sheets[i] = Sheet(w, Waves, inputs.book, Placed, inputs.exported)
  BY <1>2 DEF GenerateSheets
<1>4. sheets[i].orders = w.orders /\ sheets[i].stream = w.stream /\ sheets[i].run_group = w.run_group
  BY <1>1, <1>3, SheetFields
<1>5. /\ so \in w.orders /\ w.stream \in Waved /\ rule.override = NoOverride
      /\ group[so].stream = w.stream /\ group[so].run_group = w.run_group /\ so \in Due
  BY <1>1, <1>4 DEF WavedTogether, Overridden, WavePlan
<1>6. so \in ToSet(pulled)
  BY <1>5 DEF Due, DueOrders
<1>7. group[so].stream = ClassifyStream(order, rule, att.flag) /\ group[so].run_group = RunGroup(so)
  BY <1>1, <1>6 DEF Classified, DispatchFlag
<1>8. att.flag \notin FlaggedDispatch
  <2>1. rule.override \in {"pallet", "bypass", "bench", NoOverride}
    BY <1>5
  <2> HIDE DEF rule, att, order
  <2> QED BY <1>5, <1>7, <2>1, ClassifyStreamType
<1>9. rows \in Seq(PlanRows) /\ \A k \in DOMAIN rows : \E r \in RowsOf(p) : ReadOf(rows[k], r)
  BY DEF Inv, LinkInv
<1>10. PICK k \in DOMAIN rows : rows[k] \in PlanRows /\ rows[k].so_id = so /\ att = rows[k]
  <2>1. att # Row(so, NoRun, "no_run")
    BY <1>8 DEF Row, FlaggedDispatch
  <2> QED BY <1>9, <2>1, AttachRunType
<1>11. PICK r \in RowsOf(p) : ReadOf(rows[k], r)
  BY <1>9
<1>12. r \in ToSet(p.suggested \o p.review) /\ r.flag \in Flags
  <2>1. plans \in Seq(Plans) /\ plan \in 1 .. Len(plans)
    BY DEF Inv, BuilderInv, LinkInv
  <2>2. p \in Plans
    BY <2>1, ElementOfSeq
  <2> DEFINE s == p.suggested
             v == p.review
             c == s \o v
  <2>3. s \in Seq(FullRows) /\ v \in Seq(FullRows)
    BY <2>2 DEF Plans
  <2> HIDE DEF p
  <2>4. /\ Len(s) \in Nat /\ Len(v) \in Nat /\ DOMAIN s = 1 .. Len(s) /\ DOMAIN v = 1 .. Len(v)
        /\ DOMAIN c = 1 .. (Len(s) + Len(v))
        /\ \A n \in 1 .. Len(s) : c[n] = s[n] /\ n \in DOMAIN c
        /\ \A n \in 1 .. Len(v) : c[Len(s) + n] = v[n] /\ Len(s) + n \in DOMAIN c
    <3>1. /\ c \in Seq(FullRows) /\ Len(c) = Len(s) + Len(v)
          /\ \A n \in 1 .. Len(s) + Len(v) : c[n] = IF n <= Len(s) THEN s[n] ELSE v[n - Len(s)]
      BY <2>3, ConcatProperties
    <3> HIDE DEF s, v, c
    <3>2. Len(s) \in Nat /\ Len(v) \in Nat /\ DOMAIN s = 1 .. Len(s) /\ DOMAIN v = 1 .. Len(v)
      BY <2>3
    <3>3. DOMAIN c = 1 .. (Len(s) + Len(v))
      BY <3>1
    <3>4. \A n \in 1 .. Len(s) : c[n] = s[n] /\ n \in DOMAIN c
      BY <3>1, <3>2, <3>3
    <3>5. \A n \in 1 .. Len(v) : c[Len(s) + n] = v[n] /\ Len(s) + n \in DOMAIN c
      <4> SUFFICES ASSUME NEW n \in 1 .. Len(v)
                   PROVE c[Len(s) + n] = v[n] /\ Len(s) + n \in DOMAIN c
        OBVIOUS
      <4>1. /\ Len(s) + n \in 1 .. Len(s) + Len(v) /\ ~(Len(s) + n <= Len(s))
            /\ (Len(s) + n) - Len(s) = n
        BY <3>2
      <4> QED BY <3>1, <3>3, <4>1
    <3> QED BY <3>2, <3>3, <3>4, <3>5
  <2>5. \E n \in DOMAIN c : c[n] = r
    <3>1. CASE r \in ToSet(s)
      BY <2>4, <3>1 DEF ToSet
    <3>2. CASE r \in ToSet(v)
      BY <2>4, <3>2 DEF ToSet
    <3> QED BY <1>11, <3>1, <3>2 DEF RowsOf
  <2>6. r \in FullRows
    <3>1. \A n \in DOMAIN s : s[n] \in FullRows
      BY <2>3, <2>4, ElementOfSeq
    <3>2. \A n \in DOMAIN v : v[n] \in FullRows
      BY <2>3, <2>4, ElementOfSeq
    <3> QED BY <1>11, <3>1, <3>2 DEF RowsOf, ToSet
  <2> QED BY <2>5, <2>6 DEF ToSet, FullRows
<1>13. r.so_id = so /\ (r.flag = "stable" \/ TornAt(so)) /\ r.predicted_run = att.predicted_run
  BY <1>8, <1>10, <1>11, <1>12 DEF ReadOf, FlaggedDispatch, Flags, TornAt
<1>14. settings.run_group_col = "predicted_run" => r.predicted_run = sheets[i].run_group
  BY <1>4, <1>5, <1>7, <1>13 DEF RunGroup
<1> QED BY <1>12, <1>13, <1>14

(* Every variable keeps its shape: the plans are rows of known orders, the *)
(* groups are labels and streams, and no more sheets are written than made. *)
THEOREM TypeOKAlways == Spec => []TypeOK
BY InvAlways, InvTypeOK, PTL

(* A run whose manifest parses, and so is listed by the consoles (runs.py), *)
(* did not fail, has its index, and every sheet has its files or a PDF that *)
(* raised.                                                                 *)
THEOREM ListedAlways == Spec => []ListedRunWhole
BY InvAlways, InvListed, PTL

(* Over all sheets of a completed run every product is picked as often as  *)
(* the orders due ask for it (split_line, wave_picks, generate_sheets), when *)
(* the labels of the run groups differ in their slugs.                     *)
THEOREM CountedAlways == ASSUME SlugsDistinct PROVE Spec => []CountedOnce
BY InvAlways, InvCountedOnce, PTL

(* Every order due with something to pick is on one sheet, whose rows name *)
(* it for each of its products, when the labels differ in their slugs.     *)
THEOREM OneSheetAlways == ASSUME SlugsDistinct PROVE Spec => []OrderOnOneSheet
BY InvAlways, InvOneSheet, PTL

(* An order is waved only on a stable prediction of the plan the run read, *)
(* and with the orders predicted for its run, whatever the builder wrote   *)
(* meanwhile, but for a review.csv cut in that order's flag                *)
(* (attach_dispatch_runs, classify_stream).                                *)
THEOREM UncertainAlways == ASSUME SlugsDistinct PROVE Spec => []UncertainToPallet
BY InvAlways, InvUncertain, PTL
=============================================================================

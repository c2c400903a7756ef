---------------------------- MODULE SumTheorems ----------------------------
(***************************************************************************)
(* What SumFunctionOnSet of module Functions returns.  The carts, the      *)
(* lines of a sale and the adjustments under way are summed with it.       *)
(*                                                                         *)
(* The operator recurs over the subsets of its set.  An induction over     *)
(* them is a minimal counterexample here: StrictSubsetOrdering is well     *)
(* founded on the finite sets, so a set of sets that fail has a smallest.  *)
(***************************************************************************)
EXTENDS Integers, FiniteSets, Functions, FiniteSetTheorems, WellFoundedInduction, TLAPS

\* Among sets of elements of a finite set one holds no other.
LEMMA Smallest ==
  ASSUME NEW T, IsFiniteSet(T), NEW Bad \in SUBSET (SUBSET T), Bad # {}
  PROVE  \E S \in Bad : IsFiniteSet(S) /\ \A x \in S : S \ {x} \notin Bad
  <1>1. FiniteSubsetsOf(T) = SUBSET T
    BY FS_FiniteSubsetsOfFinite
  <1>2. IsWellFoundedOn(StrictSubsetOrdering(T), SUBSET T)
    BY <1>1, FS_StrictSubsetOrderingWellFounded
  <1>3. PICK S \in Bad : \A U \in Bad : <<U, S>> \notin StrictSubsetOrdering(T)
    <2>1. Bad \subseteq SUBSET T
      OBVIOUS
    <2>. QED BY <1>2, <2>1, WFMin
  <1>4. IsFiniteSet(S)
    BY FS_Subset
  <1>5. ASSUME NEW x \in S
        PROVE  S \ {x} \notin Bad
    <2>1. <<S \ {x}, S>> \in (SUBSET T) \X (SUBSET T) /\ S \ {x} \subseteq S /\ S \ {x} # S
      OBVIOUS
    <2>2. <<S \ {x}, S>> \in StrictSubsetOrdering(T)
      BY <2>1 DEF StrictSubsetOrdering
    <2>. QED BY <1>3, <2>2
  <1>. QED BY <1>4, <1>5

----------------------------------------------------------------------------
(* The function the definition of SumFunctionOnSet chooses exists.         *)

Chosen(s) == CHOOSE x \in s : TRUE

\* g[s] is the sum of w over s, for every subset s of S.
Recurs(g, w, S) ==
    g = [s \in SUBSET S |-> IF s = {} THEN 0 ELSE w[Chosen(s)] + g[s \ {Chosen(s)}]]

LEMMA ChosenIn ==
  ASSUME NEW s, s # {}
  PROVE  Chosen(s) \in s
  BY DEF Chosen

LEMMA SumIsTheChosen ==
  ASSUME NEW w, NEW S
  PROVE  SumFunctionOnSet(w, S) = (CHOOSE g : Recurs(g, w, S))[S]
  BY DEF SumFunctionOnSet, FoldFunctionOnSet, MapThenFoldSet, Recurs, Chosen

LEMMA RecursValues ==
  ASSUME NEW g, NEW w, NEW S, Recurs(g, w, S), NEW s \in SUBSET S
  PROVE  g[s] = IF s = {} THEN 0 ELSE w[Chosen(s)] + g[s \ {Chosen(s)}]
  BY DEF Recurs

\* Two such functions agree where both are defined.
LEMMA RecursAgree ==
  ASSUME NEW w, NEW S, IsFiniteSet(S), NEW T, NEW g, NEW h,
         Recurs(g, w, S), Recurs(h, w, T), NEW s \in SUBSET S, s \in SUBSET T
  PROVE  g[s] = h[s]
  <1>. DEFINE Bad == {t \in SUBSET S : t \in SUBSET T /\ g[t] # h[t]}
  <1>1. SUFFICES ASSUME Bad # {}
                 PROVE  FALSE
    OBVIOUS
  <1>2. PICK t \in Bad : \A x \in t : t \ {x} \notin Bad
    <2>1. Bad \in SUBSET (SUBSET S)
      OBVIOUS
    <2>. HIDE DEF Bad
    <2>. QED BY <1>1, <2>1, Smallest
  <1>3. g[t] = (IF t = {} THEN 0 ELSE w[Chosen(t)] + g[t \ {Chosen(t)}])
    BY RecursValues
  <1>4. h[t] = (IF t = {} THEN 0 ELSE w[Chosen(t)] + h[t \ {Chosen(t)}])
    BY RecursValues
  <1>5. CASE t = {}
    BY <1>3, <1>4, <1>5
  <1>6. CASE t # {}
    <2>1. t \ {Chosen(t)} \notin Bad /\ t \ {Chosen(t)} \in SUBSET S /\ t \ {Chosen(t)} \in SUBSET T
      BY <1>2, <1>6, ChosenIn
    <2>2. g[t \ {Chosen(t)}] = h[t \ {Chosen(t)}]
      BY <2>1
    <2>. QED BY <1>3, <1>4, <1>6, <2>2
  <1>. QED BY <1>5, <1>6

LEMMA RecursExists ==
  ASSUME NEW w, NEW S, IsFiniteSet(S)
  PROVE  \E g : Recurs(g, w, S)
  <1>. DEFINE Bad == {t \in SUBSET S : ~ \E g : Recurs(g, w, t)}
  <1>1. SUFFICES ASSUME Bad # {}
                 PROVE  FALSE
    OBVIOUS
  <1>2. PICK t \in Bad : IsFiniteSet(t) /\ \A x \in t : t \ {x} \notin Bad
    <2>1. Bad \in SUBSET (SUBSET S)
      OBVIOUS
    <2>. HIDE DEF Bad
    <2>. QED BY <1>1, <2>1, Smallest
  <1>. DEFINE G(x) == CHOOSE g : Recurs(g, w, t \ {x})
              h == [s \in SUBSET t |->
                      IF s = t THEN w[Chosen(t)] + G(Chosen(t))[t \ {Chosen(t)}]
                      ELSE G(CHOOSE x \in t : x \notin s)[s]]
  <1>3. ASSUME NEW x \in t
        PROVE  Recurs(G(x), w, t \ {x}) /\ IsFiniteSet(t \ {x})
    <2>1. \E g : Recurs(g, w, t \ {x})
      BY <1>2
    <2>. QED BY <2>1, <1>2, FS_RemoveElement
  <1>4. ASSUME NEW x \in t, NEW s \in SUBSET (t \ {x})
        PROVE  h[s] = G(x)[s]
    <2>. DEFINE y == CHOOSE y \in t : y \notin s
    <2>1. y \in t /\ y \notin s /\ s # t
      OBVIOUS
    <2>2. h[s] = G(y)[s]
      BY <2>1
    <2>. HIDE DEF y, h
    <2>3. Recurs(G(x), w, t \ {x}) /\ IsFiniteSet(t \ {x}) /\ Recurs(G(y), w, t \ {y})
      BY <1>3, <2>1
    <2>. HIDE DEF G
    <2>4. s \in SUBSET (t \ {y})
      BY <2>1
    <2>5. G(x)[s] = G(y)[s]
      BY <2>3, <2>4, RecursAgree
    <2>. QED BY <2>2, <2>5
  <1>5. ASSUME NEW s \in SUBSET t
        PROVE  h[s] = IF s = {} THEN 0 ELSE w[Chosen(s)] + h[s \ {Chosen(s)}]
    <2>1. CASE s = t /\ s # {}
      <3>1. Chosen(t) \in t
        BY <2>1, ChosenIn
      <3>2. h[t \ {Chosen(t)}] = G(Chosen(t))[t \ {Chosen(t)}]
        BY <3>1, <1>4
      <3>3. h[t] = w[Chosen(t)] + G(Chosen(t))[t \ {Chosen(t)}]
        OBVIOUS
      <3>. QED BY <2>1, <3>2, <3>3
    <2>2. CASE s # t
      <3>1. PICK x \in t : x \notin s
        BY <2>2
      <3>2. s \in SUBSET (t \ {x}) /\ s \ {Chosen(s)} \in SUBSET (t \ {x})
        BY <3>1
      <3>3. h[s] = G(x)[s] /\ h[s \ {Chosen(s)}] = G(x)[s \ {Chosen(s)}]
        BY <1>4, <3>2
      <3>4. Recurs(G(x), w, t \ {x})
        BY <1>3
      <3>. HIDE DEF G, h
      <3>5. G(x)[s] = IF s = {} THEN 0 ELSE w[Chosen(s)] + G(x)[s \ {Chosen(s)}]
        BY <3>2, <3>4, RecursValues
      <3>. QED BY <3>3, <3>5
    <2>3. CASE t = {}
      <3>1. s = {} /\ s = t
        BY <2>3
      <3>2. Recurs([u \in SUBSET {} |-> 0], w, {})
        BY DEF Recurs
      <3>. QED BY <1>2, <2>3, <3>2
    <2>. QED BY <2>1, <2>2, <2>3
  <1>6. h = [s \in SUBSET t |-> h[s]]
    OBVIOUS
  <1>. HIDE DEF h
  <1>7. Recurs(h, w, t)
    BY <1>5, <1>6 DEF Recurs
  <1>. QED BY <1>2, <1>7

LEMMA SumIsRecursive ==
  ASSUME NEW w, NEW S, IsFiniteSet(S)
  PROVE  \E g : Recurs(g, w, S) /\ SumFunctionOnSet(w, S) = g[S]
  BY RecursExists, SumIsTheChosen

----------------------------------------------------------------------------
(* The sum of nothing, and of a set with one element taken out.            *)

LEMMA SumOfNothing ==
  ASSUME NEW w
  PROVE  SumFunctionOnSet(w, {}) = 0
  <1>1. PICK g : Recurs(g, w, {}) /\ SumFunctionOnSet(w, {}) = g[{}]
    BY FS_EmptySet, SumIsRecursive
  <1>. QED BY <1>1, RecursValues

LEMMA SumStep ==
  ASSUME NEW w, NEW S, IsFiniteSet(S), S # {}
  PROVE  /\ Chosen(S) \in S
         /\ SumFunctionOnSet(w, S) = w[Chosen(S)] + SumFunctionOnSet(w, S \ {Chosen(S)})
  <1>. DEFINE R == S \ {Chosen(S)}
  <1>1. Chosen(S) \in S
    BY ChosenIn
  <1>2. IsFiniteSet(R)
    BY FS_RemoveElement
  <1>3. PICK g : Recurs(g, w, S) /\ SumFunctionOnSet(w, S) = g[S]
    BY SumIsRecursive
  <1>4. PICK h : Recurs(h, w, R) /\ SumFunctionOnSet(w, R) = h[R]
    BY <1>2, SumIsRecursive
  <1>5. g[R] = h[R]
    BY <1>3, <1>4, RecursAgree
  <1>6. g[S] = w[Chosen(S)] + g[R]
    BY <1>3, RecursValues
  <1>. QED BY <1>1, <1>3, <1>4, <1>5, <1>6

\* Sums of integers are integers, of naturals naturals.
THEOREM SumType ==
  ASSUME NEW w, NEW S, IsFiniteSet(S), \A x \in S : w[x] \in Int
  PROVE  SumFunctionOnSet(w, S) \in Int
  <1>. DEFINE Bad == {t \in SUBSET S : SumFunctionOnSet(w, t) \notin Int}
  <1>1. SUFFICES ASSUME Bad # {}
                 PROVE  FALSE
    OBVIOUS
  <1>2. PICK t \in Bad : IsFiniteSet(t) /\ \A x \in t : t \ {x} \notin Bad
    <2>1. Bad \in SUBSET (SUBSET S)
      OBVIOUS
    <2>. HIDE DEF Bad
    <2>. QED BY <1>1, <2>1, Smallest
  <1>3. t # {}
    BY SumOfNothing
  <1>4. /\ Chosen(t) \in t
        /\ SumFunctionOnSet(w, t) = w[Chosen(t)] + SumFunctionOnSet(w, t \ {Chosen(t)})
    BY <1>2, <1>3, SumStep
  <1>5. SumFunctionOnSet(w, t \ {Chosen(t)}) \in Int
    BY <1>2, <1>4
  <1>. QED BY <1>4, <1>5

\* Any element may be taken out first.
THEOREM SumRemove ==
  ASSUME NEW w, NEW S, IsFiniteSet(S), \A x \in S : w[x] \in Int, NEW x \in S
  PROVE  SumFunctionOnSet(w, S) = w[x] + SumFunctionOnSet(w, S \ {x})
  <1>. DEFINE Sum(t) == SumFunctionOnSet(w, t)
              Bad == {t \in SUBSET S : \E y \in t : Sum(t) # w[y] + Sum(t \ {y})}
  <1>1. SUFFICES ASSUME Bad # {}
                 PROVE  FALSE
    OBVIOUS
  <1>2. PICK t \in Bad : IsFiniteSet(t) /\ \A y \in t : t \ {y} \notin Bad
    <2>1. Bad \in SUBSET (SUBSET S)
      OBVIOUS
    <2>. HIDE DEF Bad
    <2>. QED BY <1>1, <2>1, Smallest
  <1>3. PICK y \in t : Sum(t) # w[y] + Sum(t \ {y})
    OBVIOUS
  <1>. DEFINE c == Chosen(t)
  <1>4. c \in t /\ Sum(t) = w[c] + Sum(t \ {c})
    BY <1>2, <1>3, SumStep
  <1>. HIDE DEF c
  <1>5. y # c
    BY <1>3, <1>4
  <1>6. Sum(t \ {c}) = w[y] + Sum((t \ {c}) \ {y})
    BY <1>2, <1>4, <1>5
  <1>7. Sum(t \ {y}) = w[c] + Sum((t \ {y}) \ {c})
    BY <1>2, <1>4, <1>5
  <1>8. (t \ {c}) \ {y} = (t \ {y}) \ {c}
    OBVIOUS
  <1>9. Sum((t \ {c}) \ {y}) \in Int
    <2>1. IsFiniteSet((t \ {c}) \ {y}) /\ (t \ {c}) \ {y} \subseteq S
      BY <1>2, FS_RemoveElement
    <2>. QED BY <2>1, SumType
  <1>10. w[c] \in Int /\ w[y] \in Int
    BY <1>4
  <1>. HIDE DEF Sum
  <1>. QED BY <1>3, <1>4, <1>6, <1>7, <1>8, <1>9, <1>10

\* Only the weights of its elements matter.
THEOREM SumAgree ==
  ASSUME NEW w, NEW v, NEW S, IsFiniteSet(S), \A x \in S : w[x] = v[x]
  PROVE  SumFunctionOnSet(w, S) = SumFunctionOnSet(v, S)
  <1>. DEFINE Bad == {t \in SUBSET S : SumFunctionOnSet(w, t) # SumFunctionOnSet(v, t)}
  <1>1. SUFFICES ASSUME Bad # {}
                 PROVE  FALSE
    OBVIOUS
  <1>2. PICK t \in Bad : IsFiniteSet(t) /\ \A x \in t : t \ {x} \notin Bad
    <2>1. Bad \in SUBSET (SUBSET S)
      OBVIOUS
    <2>. HIDE DEF Bad
    <2>. QED BY <1>1, <2>1, Smallest
  <1>3. t # {}
    BY SumOfNothing
  <1>4. /\ Chosen(t) \in t
        /\ SumFunctionOnSet(w, t) = w[Chosen(t)] + SumFunctionOnSet(w, t \ {Chosen(t)})
        /\ SumFunctionOnSet(v, t) = v[Chosen(t)] + SumFunctionOnSet(v, t \ {Chosen(t)})
    BY <1>2, <1>3, SumStep
  <1>5. SumFunctionOnSet(w, t \ {Chosen(t)}) = SumFunctionOnSet(v, t \ {Chosen(t)})
    BY <1>2, <1>4
  <1>. QED BY <1>4, <1>5

\* A sum of smaller weights is smaller, and one of naturals is a natural.
THEOREM SumMonotone ==
  ASSUME NEW w, NEW v, NEW S, IsFiniteSet(S),
         \A x \in S : w[x] \in Int /\ v[x] \in Int /\ w[x] <= v[x]
  PROVE  SumFunctionOnSet(w, S) <= SumFunctionOnSet(v, S)
  <1>. DEFINE Bad == {t \in SUBSET S : ~ (SumFunctionOnSet(w, t) <= SumFunctionOnSet(v, t))}
  <1>1. SUFFICES ASSUME Bad # {}
                 PROVE  FALSE
    OBVIOUS
  <1>2. PICK t \in Bad : IsFiniteSet(t) /\ \A x \in t : t \ {x} \notin Bad
    <2>1. Bad \in SUBSET (SUBSET S)
      OBVIOUS
    <2>. HIDE DEF Bad
    <2>. QED BY <1>1, <2>1, Smallest
  <1>3. t # {}
    BY SumOfNothing
  <1>. DEFINE c == Chosen(t)
  <1>4. /\ c \in t
        /\ SumFunctionOnSet(w, t) = w[c] + SumFunctionOnSet(w, t \ {c})
        /\ SumFunctionOnSet(v, t) = v[c] + SumFunctionOnSet(v, t \ {c})
    BY <1>2, <1>3, SumStep
  <1>. HIDE DEF c
  <1>5. SumFunctionOnSet(w, t \ {c}) <= SumFunctionOnSet(v, t \ {c})
    BY <1>2, <1>4
  <1>6. SumFunctionOnSet(w, t \ {c}) \in Int /\ SumFunctionOnSet(v, t \ {c}) \in Int
    <2>1. IsFiniteSet(t \ {c}) /\ t \ {c} \subseteq S
      BY <1>2, FS_RemoveElement
    <2>. QED BY <2>1, SumType
  <1>. QED BY <1>4, <1>5, <1>6

THEOREM SumNat ==
  ASSUME NEW w, NEW S, IsFiniteSet(S), \A x \in S : w[x] \in Nat
  PROVE  SumFunctionOnSet(w, S) \in Nat
  <1>. DEFINE Bad == {t \in SUBSET S : SumFunctionOnSet(w, t) \notin Nat}
  <1>1. SUFFICES ASSUME Bad # {}
                 PROVE  FALSE
    OBVIOUS
  <1>2. PICK t \in Bad : IsFiniteSet(t) /\ \A x \in t : t \ {x} \notin Bad
    <2>1. Bad \in SUBSET (SUBSET S)
      OBVIOUS
    <2>. HIDE DEF Bad
    <2>. QED BY <1>1, <2>1, Smallest
  <1>3. t # {}
    BY SumOfNothing
  <1>4. /\ Chosen(t) \in t
        /\ SumFunctionOnSet(w, t) = w[Chosen(t)] + SumFunctionOnSet(w, t \ {Chosen(t)})
    BY <1>2, <1>3, SumStep
  <1>5. SumFunctionOnSet(w, t \ {Chosen(t)}) \in Nat
    BY <1>2, <1>4
  <1>. QED BY <1>4, <1>5

\* A weight that changes moves the sum by the difference.
THEOREM SumUpdate ==
  ASSUME NEW w, NEW v, NEW S, IsFiniteSet(S), NEW x \in S,
         \A y \in S : w[y] \in Int /\ v[y] \in Int, \A y \in S \ {x} : w[y] = v[y]
  PROVE  SumFunctionOnSet(v, S) = SumFunctionOnSet(w, S) - w[x] + v[x]
  <1>1. IsFiniteSet(S \ {x})
    BY FS_RemoveElement
  <1>2. SumFunctionOnSet(w, S \ {x}) = SumFunctionOnSet(v, S \ {x})
    BY <1>1, SumAgree
  <1>3. SumFunctionOnSet(w, S \ {x}) \in Int
    BY <1>1, SumType
  <1>4. /\ SumFunctionOnSet(w, S) = w[x] + SumFunctionOnSet(w, S \ {x})
        /\ SumFunctionOnSet(v, S) = v[x] + SumFunctionOnSet(v, S \ {x})
    BY SumRemove
  <1>5. w[x] \in Int /\ v[x] \in Int
    OBVIOUS
  <1>. QED BY <1>2, <1>3, <1>4, <1>5
=============================================================================

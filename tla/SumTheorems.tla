---------------------------- MODULE SumTheorems ----------------------------
(***************************************************************************)
(* Sums over finite sets, as MapThenSumSet of FiniteSetsExt computes them. *)
(*                                                                         *)
(* MapThenSumSet takes its summand as an operator.  The facts here are     *)
(* about the recursive function it unfolds to, with the summand a function *)
(* w; a module that sums something of its own shows that its operator      *)
(* unfolds to such a function and cites them.  The inductions look for a   *)
(* smallest counterexample among the subsets of a finite set.              *)
(***************************************************************************)
EXTENDS FiniteSetsExt, FiniteSetTheorems, TLAPS

\* The element a sum takes next.
Pick(s) == CHOOSE x \in s : TRUE

\* g[s] is the sum of w over s, for the subsets s of S.
Sums(g, S, w) ==
    g = [s \in SUBSET S |->
            IF s = {} THEN 0 ELSE w[Pick(s)] + g[s \ {Pick(s)}]]

-----------------------------------------------------------------------------

\* Of the subsets of a finite set that are counterexamples to something, one
\* has no other below it.
LEMMA SmallestSubset ==
    ASSUME NEW S, IsFiniteSet(S), NEW bad, bad \subseteq SUBSET S, bad # {}
    PROVE  \E s \in bad : \A u \in SUBSET s : u \in bad => u = s
<1>1. IsWellFoundedOn(StrictSubsetOrdering(S), FiniteSubsetsOf(S))
    BY FS_StrictSubsetOrderingWellFounded
<1>2. bad \subseteq FiniteSubsetsOf(S)
    BY FS_FiniteSubsetsOfFinite
<1>3. \E s \in bad : \A u \in bad : ~(<<u, s>> \in StrictSubsetOrdering(S))
    BY <1>1, <1>2, WFMin
<1>4. PICK s \in bad : \A u \in bad : ~(<<u, s>> \in StrictSubsetOrdering(S))
    BY <1>3
<1>5. ASSUME NEW u \in SUBSET s, u \in bad, u # s
      PROVE  <<u, s>> \in StrictSubsetOrdering(S)
  <2>1. <<u, s>> \in (SUBSET S) \X (SUBSET S)
    OBVIOUS
  <2>2. <<u, s>>[1] \subseteq <<u, s>>[2] /\ <<u, s>>[1] # <<u, s>>[2]
    BY <1>5
  <2> QED BY <2>1, <2>2 DEF StrictSubsetOrdering
<1>6. \A u \in SUBSET s : u \in bad => u = s
    BY <1>4, <1>5
<1> QED BY <1>6

\* What the equation of a sum says of one set.
LEMMA SumUnfold ==
    ASSUME NEW S, NEW w, NEW g, Sums(g, S, w), NEW s \in SUBSET S
    PROVE  /\ s = {} => g[s] = 0
           /\ s # {} => /\ Pick(s) \in s
                        /\ g[s] = w[Pick(s)] + g[s \ {Pick(s)}]
<1>1. g[s] = IF s = {} THEN 0 ELSE w[Pick(s)] + g[s \ {Pick(s)}]
  <2> DEFINE h == [u \in SUBSET S |->
                     IF u = {} THEN 0 ELSE w[Pick(u)] + g[u \ {Pick(u)}]]
  <2>1. g = h
    BY DEF Sums
  <2>2. h[s] = IF s = {} THEN 0 ELSE w[Pick(s)] + g[s \ {Pick(s)}]
    OBVIOUS
  <2> QED BY <2>1, <2>2
<1>2. s # {} => Pick(s) \in s
    BY DEF Pick
<1> QED BY <1>1, <1>2

\* A sum depends only on what is summed.
LEMMA SumsAgree ==
    ASSUME NEW S, NEW T, IsFiniteSet(S), NEW w, NEW v, NEW g, NEW h,
           Sums(g, S, w), Sums(h, T, v),
           NEW s \in SUBSET S, s \subseteq T, \A x \in s : w[x] = v[x]
    PROVE  g[s] = h[s]
<1> DEFINE bad == {u \in SUBSET s : g[u] # h[u]}
<1>1. SUFFICES bad = {}
    OBVIOUS
<1>2. SUFFICES ASSUME bad # {} PROVE FALSE
    OBVIOUS
<1>3. bad \subseteq SUBSET S
    OBVIOUS
<1> HIDE DEF bad
<1>4. PICK u \in bad : \A t \in SUBSET u : t \in bad => t = u
    BY <1>2, <1>3, SmallestSubset
<1>5. u \in SUBSET s /\ g[u] # h[u]
    BY DEF bad
<1>6. u # {} /\ Pick(u) \in u
  <2>1. u \in SUBSET S /\ u \in SUBSET T
    BY <1>5
  <2>2. \A t \in SUBSET S : (t = {} => g[t] = 0) /\ (t # {} => Pick(t) \in t)
    BY ONLY Sums(g, S, w), SumUnfold
  <2>3. \A t \in SUBSET T : t = {} => h[t] = 0
    BY ONLY Sums(h, T, v), SumUnfold
  <2>4. u # {}
    BY <1>5, <2>1, <2>2, <2>3, Zenon
  <2>5. u # {} => Pick(u) \in u
    BY <2>1, <2>2, Zenon
  <2> QED BY <2>4, <2>5, Zenon
<1>7. g[u \ {Pick(u)}] = h[u \ {Pick(u)}]
  <2>1. u \ {Pick(u)} \notin bad
    BY <1>4, <1>6
  <2> QED BY <1>5, <2>1 DEF bad
<1>8. /\ g[u] = w[Pick(u)] + g[u \ {Pick(u)}]
      /\ h[u] = v[Pick(u)] + h[u \ {Pick(u)}]
    BY <1>5, <1>6, SumUnfold
<1> QED BY <1>5, <1>6, <1>7, <1>8

\* There is such a function, for every finite set.
LEMMA SumsExist ==
    ASSUME NEW S, IsFiniteSet(S), NEW w
    PROVE  \E g : Sums(g, S, w)
<1> DEFINE bad == {T \in SUBSET S : ~\E g : Sums(g, T, w)}
<1>1. SUFFICES ASSUME bad # {} PROVE FALSE
    OBVIOUS
<1>2. bad \subseteq SUBSET S
    OBVIOUS
<1> HIDE DEF bad
<1>3. PICK T \in bad : \A u \in SUBSET T : u \in bad => u = T
    BY <1>1, <1>2, SmallestSubset
<1>4. T \in SUBSET S /\ ~\E g : Sums(g, T, w)
    BY DEF bad
<1> DEFINE G(u) == CHOOSE g : Sums(g, u, w)
<1>5. ASSUME NEW u \in SUBSET T, u # T
      PROVE  Sums(G(u), u, w) /\ IsFiniteSet(u)
  <2>1. u \in SUBSET S /\ u \notin bad
    BY <1>3, <1>4, <1>5
  <2>2. \E g : Sums(g, u, w)
    BY <2>1 DEF bad
  <2> QED BY <2>1, <2>2, FS_Subset
<1> DEFINE rest(u) == u \ {Pick(u)}
           h == [u \in SUBSET T |->
                    IF u = {} THEN 0 ELSE w[Pick(u)] + G(rest(u))[rest(u)]]
<1> HIDE DEF G
<1>6. ASSUME NEW t \in SUBSET T, t # T
      PROVE  h[t] = G(t)[t]
  <2>1. Sums(G(t), t, w) /\ IsFiniteSet(t)
    BY <1>5, <1>6
  <2>2. CASE t = {}
    <3>1. G(t)[t] = 0
      BY <2>1, <2>2, SumUnfold
    <3> QED BY <2>2, <3>1
  <2>3. CASE t # {}
    <3>1. Pick(t) \in t
      BY <2>3 DEF Pick
    <3>2. rest(t) \in SUBSET T /\ rest(t) # T /\ rest(t) \in SUBSET t
      BY <3>1
    <3> DEFINE r == rest(t)
    <3> HIDE DEF r
    <3>3. Sums(G(r), r, w)
      BY <1>5, <3>2 DEF r
    <3>4. G(t)[r] = G(r)[r]
      BY <2>1, <3>2, <3>3, SumsAgree DEF r
    <3>5. G(t)[t] = w[Pick(t)] + G(t)[r]
      BY <2>1, <2>3, SumUnfold DEF r
    <3>6. h[t] = w[Pick(t)] + G(r)[r]
      BY <2>3 DEF r
    <3> QED BY <3>4, <3>5, <3>6
  <2> QED BY <2>2, <2>3
<1>7. h = [u \in SUBSET T |->
              IF u = {} THEN 0 ELSE w[Pick(u)] + h[rest(u)]]
  <2>1. ASSUME NEW u \in SUBSET T, u # {}
        PROVE  h[rest(u)] = G(rest(u))[rest(u)]
    <3>1. Pick(u) \in u
      BY <2>1 DEF Pick
    <3>2. rest(u) \in SUBSET T /\ rest(u) # T
      BY <3>1
    <3> QED BY <1>6, <3>2
  <2> QED BY <2>1
<1>8. Sums(h, T, w)
    BY <1>7 DEF Sums
<1> QED BY <1>4, <1>8

\* A sum of integers is an integer.
LEMMA SumsInt ==
    ASSUME NEW S, IsFiniteSet(S), NEW w, \A x \in S : w[x] \in Int,
           NEW g, Sums(g, S, w), NEW s \in SUBSET S
    PROVE  g[s] \in Int
<1> DEFINE bad == {u \in SUBSET S : g[u] \notin Int}
<1>1. SUFFICES ASSUME bad # {} PROVE FALSE
    OBVIOUS
<1>2. bad \subseteq SUBSET S
    OBVIOUS
<1> HIDE DEF bad
<1>3. PICK u \in bad : \A t \in SUBSET u : t \in bad => t = u
    BY <1>1, <1>2, SmallestSubset
<1>4. u \in SUBSET S /\ g[u] \notin Int
    BY DEF bad
<1>5. u # {} /\ Pick(u) \in u /\ g[u] = w[Pick(u)] + g[u \ {Pick(u)}]
    BY <1>4, SumUnfold
<1>6. u \ {Pick(u)} \in SUBSET S /\ u \ {Pick(u)} \notin bad
    BY <1>3, <1>4, <1>5
<1>7. g[u \ {Pick(u)}] \in Int
    BY <1>6 DEF bad
<1> QED BY <1>4, <1>5, <1>7

\* A sum of naturals is a natural.
LEMMA SumsNat ==
    ASSUME NEW S, IsFiniteSet(S), NEW w, \A x \in S : w[x] \in Nat,
           NEW g, Sums(g, S, w), NEW s \in SUBSET S
    PROVE  g[s] \in Nat
<1> DEFINE bad == {u \in SUBSET S : g[u] \notin Nat}
<1>1. SUFFICES ASSUME bad # {} PROVE FALSE
    OBVIOUS
<1>2. bad \subseteq SUBSET S
    OBVIOUS
<1> HIDE DEF bad
<1>3. PICK u \in bad : \A t \in SUBSET u : t \in bad => t = u
    BY <1>1, <1>2, SmallestSubset
<1>4. u \in SUBSET S /\ g[u] \notin Nat
    BY DEF bad
<1>5. u # {} /\ Pick(u) \in u /\ g[u] = w[Pick(u)] + g[u \ {Pick(u)}]
    BY <1>4, SumUnfold
<1>6. u \ {Pick(u)} \in SUBSET S /\ u \ {Pick(u)} \notin bad
    BY <1>3, <1>4, <1>5
<1>7. g[u \ {Pick(u)}] \in Nat
    BY <1>6 DEF bad
<1> QED BY <1>4, <1>5, <1>7

\* It does not matter which element is taken first.
LEMMA SumsTakeAny ==
    ASSUME NEW S, IsFiniteSet(S), NEW w, \A x \in S : w[x] \in Int,
           NEW g, Sums(g, S, w), NEW s \in SUBSET S, NEW x \in s
    PROVE  g[s] = w[x] + g[s \ {x}]
<1> DEFINE bad == {u \in SUBSET S : \E y \in u : g[u] # w[y] + g[u \ {y}]}
<1>1. SUFFICES ASSUME bad # {} PROVE FALSE
    OBVIOUS
<1>2. bad \subseteq SUBSET S
    OBVIOUS
<1> HIDE DEF bad
<1>3. PICK u \in bad : \A t \in SUBSET u : t \in bad => t = u
    BY <1>1, <1>2, SmallestSubset
<1>4. u \in SUBSET S
    BY <1>2
<1>5. PICK y \in u : g[u] # w[y] + g[u \ {y}]
    BY DEF bad
<1>6. PICK p \in u : g[u] = w[p] + g[u \ {p}]
  <2>1. u # {}
    BY <1>5
  <2>2. u # {} => Pick(u) \in u
    BY DEF Pick
  <2>3. u # {} => g[u] = w[Pick(u)] + g[u \ {Pick(u)}]
    BY <1>4, SumUnfold
  <2> QED BY <2>1, <2>2, <2>3
<1>7. y # p
    BY <1>5, <1>6
<1>8. g[u \ {p}] = w[y] + g[(u \ {p}) \ {y}]
  <2>1. u \ {p} \in SUBSET S /\ u \ {p} \notin bad /\ y \in u \ {p}
    BY <1>3, <1>4, <1>6, <1>7
  <2> QED BY <2>1 DEF bad
<1>9. g[u \ {y}] = w[p] + g[(u \ {y}) \ {p}]
  <2>1. u \ {y} \in SUBSET S /\ u \ {y} \notin bad /\ p \in u \ {y}
    BY <1>3, <1>4, <1>6, <1>7
  <2> QED BY <2>1 DEF bad
<1>10. (u \ {p}) \ {y} = (u \ {y}) \ {p}
    OBVIOUS
<1>11. w[y] \in Int /\ w[p] \in Int /\ g[(u \ {p}) \ {y}] \in Int
    BY <1>4, <1>6, SumsInt
<1> DEFINE rest == g[(u \ {p}) \ {y}]
<1>12. /\ g[u] = w[p] + (w[y] + rest)
       /\ g[u \ {y}] = w[p] + rest
    BY <1>6, <1>8, <1>9, <1>10
<1> HIDE DEF rest
<1>13. w[p] + (w[y] + rest) = w[y] + (w[p] + rest)
    BY <1>11 DEF rest
<1> QED BY <1>5, <1>12, <1>13

\* A part has the sum it has on its own.
LEMMA SumsOfPart ==
    ASSUME NEW T, IsFiniteSet(T), NEW S \in SUBSET T, NEW w, NEW v,
           \A y \in S : w[y] = v[y],
           NEW g, Sums(g, S, v), NEW h, Sums(h, T, w)
    PROVE  h[S] = g[S]
<1>1. S \subseteq S
    OBVIOUS
<1> QED BY <1>1, SumsAgree

\* One element more adds its summand.
LEMMA SumsAdd ==
    ASSUME NEW S, IsFiniteSet(S), NEW x, x \notin S,
           NEW T, T = S \cup {x},
           NEW w, \A y \in T : w[y] \in Int,
           NEW v, \A y \in S : v[y] = w[y],
           NEW g, Sums(g, S, v), NEW h, Sums(h, T, w)
    PROVE  h[T] = g[S] + w[x]
<1>1. IsFiniteSet(T)
    BY FS_AddElement
<1>2. S \in SUBSET T /\ T \in SUBSET T /\ x \in T /\ T \ {x} = S
    OBVIOUS
<1>3. h[T] = w[x] + h[T \ {x}]
    BY <1>1, <1>2, SumsTakeAny
<1>4. h[S] = g[S]
  <2>1. \A y \in S : w[y] = v[y]
    OBVIOUS
  <2> QED BY <1>1, <1>2, <2>1, SumsOfPart
<1>5. w[x] \in Int /\ h[S] \in Int
    BY <1>1, <1>2, SumsInt
<1>6. h[T] = w[x] + h[S]
    BY <1>2, <1>3
<1> QED BY <1>4, <1>5, <1>6
=============================================================================

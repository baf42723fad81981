---------------------------- MODULE UploadProofs ----------------------------
(***************************************************************************)
(* Proofs about UploadBudget for every number of uploads, every size of    *)
(* chunks and of the volume, and every cap, floor and buffer.              *)
(*                                                                         *)
(* Both invariants are about sums over the uploads, and the sums are folds *)
(* over sets.  So the first part is about sums: that the fold exists, and  *)
(* what changing one summand does to it.  Induction over the finite set is *)
(* made by a least counterexample.                                         *)
(***************************************************************************)
EXTENDS UploadBudget, TLAPS, FiniteSetTheorems, WellFoundedInduction

----------------------------------------------------------------------------
(* Sums. *)

\* What SumFunctionOnSet folds away next.
Pick(s) == CHOOSE x \in s : TRUE

LEMMA PickIn == ASSUME NEW s, s # {} PROVE Pick(s) \in s
BY Zenon DEF Pick

\* g has the sum of f over each subset of S.
Sums(g, f, S) ==
  g = [s \in SUBSET S |-> IF s = {} THEN 0 ELSE f[Pick(s)] + g[s \ {Pick(s)}]]

\* A set of subsets of a finite set has one that is least.
LEMMA LeastSubset ==
  ASSUME NEW S, IsFiniteSet(S), NEW T, T \subseteq SUBSET S, T # {}
  PROVE  \E x \in T : \A y \in T : y \subseteq x => y = x
<1> DEFINE R == StrictSubsetOrdering(S)
<1>1. T \subseteq FiniteSubsetsOf(S)
  BY FS_Subset DEF FiniteSubsetsOf
<1>2. IsWellFoundedOn(R, FiniteSubsetsOf(S))
  BY FS_StrictSubsetOrderingWellFounded
<1> HIDE DEF R
<1>3. PICK x \in T : \A y \in T : <<y, x>> \notin R
  BY <1>1, <1>2, WFMin
<1> QED
  BY <1>3 DEF R, StrictSubsetOrdering

LEMMA SumsApply ==
  ASSUME NEW g, NEW f, NEW S, Sums(g, f, S), NEW s \in SUBSET S
  PROVE  g[s] = IF s = {} THEN 0 ELSE f[Pick(s)] + g[s \ {Pick(s)}]
<1> DEFINE e(x) == IF x = {} THEN 0 ELSE f[Pick(x)] + g[x \ {Pick(x)}]
<1>1. g = [x \in SUBSET S |-> e(x)]
  BY Zenon DEF Sums
<1> HIDE DEF e
<1>2. g[s] = e(s)
  BY <1>1
<1> QED
  BY <1>2 DEF e

\* Two such functions agree where both are defined.
LEMMA SumsAgree ==
  ASSUME NEW g, NEW h, NEW f, NEW S, NEW U, IsFiniteSet(S), S \subseteq U,
         Sums(g, f, S), Sums(h, f, U)
  PROVE  \A s \in SUBSET S : g[s] = h[s]
<1> DEFINE T == {s \in SUBSET S : g[s] # h[s]}
<1> SUFFICES ASSUME T # {} PROVE FALSE
  OBVIOUS
<1>0. T \subseteq SUBSET S /\ T # {}
  OBVIOUS
<1> HIDE DEF T
<1>1. PICK x \in T : \A y \in T : y \subseteq x => y = x
  BY <1>0, LeastSubset
<1> USE DEF T
<1> DEFINE c == Pick(x)
<1>2. x \in SUBSET S /\ x \in SUBSET U /\ g[x] # h[x]
  OBVIOUS
<1>3. /\ g[x] = IF x = {} THEN 0 ELSE f[c] + g[x \ {c}]
      /\ h[x] = IF x = {} THEN 0 ELSE f[c] + h[x \ {c}]
  BY <1>2, SumsApply
<1>4. x # {} /\ c \in x
  BY <1>2, <1>3, PickIn
<1> HIDE DEF c
<1>5. x \ {c} \in SUBSET S /\ x \ {c} \subseteq x /\ x \ {c} # x
  BY <1>4
<1>6. g[x \ {c}] = h[x \ {c}]
  BY <1>1, <1>5
<1> QED
  BY <1>2, <1>3, <1>4, <1>6

\* The fold exists.
LEMMA SumsExist ==
  ASSUME NEW f, NEW S, IsFiniteSet(S)
  PROVE  \E g : Sums(g, f, S)
<1> DEFINE T == {s \in SUBSET S : ~ \E g : Sums(g, f, s)}
<1> SUFFICES ASSUME T # {} PROVE FALSE
  OBVIOUS
<1>0. T \subseteq SUBSET S /\ T # {}
  OBVIOUS
<1> HIDE DEF T
<1>1. PICK x \in T : \A y \in T : y \subseteq x => y = x
  BY <1>0, LeastSubset
<1> USE DEF T
<1> DEFINE G(s) == CHOOSE g : Sums(g, f, s)
           V(s) == G(s)[s]
           D(s) == s \ {Pick(s)}
           g == [s \in SUBSET x |-> IF s = {} THEN 0 ELSE f[Pick(s)] + V(D(s))]
<1>2. x \in SUBSET S /\ IsFiniteSet(x) /\ ~ \E h : Sums(h, f, x)
  BY FS_Subset
<1>3. ASSUME NEW s \in SUBSET x, s # x PROVE Sums(G(s), f, s) /\ IsFiniteSet(s)
  <2>1. \E h : Sums(h, f, s)
    BY <1>1, <1>3
  <2>2. Sums(G(s), f, s)
    BY <2>1, Zenon
  <2> QED
    BY <1>2, <2>2, FS_Subset
<1> HIDE DEF G
<1>4. ASSUME NEW s \in SUBSET x, s # {}
      PROVE  D(s) \in SUBSET x /\ D(s) \subseteq s /\ D(s) # s /\ D(s) # x
  <2>1. Pick(s) \in s
    BY <1>4, PickIn
  <2> QED
    BY <2>1
<1>5. ASSUME NEW s \in SUBSET x, s # x PROVE g[s] = V(s)
  <2>1. Sums(G(s), f, s) /\ s \in SUBSET s
    BY <1>3, <1>5
  <2>2. V(s) = IF s = {} THEN 0 ELSE f[Pick(s)] + G(s)[D(s)]
    BY <2>1, SumsApply
  <2>3. g[s] = IF s = {} THEN 0 ELSE f[Pick(s)] + V(D(s))
    OBVIOUS
  <2>4. CASE s = {}
    BY <2>2, <2>3, <2>4
  <2>5. CASE s # {}
    <3>1. D(s) \in SUBSET x /\ D(s) \subseteq s /\ D(s) # x
      BY <1>4, <2>5
    <3>2. Sums(G(D(s)), f, D(s)) /\ IsFiniteSet(D(s))
      BY <1>3, <3>1
    <3>3. D(s) \in SUBSET D(s)
      OBVIOUS
    <3> HIDE DEF D
    <3>4. G(D(s))[D(s)] = G(s)[D(s)]
      BY <2>1, <3>1, <3>2, <3>3, SumsAgree
    <3> QED
      BY <2>2, <2>3, <3>4
  <2> QED
    BY <2>4, <2>5
<1>6. \A s \in SUBSET x : s # {} => g[D(s)] = V(D(s))
  BY <1>4, <1>5
<1>7. \A s \in SUBSET x : g[s] = IF s = {} THEN 0 ELSE f[Pick(s)] + g[D(s)]
  BY <1>6
<1>8. g = [s \in SUBSET x |-> g[s]]
  OBVIOUS
<1> HIDE DEF g
<1>9. g = [s \in SUBSET x |-> IF s = {} THEN 0 ELSE f[Pick(s)] + g[D(s)]]
  BY <1>7, <1>8
<1>10. Sums(g, f, x)
  BY <1>9 DEF Sums
<1> QED
  BY <1>2, <1>10

\* The fold of the community modules is that function.
LEMMA SumIsFold ==
  ASSUME NEW f, NEW S, IsFiniteSet(S)
  PROVE  \E g : Sums(g, f, S) /\ SumFunctionOnSet(f, S) = g[S]
<1> DEFINE g == CHOOSE g : Sums(g, f, S)
<1>1. Sums(g, f, S)
  BY SumsExist, Zenon
<1>2. SumFunctionOnSet(f, S) = g[S]
  BY Zenon DEF SumFunctionOnSet, FoldFunctionOnSet, MapThenFoldSet, Sums, Pick
<1> QED
  BY <1>1, <1>2

\* The last step of the fold over a set that is not empty.
LEMMA SumsStep ==
  ASSUME NEW g, NEW f, NEW S, Sums(g, f, S), NEW s \in SUBSET S, s # {}
  PROVE  \E c \in s : /\ g[s] = f[c] + g[s \ {c}] /\ c \in S
                      /\ s \ {c} \in SUBSET S /\ s \ {c} \subseteq s /\ s \ {c} # s
<1>1. Pick(s) \in s /\ g[s] = f[Pick(s)] + g[s \ {Pick(s)}]
  BY PickIn, SumsApply
<1> QED
  BY <1>1

LEMMA SumsTyped ==
  ASSUME NEW g, NEW N \in {Nat, Int}, NEW S, IsFiniteSet(S), NEW f \in [S -> N], Sums(g, f, S)
  PROVE  \A s \in SUBSET S : g[s] \in N
<1> DEFINE T == {s \in SUBSET S : g[s] \notin N}
<1> SUFFICES ASSUME T # {} PROVE FALSE
  OBVIOUS
<1>0. T \subseteq SUBSET S /\ T # {}
  OBVIOUS
<1> HIDE DEF T
<1>1. PICK x \in T : \A y \in T : y \subseteq x => y = x
  BY <1>0, LeastSubset
<1>2. x \in SUBSET S /\ g[x] \notin N
  BY <1>1 DEF T
<1>3. CASE x = {}
  <2>1. g[x] = 0
    BY <1>2, <1>3, SumsApply
  <2>2. 0 \in N
    OBVIOUS
  <2> QED
    BY <1>2, <2>1, <2>2
<1>4. CASE x # {}
  <2>1. PICK c \in x : /\ g[x] = f[c] + g[x \ {c}] /\ c \in S
                       /\ x \ {c} \in SUBSET S /\ x \ {c} \subseteq x /\ x \ {c} # x
    BY <1>2, <1>4, SumsStep
  <2>2. g[x \ {c}] \in N
    BY <1>1, <2>1 DEF T
  <2>3. f[c] \in N
    BY <2>1
  <2> QED
    BY <1>2, <2>1, <2>2, <2>3
<1> QED
  BY <1>3, <1>4

\* Changing one summand changes the sum by as much.
LEMMA SumsUpdate ==
  ASSUME NEW g, NEW h, NEW S, IsFiniteSet(S), NEW f \in [S -> Int], NEW f2 \in [S -> Int],
         NEW u \in S, NEW v \in Int, f2[u] = v, \A c \in S \ {u} : f2[c] = f[c],
         Sums(g, f, S), Sums(h, f2, S)
  PROVE  \A s \in SUBSET S : h[s] = IF u \in s THEN g[s] - f[u] + v ELSE g[s]
<1> DEFINE T == {s \in SUBSET S : ~(h[s] = IF u \in s THEN g[s] - f[u] + v ELSE g[s])}
<1> SUFFICES ASSUME T # {} PROVE FALSE
  OBVIOUS
<1>0. T \subseteq SUBSET S /\ T # {}
  OBVIOUS
<1>5. \A s \in SUBSET S : g[s] \in Int /\ h[s] \in Int
  BY SumsTyped
<1> HIDE DEF T
<1>1. PICK x \in T : \A y \in T : y \subseteq x => y = x
  BY <1>0, LeastSubset
<1>2. x \in SUBSET S /\ ~(h[x] = IF u \in x THEN g[x] - f[u] + v ELSE g[x])
  BY <1>1 DEF T
<1>6. x \in SUBSET S /\ Sums(g, f, S) /\ Sums(h, f2, S)
  BY <1>2
<1>7. /\ g[x] = IF x = {} THEN 0 ELSE f[Pick(x)] + g[x \ {Pick(x)}]
      /\ h[x] = IF x = {} THEN 0 ELSE f2[Pick(x)] + h[x \ {Pick(x)}]
  <2>1. g[x] = IF x = {} THEN 0 ELSE f[Pick(x)] + g[x \ {Pick(x)}]
    BY <1>6, SumsApply
  <2>2. h[x] = IF x = {} THEN 0 ELSE f2[Pick(x)] + h[x \ {Pick(x)}]
    BY ONLY <1>6, SumsApply
  <2> QED
    BY <2>1, <2>2
<1>3. CASE x = {}
  BY <1>2, <1>3, <1>7
<1>4. CASE x # {}
  <2> DEFINE c == Pick(x)
             w == x \ {c}
  <2>1. c \in x /\ g[x] = f[c] + g[w] /\ h[x] = f2[c] + h[w]
    BY <1>4, <1>7, PickIn
  <2> HIDE DEF c
  <2>2. w \in SUBSET S /\ w \subseteq x /\ w # x /\ c \in S
    BY <1>2, <2>1
  <2>3. h[w] = IF u \in w THEN g[w] - f[u] + v ELSE g[w]
    BY <1>1, <2>2 DEF T
  <2>4. g[w] \in Int /\ h[w] \in Int /\ f[c] \in Int /\ f[u] \in Int
    BY <1>5, <2>2
  <2>5. CASE c = u
    <3>1. u \notin w /\ u \in x
      BY <2>1, <2>5
    <3> QED
      BY <1>2, <2>1, <2>3, <2>4, <2>5, <3>1
  <2>6. CASE c # u
    <3>1. u \in w <=> u \in x
      BY <2>6
    <3>2. f2[c] = f[c]
      BY <2>2, <2>6
    <3> HIDE DEF w
    <3> QED
      BY <1>2, <2>1, <2>3, <2>4, <3>1, <3>2
  <2> QED
    BY <2>5, <2>6
<1> QED
  BY <1>3, <1>4

\* The bound of a sum.
LEMMA SumsBound ==
  ASSUME NEW g, NEW S, IsFiniteSet(S), NEW B \in Nat, NEW f \in [S -> 0..B], Sums(g, f, S)
  PROVE  \A s \in SUBSET S : g[s] \in Nat /\ g[s] <= Cardinality(s) * B
<1> DEFINE T == {s \in SUBSET S : ~(g[s] \in Nat /\ g[s] <= Cardinality(s) * B)}
<1> SUFFICES ASSUME T # {} PROVE FALSE
  OBVIOUS
<1>0. T \subseteq SUBSET S /\ T # {}
  OBVIOUS
<1> HIDE DEF T
<1>1. PICK x \in T : \A y \in T : y \subseteq x => y = x
  BY <1>0, LeastSubset
<1>2. x \in SUBSET S /\ ~(g[x] \in Nat /\ g[x] <= Cardinality(x) * B)
  BY <1>1 DEF T
<1>3. CASE x = {}
  <2>1. Cardinality(x) = 0 /\ g[x] = 0
    BY <1>2, <1>3, SumsApply, FS_EmptySet
  <2> QED
    BY <1>2, <2>1
<1>4. CASE x # {}
  <2>1. PICK c \in x : /\ g[x] = f[c] + g[x \ {c}] /\ c \in S
                       /\ x \ {c} \in SUBSET S /\ x \ {c} \subseteq x /\ x \ {c} # x
    BY <1>2, <1>4, SumsStep
  <2> DEFINE n == Cardinality(x \ {c})
             k == g[x \ {c}]
  <2>2. k \in Nat /\ k <= n * B
    BY <1>1, <2>1 DEF T
  <2>3. IsFiniteSet(x) /\ n \in Nat /\ Cardinality(x) = n + 1
    BY <1>2, <2>1, FS_Subset, FS_RemoveElement, FS_CardinalityType
  <2>4. f[c] \in 0..B
    BY <2>1
  <2> HIDE DEF n, k
  <2>5. g[x] = f[c] + k
    BY <2>1 DEF k
  <2>6. (n + 1) * B = n * B + B
    BY <2>3
  <2>7. n * B \in Nat
    BY <2>3
  <2> QED
    BY <1>2, <2>2, <2>3, <2>4, <2>5, <2>6, <2>7
<1> QED
  BY <1>3, <1>4

\* What the proofs below use of sums.
LEMMA SumTyped ==
  ASSUME NEW S, IsFiniteSet(S), NEW f \in [S -> Nat]
  PROVE  SumFunction(f) \in Nat
<1>1. PICK g : Sums(g, f, S) /\ SumFunctionOnSet(f, S) = g[S]
  BY SumIsFold
<1>2. g[S] \in Nat
  BY <1>1, SumsTyped
<1> QED
  BY <1>1, <1>2 DEF SumFunction

LEMMA SumUpdate ==
  ASSUME NEW S, IsFiniteSet(S), NEW f \in [S -> Int], NEW f2 \in [S -> Int],
         NEW u \in S, NEW v \in Int, f2[u] = v, \A c \in S \ {u} : f2[c] = f[c]
  PROVE  SumFunction(f2) = SumFunction(f) - f[u] + v
<1>1. PICK g : Sums(g, f, S) /\ SumFunctionOnSet(f, S) = g[S]
  BY SumIsFold
<1>2. PICK h : Sums(h, f2, S) /\ SumFunctionOnSet(f2, S) = h[S]
  BY SumIsFold
<1>3. h[S] = g[S] - f[u] + v
  <2>1. \A s \in SUBSET S : h[s] = IF u \in s THEN g[s] - f[u] + v ELSE g[s]
    BY <1>1, <1>2, SumsUpdate
  <2>2. S \in SUBSET S /\ u \in S
    OBVIOUS
  <2> QED
    BY <2>1, <2>2
<1>4. DOMAIN f = S /\ DOMAIN f2 = S
  OBVIOUS
<1>5. SumFunction(f) = g[S] /\ SumFunction(f2) = h[S]
  BY <1>1, <1>2, <1>4 DEF SumFunction
<1> QED
  BY <1>3, <1>5

LEMMA SumBound ==
  ASSUME NEW S, IsFiniteSet(S), NEW B \in Nat, NEW f \in [S -> 0..B]
  PROVE  SumFunction(f) <= Cardinality(S) * B
<1>1. PICK g : Sums(g, f, S) /\ SumFunctionOnSet(f, S) = g[S]
  BY SumIsFold
<1>2. g[S] <= Cardinality(S) * B
  BY <1>1, SumsBound
<1> QED
  BY <1>1, <1>2 DEF SumFunction

LEMMA SumZero ==
  ASSUME NEW S, IsFiniteSet(S)
  PROVE  SumFunction([s \in S |-> 0]) = 0
<1> DEFINE f == [s \in S |-> 0]
<1>1. f \in [S -> 0..0] /\ f \in [S -> Nat]
  OBVIOUS
<1>2. Cardinality(S) * 0 = 0
  BY FS_CardinalityType
<1> HIDE DEF f
<1>3. SumFunction(f) \in Nat /\ SumFunction(f) <= 0
  BY <1>1, <1>2, SumBound, SumTyped
<1> QED
  BY <1>3 DEF f

\* No summand exceeds the sum.
LEMMA SumCovers ==
  ASSUME NEW S, IsFiniteSet(S), NEW f \in [S -> Nat], NEW u \in S
  PROVE  f[u] <= SumFunction(f)
<1> DEFINE f2 == [f EXCEPT ![u] = 0]
<1>1. /\ f2 \in [S -> Nat] /\ f2 \in [S -> Int] /\ f \in [S -> Int] /\ f[u] \in Nat
      /\ f2[u] = 0 /\ \A c \in S \ {u} : f2[c] = f[c]
  OBVIOUS
<1> HIDE DEF f2
<1>2. SumFunction(f2) = SumFunction(f) - f[u] + 0
  BY <1>1, SumUpdate
<1>3. SumFunction(f2) \in Nat /\ SumFunction(f) \in Nat
  BY <1>1, SumTyped
<1> QED
  BY <1>1, <1>2, <1>3

----------------------------------------------------------------------------
(* The uploads. *)

\* What an upload holds: every byte accepted is in its file or in its buffer,
\* and while it streams the rest of the cap is pledged.
Fits(s) ==
  /\ s \in Upload
  /\ s.disk + s.buf = s.total
  /\ s.pc # "streaming" => s.buf = 0
  /\ s.pc = "idle" => s.total = 0
  /\ s.own = IF s.pc = "streaming" THEN MaxBytes - s.total ELSE 0

Types == /\ stored \in Nat /\ other \in Nat /\ crashes \in Nat
         /\ up \in [Uploads -> Upload]

IInv ==
  /\ Types /\ \A u \in Uploads : Fits(up[u])
  /\ PledgesAddUp /\ FloorHoldsUpToBuffers

Slack == Cardinality(Uploads) * BufCap

LEMMA SlackTyped == Slack \in Nat
<1>1. Cardinality(Uploads) \in Nat /\ BufCap \in Nat
  BY FS_CardinalityType, UploadBudgetAssumption
<1> QED
  BY <1>1 DEF Slack

LEMMA NoUploadFits == NoUpload \in Upload /\ Fits(NoUpload)
<1>1. MaxBytes \in Nat /\ BufCap \in Nat
  BY UploadBudgetAssumption
<1>2. NoUpload \in Upload
  BY <1>1 DEF NoUpload, Upload
<1> QED
  BY <1>2 DEF NoUpload, Fits

\* The sums, before a step.
LEMMA Sums0 ==
  ASSUME up \in [Uploads -> Upload]
  PROVE  /\ Own \in [Uploads -> Nat] /\ Written \in [Uploads -> Nat]
         /\ Buffered \in [Uploads -> 0..BufCap] /\ Buffered \in [Uploads -> Nat]
         /\ SumFunction(Own) \in Nat /\ SumFunction(Written) \in Nat
         /\ SumFunction(Buffered) \in Nat /\ SumFunction(Buffered) <= Slack
<1>1. MaxBytes \in Nat /\ BufCap \in Nat /\ IsFiniteSet(Uploads)
  BY UploadBudgetAssumption
<1>2. /\ Own \in [Uploads -> Nat] /\ Written \in [Uploads -> Nat]
      /\ Buffered \in [Uploads -> 0..BufCap] /\ Buffered \in [Uploads -> Nat]
  <2> SUFFICES ASSUME NEW u \in Uploads
               PROVE  /\ up[u].own \in Nat /\ up[u].disk \in Nat
                      /\ up[u].buf \in 0..BufCap /\ up[u].buf \in Nat
    BY DEF Own, Written, Buffered
  <2>1. up[u] \in Upload
    OBVIOUS
  <2> QED
    BY <1>1, <2>1 DEF Upload
<1>3. /\ SumFunction(Own) \in Nat /\ SumFunction(Written) \in Nat
      /\ SumFunction(Buffered) \in Nat
  BY <1>1, <1>2, SumTyped
<1>4. SumFunction(Buffered) <= Cardinality(Uploads) * BufCap
  BY <1>1, <1>2, SumBound
<1> QED
  BY <1>2, <1>3, <1>4 DEF Slack

\* One upload changes: what that does to the sums.
LEMMA OneUpload ==
  ASSUME IInv, NEW u \in Uploads, NEW new \in Upload, up' = [up EXCEPT ![u] = new]
  PROVE  /\ up' \in [Uploads -> Upload] /\ up'[u] = new
         /\ \A v \in Uploads \ {u} : up'[v] = up[v]
         /\ SumFunction(Own') = SumFunction(Own) - up[u].own + new.own
         /\ SumFunction(Written') = SumFunction(Written) - up[u].disk + new.disk
         /\ SumFunction(Buffered') = SumFunction(Buffered) - up[u].buf + new.buf
<1>1. /\ up \in [Uploads -> Upload] /\ up[u] \in Upload
      /\ up' \in [Uploads -> Upload] /\ up'[u] = new
      /\ \A v \in Uploads \ {u} : up'[v] = up[v]
      /\ IsFiniteSet(Uploads) /\ MaxBytes \in Nat /\ BufCap \in Nat
  BY UploadBudgetAssumption DEF IInv, Types
<1>2. new.own \in Nat /\ new.disk \in Nat /\ new.buf \in Nat
  BY <1>1 DEF Upload
<1>3. /\ Own \in [Uploads -> Int] /\ Written \in [Uploads -> Int]
      /\ Buffered \in [Uploads -> Int]
  BY <1>1, Sums0
<1>4. /\ Own' \in [Uploads -> Int] /\ Written' \in [Uploads -> Int]
      /\ Buffered' \in [Uploads -> Int]
  <2> SUFFICES ASSUME NEW v \in Uploads
               PROVE  up'[v].own \in Int /\ up'[v].disk \in Int /\ up'[v].buf \in Int
    BY DEF Own, Written, Buffered
  <2>1. up'[v] \in Upload
    BY <1>1
  <2> QED
    BY <1>1, <2>1 DEF Upload
<1>5. SumFunction(Own') = SumFunction(Own) - Own[u] + new.own
  <2>1. Own'[u] = new.own /\ \A v \in Uploads \ {u} : Own'[v] = Own[v]
    BY <1>1 DEF Own
  <2>2. /\ IsFiniteSet(Uploads) /\ Own \in [Uploads -> Int] /\ Own' \in [Uploads -> Int]
        /\ new.own \in Int
    BY <1>1, <1>2, <1>3, <1>4
  <2> QED
    BY <2>1, <2>2, SumUpdate
<1>6. SumFunction(Written') = SumFunction(Written) - Written[u] + new.disk
  <2>1. Written'[u] = new.disk /\ \A v \in Uploads \ {u} : Written'[v] = Written[v]
    BY <1>1 DEF Written
  <2>2. /\ IsFiniteSet(Uploads) /\ Written \in [Uploads -> Int] /\ Written' \in [Uploads -> Int]
        /\ new.disk \in Int
    BY <1>1, <1>2, <1>3, <1>4
  <2> QED
    BY <2>1, <2>2, SumUpdate
<1>7. SumFunction(Buffered') = SumFunction(Buffered) - Buffered[u] + new.buf
  <2>1. Buffered'[u] = new.buf /\ \A v \in Uploads \ {u} : Buffered'[v] = Buffered[v]
    BY <1>1 DEF Buffered
  <2>2. /\ IsFiniteSet(Uploads) /\ Buffered \in [Uploads -> Int] /\ Buffered' \in [Uploads -> Int]
        /\ new.buf \in Int
    BY <1>1, <1>2, <1>3, <1>4
  <2> QED
    BY <2>1, <2>2, SumUpdate
<1> QED
  BY <1>1, <1>5, <1>6, <1>7 DEF Own, Written, Buffered

\* The floor, with what other programs use left out.
LEMMA FloorPlain ==
  ASSUME stored \in Nat, other \in Nat, up \in [Uploads -> Upload]
  PROVE  FloorHoldsUpToBuffers <=>
           Disk - stored - SumFunction(Written) - SumFunction(Buffered) >= Floor - Slack
<1>1. /\ Disk \in Nat /\ Floor \in Nat /\ Slack \in Nat
      /\ SumFunction(Written) \in Nat /\ SumFunction(Buffered) \in Nat
  BY Sums0, SlackTyped, UploadBudgetAssumption
<1>2. FloorHoldsUpToBuffers <=> Free + other - SumFunction(Buffered) >= Floor - Slack
  BY DEF FloorHoldsUpToBuffers, Slack
<1>3. Free = Disk - other - stored - SumFunction(Written)
  BY DEF Free
<1> QED
  BY <1>1, <1>2, <1>3

LEMMA FloorPlainNext ==
  ASSUME stored' \in Int, other' \in Int, SumFunction(Written') \in Int,
         SumFunction(Buffered') \in Int
  PROVE  FloorHoldsUpToBuffers' <=>
           Disk - stored' - SumFunction(Written') - SumFunction(Buffered') >= Floor - Slack
<1>1. Disk \in Nat /\ Floor \in Nat /\ Slack \in Nat
  BY SlackTyped, UploadBudgetAssumption
<1>2. FloorHoldsUpToBuffers' <=> Free' + other' - SumFunction(Buffered') >= Floor - Slack
  BY DEF FloorHoldsUpToBuffers, Slack
<1>3. Free' = Disk - other' - stored' - SumFunction(Written')
  BY DEF Free
<1> QED
  BY <1>1, <1>2, <1>3

\* One upload moves on, and the counter with it.
LEMMA Moved ==
  ASSUME IInv, NEW u \in Uploads, NEW new \in Upload, Fits(new),
         up' = [up EXCEPT ![u] = new], reserved' = SumFunction(Own) - up[u].own + new.own,
         stored' \in Nat, other' \in Nat, crashes' \in Nat,
         Disk - stored' - SumFunction(Written) + up[u].disk - new.disk
           - SumFunction(Buffered) + up[u].buf - new.buf >= Floor - Slack
  PROVE  IInv'
<1>1. /\ up' \in [Uploads -> Upload] /\ up'[u] = new
      /\ \A v \in Uploads \ {u} : up'[v] = up[v]
      /\ SumFunction(Own') = SumFunction(Own) - up[u].own + new.own
      /\ SumFunction(Written') = SumFunction(Written) - up[u].disk + new.disk
      /\ SumFunction(Buffered') = SumFunction(Buffered) - up[u].buf + new.buf
  BY OneUpload
<1>2. up \in [Uploads -> Upload] /\ \A v \in Uploads : Fits(up[v])
  BY DEF IInv, Types
<1>3. /\ SumFunction(Written) \in Nat /\ SumFunction(Buffered) \in Nat
      /\ Disk \in Nat /\ Floor \in Nat /\ Slack \in Nat /\ MaxBytes \in Nat /\ BufCap \in Nat
  BY <1>2, Sums0, SlackTyped, UploadBudgetAssumption
<1>4. /\ up[u].disk \in Nat /\ up[u].buf \in Nat /\ new.disk \in Nat /\ new.buf \in Nat
  BY <1>2, <1>3 DEF Upload
<1>5. FloorHoldsUpToBuffers'
  <2>1. SumFunction(Written') \in Int /\ SumFunction(Buffered') \in Int
    BY <1>1, <1>3, <1>4
  <2>2. Disk - stored' - SumFunction(Written') - SumFunction(Buffered') >= Floor - Slack
    BY <1>1, <1>3, <1>4
  <2> QED
    BY <2>1, <2>2, FloorPlainNext
<1>6. \A v \in Uploads : Fits(up'[v])
  BY <1>1, <1>2
<1>7. PledgesAddUp'
  <2>1. reserved' = SumFunction(Own')
    BY <1>1
  <2>2. \A v \in Uploads :
          up'[v].own = IF up'[v].pc = "streaming" THEN MaxBytes - up'[v].total ELSE 0
    BY <1>6 DEF Fits
  <2> QED
    BY <2>1, <2>2 DEF PledgesAddUp
<1> QED
  BY <1>1, <1>5, <1>6, <1>7 DEF IInv, Types

\* What IInv says in the sums' terms.
LEMMA Before ==
  ASSUME IInv, NEW u \in Uploads
  PROVE  /\ up \in [Uploads -> Upload] /\ up[u] \in Upload /\ Fits(up[u])
         /\ stored \in Nat /\ other \in Nat /\ crashes \in Nat
         /\ reserved = SumFunction(Own) /\ reserved \in Nat /\ up[u].own <= reserved
         /\ SumFunction(Own) \in Nat /\ SumFunction(Written) \in Nat
         /\ SumFunction(Buffered) \in Nat /\ SumFunction(Buffered) <= Slack
         /\ Disk \in Nat /\ Floor \in Nat /\ Slack \in Nat
         /\ MaxBytes \in Nat /\ BufCap \in Nat /\ IsFiniteSet(Uploads)
         /\ Disk - stored - SumFunction(Written) - SumFunction(Buffered) >= Floor - Slack
<1>1. /\ up \in [Uploads -> Upload] /\ up[u] \in Upload /\ Fits(up[u])
      /\ stored \in Nat /\ other \in Nat /\ crashes \in Nat
      /\ reserved = SumFunction(Own) /\ FloorHoldsUpToBuffers
  BY DEF IInv, Types, PledgesAddUp
<1>2. /\ Own \in [Uploads -> Nat] /\ SumFunction(Own) \in Nat /\ SumFunction(Written) \in Nat
      /\ SumFunction(Buffered) \in Nat /\ SumFunction(Buffered) <= Slack
  BY <1>1, Sums0
<1>3. /\ Disk \in Nat /\ Floor \in Nat /\ Slack \in Nat
      /\ MaxBytes \in Nat /\ BufCap \in Nat /\ IsFiniteSet(Uploads)
  BY SlackTyped, UploadBudgetAssumption
<1>4. Own[u] <= SumFunction(Own)
  BY <1>2, <1>3, SumCovers
<1>5. up[u].own <= reserved
  BY <1>1, <1>4 DEF Own
<1>6. Disk - stored - SumFunction(Written) - SumFunction(Buffered) >= Floor - Slack
  BY <1>1, FloorPlain
<1> QED
  BY <1>1, <1>2, <1>3, <1>5, <1>6

\* s is the upload u as the write finds it: up[u], or what Open makes of it.
Resumed(u, s, res) ==
  /\ s \in Upload /\ Fits(s) /\ s.pc = "streaming"
  /\ s.disk = up[u].disk /\ s.buf = up[u].buf
  /\ res = reserved - up[u].own + s.own

\* A rejected upload takes its pledge and its file with it, and no more.
LEMMA AbandonStep ==
  ASSUME IInv, NEW u \in Uploads, NEW s, NEW res, Resumed(u, s, res), Abandon(u, s, res)
  PROVE  IInv'
<1>1. s \in Upload /\ res = reserved - up[u].own + s.own
  BY DEF Resumed
<1>2. s.own \in Nat /\ up[u].own \in Nat /\ up[u].disk \in Nat /\ up[u].buf \in Nat
  BY <1>1, Before DEF Upload
<1>3. res \in Nat /\ res >= s.own
  BY <1>1, <1>2, Before
<1>4. up' = [up EXCEPT ![u] = NoUpload] /\ stored' = stored /\ other' = other /\ crashes' = crashes
  BY DEF Abandon
<1>5. reserved' = Release(res, s.own)
  BY DEF Abandon
<1>6. NoUpload.own = 0 /\ NoUpload.disk = 0 /\ NoUpload.buf = 0
  BY DEF NoUpload
<1>7. reserved' = SumFunction(Own) - up[u].own + NoUpload.own
  BY <1>1, <1>2, <1>3, <1>5, <1>6, Before DEF Release
<1>8. Disk - stored' - SumFunction(Written) + up[u].disk - NoUpload.disk
         - SumFunction(Buffered) + up[u].buf - NoUpload.buf >= Floor - Slack
  BY <1>2, <1>4, <1>6, Before
<1> QED
  BY <1>4, <1>7, <1>8, Before, NoUploadFits, Moved

\* A chunk that is let through: its check saw every pledge but its own, and every
\* byte but the buffered ones.
LEMMA WriteStep ==
  ASSUME IInv, NEW u \in Uploads, NEW s, NEW res, Resumed(u, s, res), NEW n \in Nat,
         WriteChunk(u, s, res, n)
  PROVE  IInv'
<1>1. CASE Abandon(u, s, res)
  BY <1>1, AbandonStep
<1>2. CASE
        /\ ~TooLarge(s, n) /\ ~NoHeadroom(s, res, n)
        /\ \E b \in 0..BufCap :
             /\ b <= s.buf + n
             /\ up' = [up EXCEPT ![u] =
                  [s EXCEPT !.total = @ + n, !.own = @ - n, !.buf = b,
                            !.disk = @ + s.buf + n - b]]
        /\ reserved' = Release(res, n)
        /\ UNCHANGED <<stored, other, crashes>>
  <2>1. PICK b \in 0..BufCap :
          /\ b <= s.buf + n
          /\ up' = [up EXCEPT ![u] =
               [s EXCEPT !.total = @ + n, !.own = @ - n, !.buf = b,
                         !.disk = @ + s.buf + n - b]]
    BY <1>2
  <2> DEFINE new == [s EXCEPT !.total = @ + n, !.own = @ - n, !.buf = b,
                              !.disk = @ + s.buf + n - b]
  <2>2. /\ s \in Upload /\ Fits(s) /\ s.pc = "streaming" /\ s.disk = up[u].disk
        /\ s.buf = up[u].buf /\ res = reserved - up[u].own + s.own
    BY DEF Resumed
  <2>3. /\ s.own \in 0..MaxBytes /\ s.total \in 0..MaxBytes /\ s.disk \in 0..MaxBytes
        /\ s.buf \in 0..BufCap /\ up[u].own \in Nat /\ s.fmt \in {"pdf", "md"}
    BY <2>2, Before DEF Upload
  <2>4. s.disk + s.buf = s.total /\ s.own = MaxBytes - s.total
    BY <2>2 DEF Fits
  <2>5. s.total + n <= MaxBytes
    BY <1>2, <2>3, Before DEF TooLarge
  <2> DEFINE t == s.total + n  o == s.own - n  d == s.disk + s.buf + n - b
  <2>6. t \in 0..MaxBytes /\ o \in 0..MaxBytes /\ d \in 0..MaxBytes
    BY <2>1, <2>3, <2>4, <2>5, Before
  <2>7. /\ up' = [up EXCEPT ![u] = new]
        /\ new = [s EXCEPT !.total = t, !.own = o, !.buf = b, !.disk = d]
    BY <2>1
  <2>8. /\ new \in Upload
        /\ new.pc = s.pc /\ new.fmt = s.fmt /\ new.total = s.total + n
        /\ new.own = s.own - n /\ new.buf = b /\ new.disk = s.disk + s.buf + n - b
    <3> HIDE DEF new, t, o, d
    <3>1. /\ new \in Upload /\ new.pc = s.pc /\ new.fmt = s.fmt /\ new.total = t
          /\ new.own = o /\ new.buf = b /\ new.disk = d
      BY <2>2, <2>6, <2>7 DEF Upload
    <3> QED
      BY <3>1 DEF t, o, d
  <2> HIDE DEF new
  <2>10. Fits(new)
    <3>1. new.disk + new.buf = new.total /\ new.own = MaxBytes - new.total
      BY <2>3, <2>4, <2>8, Before
    <3> QED
      BY <2>2, <2>8, <3>1 DEF Fits
  <2>11. res \in Nat /\ res - s.own \in Nat /\ res >= n
    BY <2>2, <2>3, <2>4, <2>5, Before
  <2>12. reserved' = SumFunction(Own) - up[u].own + new.own
    BY <1>2, <2>2, <2>3, <2>8, <2>11, Before DEF Release
  <2>13. stored' = stored /\ other' = other /\ crashes' = crashes
    BY <1>2
  <2>14. Disk - other - stored - SumFunction(Written) - n - (res - s.own) >= Floor
    <3>1. Free = Disk - other - stored - SumFunction(Written)
      BY DEF Free
    <3>2. ~(Free - n - (res - s.own) < Floor)
      BY <1>2 DEF NoHeadroom
    <3> QED
      BY <2>3, <2>11, <3>1, <3>2, Before
  <2>15. Disk - stored' - SumFunction(Written) + up[u].disk - new.disk
           - SumFunction(Buffered) + up[u].buf - new.buf >= Floor - Slack
    <3>1. up[u].disk - new.disk + up[u].buf - new.buf = -n
      BY <2>2, <2>3, <2>4, <2>8
    <3>2. Disk - stored - SumFunction(Written) - n >= Floor
      BY <2>11, <2>14, Before
    <3> QED
      BY <2>2, <2>3, <2>8, <2>13, <3>1, <3>2, Before
  <2> QED
    BY <2>7, <2>8, <2>10, <2>12, <2>13, <2>15, Before, Moved
<1> QED
  BY <1>1, <1>2 DEF WriteChunk

LEMMA OpenStep ==
  ASSUME IInv, NEW u \in Uploads, NEW fmt \in {"pdf", "md"}, NEW n \in ChunkSizes,
         Open(u, fmt, n)
  PROVE  IInv'
<1> DEFINE s == [NoUpload EXCEPT !.pc = "streaming", !.fmt = fmt, !.own = MaxBytes]
           res == Reserve(reserved, MaxBytes)
<1>1. up[u].pc = "idle" /\ WriteChunk(u, s, res, n)
  BY DEF Open
<1>2. n \in Nat
  BY UploadBudgetAssumption
<1>3. s \in Upload /\ Fits(s) /\ s.pc = "streaming" /\ s.disk = 0 /\ s.buf = 0 /\ s.own = MaxBytes
  <2>1. /\ NoUpload \in Upload /\ NoUpload.disk = 0 /\ NoUpload.buf = 0
        /\ NoUpload.total = 0
    BY NoUploadFits DEF NoUpload
  <2>2. MaxBytes \in 0..MaxBytes /\ MaxBytes \in Nat
    BY Before
  <2>3. s = [NoUpload EXCEPT !.pc = "streaming", !.fmt = fmt, !.own = MaxBytes]
    OBVIOUS
  <2> HIDE DEF s
  <2>4. /\ s \in Upload /\ s.pc = "streaming" /\ s.disk = 0 /\ s.buf = 0
        /\ s.own = MaxBytes /\ s.total = 0
    BY <2>1, <2>2, <2>3 DEF Upload
  <2> QED
    BY <2>2, <2>4 DEF Fits
<1>4. up[u].disk = 0 /\ up[u].buf = 0 /\ up[u].own = 0
  <2>1. /\ up[u].disk + up[u].buf = 0 /\ up[u].own = 0
        /\ up[u].disk \in 0..MaxBytes /\ up[u].buf \in 0..BufCap
    BY <1>1, Before DEF Fits, Upload
  <2> QED
    BY <2>1, Before
<1>5. res = reserved - up[u].own + s.own
  BY <1>3, <1>4, Before DEF Reserve
<1> HIDE DEF s, res
<1>6. Resumed(u, s, res)
  BY <1>3, <1>4, <1>5 DEF Resumed
<1> QED
  BY <1>1, <1>2, <1>6, WriteStep

\* A streaming upload is as its next chunk finds it.
LEMMA StreamsOn ==
  ASSUME IInv, NEW u \in Uploads, up[u].pc = "streaming"
  PROVE  Resumed(u, up[u], reserved)
<1>1. up[u].own \in Nat
  BY Before DEF Upload
<1> QED
  BY <1>1, Before DEF Resumed

LEMMA ChunkStep ==
  ASSUME IInv, NEW u \in Uploads, NEW n \in ChunkSizes, Chunk(u, n)
  PROVE  IInv'
<1>1. n \in Nat
  BY UploadBudgetAssumption
<1> QED
  BY <1>1, StreamsOn, WriteStep DEF Chunk

LEMMA DisconnectStep ==
  ASSUME IInv, NEW u \in Uploads, Disconnect(u)
  PROVE  IInv'
  BY StreamsOn, AbandonStep DEF Disconnect

\* A kept upload's file grows by what was buffered.
LEMMA EndOfStreamStep ==
  ASSUME IInv, NEW u \in Uploads, EndOfStream(u)
  PROVE  IInv'
<1>1. up[u].pc = "streaming"
  BY DEF EndOfStream
<1>2. CASE Abandon(u, up[u], reserved)
  BY <1>1, <1>2, StreamsOn, AbandonStep
<1>3. CASE /\ up' = [up EXCEPT ![u] = [up[u] EXCEPT !.pc = "received", !.own = 0,
                                                    !.buf = 0, !.disk = @ + up[u].buf]]
           /\ reserved' = Release(reserved, up[u].own)
           /\ UNCHANGED <<stored, other, crashes>>
  <2> DEFINE d == up[u].disk + up[u].buf
             new == [up[u] EXCEPT !.pc = "received", !.own = 0, !.buf = 0, !.disk = d]
  <2>1. /\ up[u] \in Upload /\ up[u].disk \in 0..MaxBytes /\ up[u].buf \in 0..BufCap
        /\ up[u].total \in 0..MaxBytes /\ up[u].own \in Nat
        /\ up[u].disk + up[u].buf = up[u].total
    BY Before DEF Upload, Fits
  <2>2. d \in 0..MaxBytes /\ d = up[u].total
    BY <2>1, Before
  <2>3. up' = [up EXCEPT ![u] = new] /\ new = [up[u] EXCEPT !.pc = "received", !.own = 0,
                                                           !.buf = 0, !.disk = d]
    BY <1>3
  <2>4. /\ new \in Upload /\ new.pc = "received" /\ new.total = up[u].total
        /\ new.own = 0 /\ new.buf = 0 /\ new.disk = d
    <3>1. up[u] \in Upload /\ d \in 0..MaxBytes /\ 0 \in 0..MaxBytes /\ 0 \in 0..BufCap
      BY <2>1, <2>2, Before
    <3> HIDE DEF new, d
    <3>2. PICK s \in Upload : s = up[u]
      BY <3>1
    <3>3. new = [s EXCEPT !.pc = "received", !.own = 0, !.buf = 0, !.disk = d]
      BY <2>3, <3>2, Zenon
    <3>4. /\ new \in Upload /\ new.pc = "received" /\ new.total = s.total
          /\ new.own = 0 /\ new.buf = 0 /\ new.disk = d
      BY <3>1, <3>3 DEF Upload
    <3> QED
      BY <3>2, <3>4
  <2> HIDE DEF new
  <2>5. Fits(new)
    BY <2>1, <2>2, <2>4, Before DEF Fits
  <2>6. reserved' = SumFunction(Own) - up[u].own + new.own
    BY <1>3, <2>1, <2>4, Before DEF Release
  <2>7. stored' = stored /\ other' = other /\ crashes' = crashes
    BY <1>3
  <2>8. Disk - stored' - SumFunction(Written) + up[u].disk - new.disk
           - SumFunction(Buffered) + up[u].buf - new.buf >= Floor - Slack
    BY <2>1, <2>4, <2>7, Before
  <2> QED
    BY <2>3, <2>4, <2>5, <2>6, <2>7, <2>8, Before, Moved
<1> QED
  BY <1>2, <1>3 DEF EndOfStream

\* A received file leaves its coroutine, kept as a blob or dropped.
LEMMA ReceivedStep ==
  ASSUME IInv, NEW u \in Uploads, Store(u) \/ Drop(u)
  PROVE  IInv'
<1>1. /\ up[u].pc = "received" /\ up' = [up EXCEPT ![u] = NoUpload]
      /\ stored' = stored \/ stored' = stored + up[u].disk
      /\ reserved' = reserved /\ other' = other /\ crashes' = crashes
  BY DEF Store, Drop
<1>2. up[u].own = 0 /\ up[u].buf = 0 /\ up[u].disk \in Nat
  BY <1>1, Before DEF Fits, Upload
<1>3. NoUpload.own = 0 /\ NoUpload.disk = 0 /\ NoUpload.buf = 0
  BY DEF NoUpload
<1>4. stored' \in Nat /\ stored' <= stored + up[u].disk
  BY <1>1, <1>2, Before
<1>5. reserved' = SumFunction(Own) - up[u].own + NoUpload.own
  BY <1>1, <1>2, <1>3, Before
<1>6. Disk - stored' - SumFunction(Written) + up[u].disk - NoUpload.disk
         - SumFunction(Buffered) + up[u].buf - NoUpload.buf >= Floor - Slack
  BY <1>2, <1>3, <1>4, Before
<1> QED
  BY <1>1, <1>4, <1>5, <1>6, Before, NoUploadFits, Moved

\* Nothing of what the uploads hold changes.
LEMMA OthersStep ==
  ASSUME IInv, OtherWrites \/ OtherFrees \/ UNCHANGED vars
  PROVE  IInv'
<1>1. up' = up /\ reserved' = reserved /\ stored' = stored /\ crashes' = crashes
  BY DEF OtherWrites, OtherFrees, vars
<1>2. other \in Nat /\ other' \in Nat
  BY DEF OtherWrites, OtherFrees, vars, IInv, Types
<1>3. Own' = Own /\ Written' = Written /\ Buffered' = Buffered
  BY <1>1 DEF Own, Written, Buffered
<1>4. up \in [Uploads -> Upload] /\ stored \in Nat /\ FloorHoldsUpToBuffers
  BY DEF IInv, Types
<1>5. FloorHoldsUpToBuffers'
  <2>1. SumFunction(Written) \in Nat /\ SumFunction(Buffered) \in Nat
    BY <1>4, Sums0
  <2> QED
    BY <1>1, <1>2, <1>3, <1>4, <2>1, FloorPlain, FloorPlainNext
<1>6. PledgesAddUp'
  BY <1>1, <1>3 DEF IInv, PledgesAddUp
<1> QED
  BY <1>1, <1>2, <1>5, <1>6 DEF IInv, Types

\* With no upload in flight nothing is pledged, written or buffered.
LEMMA AllIdle ==
  ASSUME up' = [u \in Uploads |-> NoUpload], reserved' = 0,
         stored' \in Nat, other' \in Nat, crashes' \in Nat,
         Disk - stored' >= Floor - Slack
  PROVE  IInv'
<1>1. Own' = [u \in Uploads |-> 0] /\ Written' = [u \in Uploads |-> 0]
      /\ Buffered' = [u \in Uploads |-> 0]
  BY DEF Own, Written, Buffered, NoUpload
<1>2. SumFunction(Own') = 0 /\ SumFunction(Written') = 0 /\ SumFunction(Buffered') = 0
  BY <1>1, SumZero, UploadBudgetAssumption
<1>3. \A u \in Uploads : up'[u] = NoUpload
  OBVIOUS
<1>4. \A u \in Uploads : Fits(up'[u]) /\ up'[u] \in Upload
  BY <1>3, NoUploadFits
<1>5. PledgesAddUp'
  BY <1>2, <1>3 DEF PledgesAddUp, NoUpload
<1>6. FloorHoldsUpToBuffers'
  <2>1. Disk \in Nat /\ Floor \in Nat /\ Slack \in Nat
    BY SlackTyped, UploadBudgetAssumption
  <2>2. /\ stored' \in Int /\ other' \in Int /\ SumFunction(Written') \in Int
        /\ SumFunction(Buffered') \in Int
    BY <1>2
  <2>3. Disk - stored' - SumFunction(Written') - SumFunction(Buffered') >= Floor - Slack
    <3>0. Disk - stored' >= Floor - Slack
      OBVIOUS
    <3>1. Disk - stored' - 0 - 0 = Disk - stored'
      BY <2>1, <2>2
    <3>2. Disk - stored' - 0 - 0 >= Floor - Slack
      BY <3>0, <3>1, Zenon
    <3> QED
      BY <1>2, <3>2, Zenon
  <2> QED
    BY <2>2, <2>3, FloorPlainNext
<1> QED
  BY <1>4, <1>5, <1>6 DEF IInv, Types

LEMMA CrashStep ==
  ASSUME IInv, Crash
  PROVE  IInv'
<1>1. /\ up \in [Uploads -> Upload] /\ stored \in Nat /\ other \in Nat /\ crashes \in Nat
      /\ FloorHoldsUpToBuffers
  BY DEF IInv, Types
<1>2. /\ SumFunction(Written) \in Nat /\ SumFunction(Buffered) \in Nat
      /\ Disk \in Nat /\ Floor \in Nat /\ Slack \in Nat
  BY <1>1, Sums0, SlackTyped, UploadBudgetAssumption
<1>3. /\ up' = [u \in Uploads |-> NoUpload] /\ reserved' = 0
      /\ stored' = stored + SumFunction(Written) /\ other' = other /\ crashes' = crashes + 1
  BY DEF Crash
<1>4. Disk - stored - SumFunction(Written) - SumFunction(Buffered) >= Floor - Slack
  BY <1>1, FloorPlain
<1>5. /\ stored' \in Nat /\ other' \in Nat /\ crashes' \in Nat
      /\ Disk - stored' >= Floor - Slack
  BY <1>1, <1>2, <1>3, <1>4
<1> QED
  BY <1>3, <1>5, AllIdle

LEMMA InitIInv == Init => IInv
<1> SUFFICES ASSUME Init PROVE IInv
  OBVIOUS
<1>1. /\ reserved = 0 /\ stored = 0 /\ other = 0 /\ crashes = 0
      /\ up = [u \in Uploads |-> NoUpload]
  BY DEF Init
<1>2. Own = [u \in Uploads |-> 0] /\ Written = [u \in Uploads |-> 0]
      /\ Buffered = [u \in Uploads |-> 0]
  BY <1>1 DEF Own, Written, Buffered, NoUpload
<1>3. SumFunction(Own) = 0 /\ SumFunction(Written) = 0 /\ SumFunction(Buffered) = 0
  BY <1>2, SumZero, UploadBudgetAssumption
<1>4. \A u \in Uploads : up[u] = NoUpload
  BY <1>1
<1>5. up \in [Uploads -> Upload] /\ \A u \in Uploads : Fits(up[u])
  BY <1>1, <1>4, NoUploadFits
<1>6. PledgesAddUp
  BY <1>1, <1>3, <1>4 DEF PledgesAddUp, NoUpload
<1>7. FloorHoldsUpToBuffers
  <2>1. Disk \in Nat /\ Floor \in Nat /\ Slack \in Nat /\ Disk >= Floor
    BY SlackTyped, UploadBudgetAssumption
  <2> QED
    BY <1>1, <1>3, <1>5, <2>1, FloorPlain
<1> QED
  BY <1>1, <1>5, <1>6, <1>7 DEF IInv, Types

LEMMA NextIInv == IInv /\ [Next]_vars => IInv'
<1> SUFFICES ASSUME IInv, [Next]_vars PROVE IInv'
  OBVIOUS
<1>1. ASSUME NEW u \in Uploads, NEW n \in ChunkSizes, Chunk(u, n) PROVE IInv'
  BY <1>1, ChunkStep
<1>2. ASSUME NEW u \in Uploads, NEW n \in ChunkSizes, NEW fmt \in {"pdf", "md"},
             Open(u, fmt, n) PROVE IInv'
  BY <1>2, OpenStep
<1>3. ASSUME NEW u \in Uploads, EndOfStream(u) PROVE IInv'
  BY <1>3, EndOfStreamStep
<1>4. ASSUME NEW u \in Uploads, Disconnect(u) PROVE IInv'
  BY <1>4, DisconnectStep
<1>5. ASSUME NEW u \in Uploads, Store(u) \/ Drop(u) PROVE IInv'
  BY <1>5, ReceivedStep
<1>6. CASE OtherWrites \/ OtherFrees \/ UNCHANGED vars
  BY <1>6, OthersStep
<1>7. CASE Crash
  BY <1>7, CrashStep
<1> QED
  BY <1>1, <1>2, <1>3, <1>4, <1>5, <1>6, <1>7 DEF Next

----------------------------------------------------------------------------
\* However uploads of any number, sizes and endings interleave, IInv holds.
THEOREM UploadsInvariance == Spec => []IInv
  BY InitIInv, NextIInv, PTL DEF Spec

\* _reserved_bytes is the sum of the open pledges: the clamp of
\* _release_upload_budget never acts, and no ending of an upload leaks its pledge.
THEOREM PledgesCorrect == Spec => []PledgesAddUp
<1>1. IInv => PledgesAddUp
  BY DEF IInv
<1> QED
  BY <1>1, UploadsInvariance, PTL

\* _assert_disk_headroom, which looks at the disk and the counter before each
\* write, keeps the floor to within one write buffer per concurrent upload.
THEOREM FloorCorrect == Spec => []FloorHoldsUpToBuffers
<1>1. IInv => FloorHoldsUpToBuffers
  BY DEF IInv
<1> QED
  BY <1>1, UploadsInvariance, PTL
=============================================================================

------------------------- MODULE BookkeepingProofs -------------------------
(***************************************************************************)
(* Proofs about Bookkeeping, for any number of accounts, requests, keys,   *)
(* clients and transactions, and any range of balances, and about          *)
(* Matching, which proposes what a reimbursement is made of, for any list  *)
(* of expenses and any request.                                            *)
(*                                                                         *)
(* The first part is about sums over finite sets, and about orders.        *)
(*                                                                         *)
(* The second is about Matching.  The search tries only combinations that  *)
(* take the first ones of each amount, in the order of their places; every *)
(* other combination has one of these that is as good.  The invariant says *)
(* which ones it has gone through, that each answer is of one of them, and *)
(* that of each of them there is an answer, or better ones in its place.   *)
(*                                                                         *)
(* The third is the inductive invariant of Bookkeeping: what the cached    *)
(* balances add up to, that a reserved key and the transaction booked      *)
(* under it come and go together, and what a toggle under way may still    *)
(* rely on.                                                                *)
(***************************************************************************)
EXTENDS Bookkeeping, Matching,
        FiniteSetTheorems, SequenceTheorems, WellFoundedInduction, TLAPS

----------------------------------------------------------------------------
(* Sums over finite sets.                                                    *)

Some(s) == CHOOSE x \in s : TRUE
\* g is the recursion of a sum of f over the subsets of D.
Adds(g, f, D) ==
  g = [s \in SUBSET D |-> IF s = {} THEN 0 ELSE f[Some(s)] + g[s \ {Some(s)}]]

(* Among sets of a finite domain one is smallest: an argument by induction   *)
(* over a set is made about the smallest set for which a statement fails.     *)
LEMMA Smallest ==
  ASSUME NEW T, IsFiniteSet(T), NEW B, B \subseteq SUBSET T, B # {}
  PROVE  \E s \in B : \A u \in B : u \subseteq s => u = s
<1>1. FiniteSubsetsOf(T) = SUBSET T
  BY FS_FiniteSubsetsOfFinite
<1>2. IsWellFoundedOn(StrictSubsetOrdering(T), SUBSET T)
  BY <1>1, FS_StrictSubsetOrderingWellFounded
<1>3. PICK s \in B : \A u \in B : ~(<<u, s>> \in StrictSubsetOrdering(T))
  BY <1>2, WFMin
<1>4. QED
  BY <1>3 DEF StrictSubsetOrdering

(* The element a sum takes first is in its set.                               *)
LEMMA SomeIsIn == \A s : s # {} => Some(s) \in s
BY DEF Some

(* A sum is the value of the function its recursion defines.                  *)
LEMMA SumUnfolds ==
  ASSUME NEW f, NEW S
  PROVE  SumFunctionOnSet(f, S) = (CHOOSE g : Adds(g, f, S))[S]
BY DEF SumFunctionOnSet, FoldFunctionOnSet, MapThenFoldSet, Adds, Some

(* That function at the empty set, and at any other.                          *)
LEMMA AddsAt ==
  ASSUME NEW f, NEW D, NEW g, Adds(g, f, D)
  PROVE  /\ g[{}] = 0
         /\ \A s \in SUBSET D : s # {} => g[s] = f[Some(s)] + g[s \ {Some(s)}]
BY DEF Adds

(* The recursions over two domains agree on what the domains share.           *)
LEMMA AddsAgree ==
  ASSUME NEW f, NEW D, NEW E, NEW g, NEW h, Adds(g, f, D), Adds(h, f, E),
         NEW T, T \subseteq D \cap E, IsFiniteSet(T)
  PROVE  g[T] = h[T]
<1> DEFINE B == {s \in SUBSET T : g[s] # h[s]}
<1>1. SUFFICES ASSUME B # {} PROVE FALSE
  OBVIOUS
<1>2. PICK s \in B : \A u \in B : u \subseteq s => u = s
  <2>1. B \subseteq SUBSET T  OBVIOUS
  <2> HIDE DEF B
  <2>2. QED  BY <1>1, <2>1, Smallest
<1>3. s # {}
  BY AddsAt
<1> DEFINE r == s \ {Some(s)}
<1>4. r \subseteq s /\ r # s /\ r \subseteq T /\ Some(s) \in s
  BY <1>3, SomeIsIn
<1>5. g[r] = h[r]
  BY <1>2, <1>4
<1>6. g[s] = f[Some(s)] + g[r] /\ h[s] = f[Some(s)] + h[r]
  BY <1>3, AddsAt
<1>7. QED
  BY <1>2, <1>5, <1>6

(* The recursion over a finite domain has a solution.                         *)
LEMMA AddsExists ==
  ASSUME NEW f, NEW D, IsFiniteSet(D)
  PROVE  \E g : Adds(g, f, D)
<1> DEFINE B == {s \in SUBSET D : ~\E g : Adds(g, f, s)}
<1>1. SUFFICES ASSUME B # {} PROVE FALSE
  OBVIOUS
<1>2. PICK T \in B : \A u \in B : u \subseteq T => u = T
  <2>1. B \subseteq SUBSET D  OBVIOUS
  <2> HIDE DEF B
  <2>2. QED  BY <1>1, <2>1, Smallest
<1> DEFINE Of(u) == CHOOSE g : Adds(g, f, u)
           h == [s \in SUBSET T |-> IF s = {} THEN 0
                                    ELSE f[Some(s)] + Of(s \ {Some(s)})[s \ {Some(s)}]]
<1>3. ASSUME NEW u, u \subseteq T, u # T  PROVE Adds(Of(u), f, u)
  <2>1. \E g : Adds(g, f, u)
    BY <1>2, <1>3
  <2>2. QED  BY <2>1
<1>4. ASSUME NEW s \in SUBSET T, s # {}
      PROVE  h[s \ {Some(s)}] = Of(s \ {Some(s)})[s \ {Some(s)}]
  <2> DEFINE r == s \ {Some(s)}
  <2>1. r \subseteq T /\ r # T /\ Some(s) \in s
    BY <1>4, SomeIsIn
  <2>2. Adds(Of(r), f, r)
    BY <1>3, <2>1
  <2>3. CASE r = {}
    <3>1. Of(r)[r] = 0  BY <2>2, <2>3, AddsAt
    <3>2. QED  BY <3>1, <2>1, <2>3
  <2>4. CASE r # {}
    <3> DEFINE q == r \ {Some(r)}
    <3>1. q \subseteq r /\ q # r /\ Some(r) \in r
      BY <2>4, SomeIsIn
    <3>2. Adds(Of(q), f, q)
      BY <1>3, <2>1, <3>1
    <3>3. IsFiniteSet(q)
      <4>1. q \subseteq D  BY <1>2, <2>1
      <4>2. QED  BY <4>1, FS_Subset
    <3>4. Of(r)[q] = Of(q)[q]
      <4> HIDE DEF Of, q, r
      <4>1. q \subseteq r \cap q  BY <3>1
      <4>2. QED  BY <2>2, <3>2, <3>3, <4>1, AddsAgree
    <3>5. Of(r)[r] = f[Some(r)] + Of(r)[q]
      <4> DEFINE g == Of(r)
      <4> HIDE DEF Of, r, g
      <4>1. Adds(g, f, r)  BY <2>2 DEF g
      <4>2. g[r] = f[Some(r)] + g[r \ {Some(r)}]  BY <2>4, <4>1, AddsAt
      <4>3. QED  BY <4>2 DEF g
    <3>6. h[r] = f[Some(r)] + Of(q)[q]
      <4> HIDE DEF Of
      <4>2. QED  BY <2>4, <2>1
    <3>7. QED
      <4> HIDE DEF Of, h, q, r
      <4>1. h[r] = Of(r)[r]  BY <3>4, <3>5, <3>6
      <4>2. QED  BY <4>1 DEF r
  <2>5. QED  BY <2>3, <2>4
<1>5. Adds(h, f, T)
  <2> HIDE DEF Of
  <2>1. ASSUME NEW s \in SUBSET T
        PROVE (IF s = {} THEN 0 ELSE f[Some(s)] + Of(s \ {Some(s)})[s \ {Some(s)}])
              = (IF s = {} THEN 0 ELSE f[Some(s)] + h[s \ {Some(s)}])
    <3>1. CASE s = {}  BY <3>1
    <3>2. CASE s # {}
      <4>1. h[s \ {Some(s)}] = Of(s \ {Some(s)})[s \ {Some(s)}]
         BY <1>4, <3>2
      <4>2. QED BY <3>2, <4>1
    <3>3. QED BY <3>1, <3>2
  <2> DEFINE k == h
  <2>2. k = [s \in SUBSET T |-> IF s = {} THEN 0 ELSE f[Some(s)] + k[s \ {Some(s)}]]
    BY <2>1
  <2>3. QED BY <2>2 DEF Adds
<1>6. QED  BY <1>2, <1>5

(* So a sum over a finite set is what the recursion says.                     *)
LEMMA SumAdds ==
  ASSUME NEW f, NEW S, IsFiniteSet(S)
  PROVE  \E g : Adds(g, f, S) /\ SumFunctionOnSet(f, S) = g[S]
<1>1. PICK g : Adds(g, f, S)
  BY AddsExists
<1>2. Adds(CHOOSE h : Adds(h, f, S), f, S)
  BY <1>1
<1>3. QED  BY <1>2, SumUnfolds

(* A sum over nothing is zero.                                                *)
LEMMA SumEmpty ==
  ASSUME NEW f  PROVE SumFunctionOnSet(f, {}) = 0
<1>1. IsFiniteSet({})  BY FS_EmptySet
<1>2. QED  BY <1>1, SumAdds, AddsAt

(* A sum takes one element after the other.                                   *)
LEMMA SumStep ==
  ASSUME NEW f, NEW S, IsFiniteSet(S), S # {}
  PROVE  SumFunctionOnSet(f, S) = f[Some(S)] + SumFunctionOnSet(f, S \ {Some(S)})
<1> DEFINE R == S \ {Some(S)}
<1>1. R \subseteq S /\ IsFiniteSet(R)
  BY FS_Subset
<1>2. PICK g : Adds(g, f, S) /\ SumFunctionOnSet(f, S) = g[S]
  BY SumAdds
<1>3. PICK h : Adds(h, f, R) /\ SumFunctionOnSet(f, R) = h[R]
  BY <1>1, SumAdds
<1>4. g[R] = h[R]
  <2> HIDE DEF R
  <2>1. R \subseteq S \cap R  BY <1>1
  <2>2. QED  BY <1>1, <1>2, <1>3, <2>1, AddsAgree
<1>5. g[S] = f[Some(S)] + g[R]
  BY <1>2, AddsAt
<1>6. QED  BY <1>2, <1>3, <1>4, <1>5

(* A sum has the type of what it adds up.                                     *)
LEMMA SumType ==
  ASSUME NEW Typ, 0 \in Typ, \A x, y \in Typ : x + y \in Typ,
         NEW f, NEW S, IsFiniteSet(S), \A i \in S : f[i] \in Typ
  PROVE  SumFunctionOnSet(f, S) \in Typ
<1> DEFINE B == {s \in SUBSET S : SumFunctionOnSet(f, s) \notin Typ}
<1>1. SUFFICES ASSUME B # {} PROVE FALSE
  OBVIOUS
<1>2. PICK s \in B : \A u \in B : u \subseteq s => u = s
  <2>1. B \subseteq SUBSET S  OBVIOUS
  <2> HIDE DEF B
  <2>2. QED  BY <1>1, <2>1, Smallest
<1> DEFINE r == s \ {Some(s)}
<1>3. s # {} /\ IsFiniteSet(s)
  BY SumEmpty, FS_Subset
<1>4. r \subseteq s /\ r # s /\ Some(s) \in S
  BY <1>3, SomeIsIn
<1>5. SumFunctionOnSet(f, r) \in Typ
  BY <1>2, <1>4
<1>6. SumFunctionOnSet(f, s) = f[Some(s)] + SumFunctionOnSet(f, r)
  BY <1>3, SumStep
<1>7. QED  BY <1>2, <1>4, <1>5, <1>6

(* A sum depends on the values it adds up and on nothing else.                *)
LEMMA SumAgrees ==
  ASSUME NEW f, NEW g, NEW S, IsFiniteSet(S), \A i \in S : f[i] = g[i]
  PROVE  SumFunctionOnSet(f, S) = SumFunctionOnSet(g, S)
<1> DEFINE B == {s \in SUBSET S : SumFunctionOnSet(f, s) # SumFunctionOnSet(g, s)}
<1>1. SUFFICES ASSUME B # {} PROVE FALSE
  OBVIOUS
<1>2. PICK s \in B : \A u \in B : u \subseteq s => u = s
  <2>1. B \subseteq SUBSET S  OBVIOUS
  <2> HIDE DEF B
  <2>2. QED  BY <1>1, <2>1, Smallest
<1> DEFINE r == s \ {Some(s)}
<1>3. s # {} /\ IsFiniteSet(s)
  BY SumEmpty, FS_Subset
<1>4. r \subseteq s /\ r # s /\ Some(s) \in S
  BY <1>3, SomeIsIn
<1>5. SumFunctionOnSet(f, r) = SumFunctionOnSet(g, r)
  BY <1>2, <1>4
<1>6. /\ SumFunctionOnSet(f, s) = f[Some(s)] + SumFunctionOnSet(f, r)
      /\ SumFunctionOnSet(g, s) = g[Some(s)] + SumFunctionOnSet(g, r)
  BY <1>3, SumStep
<1>7. QED  BY <1>2, <1>4, <1>5, <1>6

(* Any element can be taken out of a sum.                                     *)
LEMMA SumWithout ==
  ASSUME NEW f, NEW S, IsFiniteSet(S), \A i \in S : f[i] \in Int, NEW x \in S
  PROVE  SumFunctionOnSet(f, S) = f[x] + SumFunctionOnSet(f, S \ {x})
<1> DEFINE B == {s \in SUBSET S : \E y \in s :
                   SumFunctionOnSet(f, s) # f[y] + SumFunctionOnSet(f, s \ {y})}
<1>1. SUFFICES ASSUME B # {} PROVE FALSE
  OBVIOUS
<1>2. PICK s \in B : \A u \in B : u \subseteq s => u = s
  <2>1. B \subseteq SUBSET S  OBVIOUS
  <2> HIDE DEF B
  <2>2. QED  BY <1>1, <2>1, Smallest
<1>3. PICK y \in s : SumFunctionOnSet(f, s) # f[y] + SumFunctionOnSet(f, s \ {y})
  OBVIOUS
<1> DEFINE c == Some(s)
           r == s \ {c}
           q == s \ {y}
           t == s \ {c, y}
<1>4. s # {} /\ IsFiniteSet(s) /\ c \in s
  <2>1. IsFiniteSet(s)  BY FS_Subset
  <2>2. QED  BY <2>1, SomeIsIn
<1>5. SumFunctionOnSet(f, s) = f[c] + SumFunctionOnSet(f, r)
  BY <1>4, SumStep
<1>6. c # y
  BY <1>3, <1>5
<1>7. SumFunctionOnSet(f, r) = f[y] + SumFunctionOnSet(f, t)
  <2>1. r \in SUBSET S /\ r \subseteq s /\ r # s /\ y \in r /\ r \ {y} = t
    BY <1>4, <1>6
  <2>2. QED  BY <1>2, <2>1
<1>8. SumFunctionOnSet(f, q) = f[c] + SumFunctionOnSet(f, t)
  <2>1. q \in SUBSET S /\ q \subseteq s /\ q # s /\ c \in q /\ q \ {c} = t
    BY <1>4, <1>6
  <2>2. QED  BY <1>2, <2>1
<1>9. f[c] \in Int /\ f[y] \in Int
  BY <1>4
<1>10. SumFunctionOnSet(f, t) \in Int
  <2>1. t \subseteq S  OBVIOUS
  <2>2. IsFiniteSet(t) /\ \A i \in t : f[i] \in Int
    <3> HIDE DEF t
    <3>1. QED  BY <2>1, FS_Subset
  <2> HIDE DEF t
  <2>3. QED  BY <2>2, SumType
<1>11. QED
  <2> HIDE DEF c, r, q, t
  <2>1. SumFunctionOnSet(f, s) = f[c] + (f[y] + SumFunctionOnSet(f, t))  BY <1>5, <1>7
  <2>2. f[c] + (f[y] + SumFunctionOnSet(f, t)) = f[y] + (f[c] + SumFunctionOnSet(f, t))
    BY <1>9, <1>10
  <2>3. SumFunctionOnSet(f, s) = f[y] + SumFunctionOnSet(f, q)  BY <2>1, <2>2, <1>8
  <2>4. QED  BY <1>3, <2>3 DEF q

(* Among numbers bounded by another one is least.                         *)
LEMMA Least ==
  ASSUME NEW N \in Nat, NEW B, B \subseteq 0 .. N, B # {}
  PROVE  \E k \in B : \A j \in B : k <= j
<1> DEFINE T == 0 .. N
           C == {0 .. k : k \in B}
<1>1. IsFiniteSet(T)
  BY FS_Interval
<1>2. C \subseteq SUBSET T /\ C # {}
  <2>1. \A k \in B : 0 .. k \subseteq T  OBVIOUS
  <2> HIDE DEF T
  <2>2. QED  BY <2>1
<1>3. PICK s \in C : \A u \in C : u \subseteq s => u = s
  <2> HIDE DEF C, T
  <2>1. QED  BY <1>1, <1>2, Smallest
<1>4. PICK k \in B : s = 0 .. k
  OBVIOUS
<1>5. ASSUME NEW j \in B, j < k  PROVE FALSE
  <2>1. j \in Nat /\ k \in Nat  OBVIOUS
  <2>2. 0 .. j \in C /\ 0 .. j \subseteq 0 .. k  BY <1>5, <2>1
  <2>3. 0 .. j = 0 .. k  BY <1>3, <1>4, <2>2
  <2>4. k \in 0 .. k /\ k \notin 0 .. j  BY <1>5, <2>1
  <2>5. QED  BY <2>3, <2>4
<1>6. QED
  <2>1. \A j \in B : j \in Nat  OBVIOUS
  <2>2. \A j \in B : ~(j < k)  BY <1>5
  <2>3. QED  BY <2>1, <2>2

----------------------------------------------------------------------------
(* More about sums.                                                          *)

(* Some numbers have a least one.                                            *)
LEMMA LeastOfSome ==
  ASSUME NEW B, B \subseteq Nat, B # {}
  PROVE  \E k \in B : \A j \in B : k <= j
<1>1. PICK n \in Nat : n \in B
  OBVIOUS
<1> DEFINE C == B \cap 0 .. n
<1>2. C \subseteq 0 .. n /\ C # {}
  BY <1>1
<1>3. PICK k \in C : \A j \in C : k <= j
  <2> HIDE DEF C
  <2>1. QED  BY <1>2, Least
<1>4. ASSUME NEW j \in B  PROVE k <= j
  <2>1. j \in Nat /\ k \in Nat /\ k <= n  OBVIOUS
  <2>2. CASE j <= n
    <3>1. j \in C  BY <2>1, <2>2
    <3>2. QED  BY <1>3, <3>1
  <2>3. QED  BY <2>1, <2>2
<1>5. QED  BY <1>4

(* Finitely many numbers have a highest.                                     *)
LEMMA HighestOfSome ==
  ASSUME NEW N \in Nat, NEW S, S \subseteq 0 .. N, S # {}
  PROVE  Max(S) \in S /\ \A y \in S : y <= Max(S)
<1> DEFINE B == {N - k : k \in S}
<1>1. B \subseteq 0 .. N /\ B # {}
  <2>1. \A k \in S : N - k \in 0 .. N  OBVIOUS
  <2>2. QED  BY <2>1
<1>2. PICK m \in B : \A j \in B : m <= j
  <2> HIDE DEF B
  <2>1. QED  BY <1>1, Least
<1>3. PICK k \in S : m = N - k
  OBVIOUS
<1>4. \A y \in S : k >= y
  <2> TAKE y \in S
  <2> DEFINE z == N - y
  <2>1. m <= z
    <3>1. z \in B  OBVIOUS
    <3> HIDE DEF B, z
    <3>2. QED  BY <1>2, <3>1
  <2>2. y \in Nat /\ k \in Nat  OBVIOUS
  <2>3. QED  BY <1>3, <2>1, <2>2
<1>5. /\ Max(S) \in S /\ \A y \in S : Max(S) >= y
  BY <1>4 DEF Max
<1>6. QED  BY <1>5

(* What is added up are often naturals.                                      *)
LEMMA SumOfNaturals ==
  ASSUME NEW f, NEW S, IsFiniteSet(S), \A i \in S : f[i] \in Nat
  PROVE  SumFunctionOnSet(f, S) \in Nat
<1>1. 0 \in Nat /\ \A x, y \in Nat : x + y \in Nat
  OBVIOUS
<1>2. QED  BY <1>1, SumType

(* The sum of a union is the sum of the sums.                                *)
LEMMA SumOfBoth ==
  ASSUME NEW f, NEW S, NEW T, IsFiniteSet(S), IsFiniteSet(T), S \cap T = {},
         \A i \in S \cup T : f[i] \in Int
  PROVE  SumFunctionOnSet(f, S \cup T) = SumFunctionOnSet(f, S) + SumFunctionOnSet(f, T)
<1> DEFINE B == {u \in SUBSET T :
                   SumFunctionOnSet(f, S \cup u) # SumFunctionOnSet(f, S) + SumFunctionOnSet(f, u)}
<1>1. SUFFICES ASSUME B # {} PROVE FALSE
  OBVIOUS
<1>2. PICK u \in B : \A v \in B : v \subseteq u => v = u
  <2>1. B \subseteq SUBSET T  OBVIOUS
  <2> HIDE DEF B
  <2>2. QED  BY <1>1, <2>1, Smallest
<1>3. SumFunctionOnSet(f, S) \in Int
  BY SumType
<1>4. u # {}
  <2>1. SUFFICES ASSUME u = {} PROVE FALSE  OBVIOUS
  <2>2. SumFunctionOnSet(f, u) = 0  BY <2>1, SumEmpty
  <2>3. S \cup u = S  BY <2>1
  <2>4. SumFunctionOnSet(f, S \cup u) = SumFunctionOnSet(f, S)  BY <2>3
  <2> HIDE DEF B
  <2>5. SumFunctionOnSet(f, S \cup u) = SumFunctionOnSet(f, S) + SumFunctionOnSet(f, u)
    BY <1>3, <2>2, <2>4
  <2>6. QED  BY <2>5 DEF B
<1>5. PICK x \in u : TRUE
  BY <1>4
<1> DEFINE r == u \ {x}
           w == S \cup u
<1>6. SumFunctionOnSet(f, S \cup r) = SumFunctionOnSet(f, S) + SumFunctionOnSet(f, r)
  <2>1. r \in SUBSET T /\ r \subseteq u /\ r # u  OBVIOUS
  <2>2. QED  BY <1>2, <2>1
<1>7. IsFiniteSet(u) /\ IsFiniteSet(w) /\ IsFiniteSet(r)
  <2>1. u \subseteq T /\ r \subseteq T  OBVIOUS
  <2>2. IsFiniteSet(u) /\ IsFiniteSet(r)
    <3> HIDE DEF r
    <3>1. QED  BY <2>1, FS_Subset
  <2>3. QED  BY <2>2, FS_Union
<1>8. SumFunctionOnSet(f, u) = f[x] + SumFunctionOnSet(f, r)
  BY <1>7, SumWithout
<1>9. SumFunctionOnSet(f, w) = f[x] + SumFunctionOnSet(f, S \cup r)
  <2>1. w \ {x} = S \cup r /\ x \in w  OBVIOUS
  <2>2. \A i \in w : f[i] \in Int  OBVIOUS
  <2> HIDE DEF w, r
  <2>3. QED  BY <1>7, <2>1, <2>2, SumWithout
<1>10. SumFunctionOnSet(f, r) \in Int /\ f[x] \in Int
  <2>1. \A i \in r : f[i] \in Int  OBVIOUS
  <2> HIDE DEF r
  <2>2. SumFunctionOnSet(f, r) \in Int  BY <1>7, <2>1, SumType
  <2>3. QED  BY <2>2
<1>11. QED
  <2> HIDE DEF r, B
  <2>1. SumFunctionOnSet(f, w) = SumFunctionOnSet(f, S) + SumFunctionOnSet(f, u)
    BY <1>3, <1>6, <1>8, <1>9, <1>10
  <2>2. QED  BY <2>1 DEF B

(* More of what is not negative is no less.                                  *)
LEMMA SumOfPart ==
  ASSUME NEW f, NEW T, IsFiniteSet(T), \A i \in T : f[i] \in Nat, NEW S, S \subseteq T
  PROVE  /\ SumFunctionOnSet(f, S) \in Nat /\ SumFunctionOnSet(f, T) \in Nat
         /\ SumFunctionOnSet(f, T) = SumFunctionOnSet(f, S) + SumFunctionOnSet(f, T \ S)
         /\ SumFunctionOnSet(f, S) <= SumFunctionOnSet(f, T)
<1> DEFINE D == T \ S
<1>1. IsFiniteSet(S) /\ IsFiniteSet(D) /\ S \cup D = T /\ S \cap D = {}
  <2>1. D \subseteq T  OBVIOUS
  <2> HIDE DEF D
  <2>2. IsFiniteSet(S) /\ IsFiniteSet(D)  BY <2>1, FS_Subset
  <2>3. QED  BY <2>2 DEF D
<1>2. /\ \A i \in S : f[i] \in Nat
      /\ \A i \in D : f[i] \in Nat
      /\ \A i \in T : f[i] \in Int
  OBVIOUS
<1> HIDE DEF D
<1>3. /\ SumFunctionOnSet(f, S) \in Nat
      /\ SumFunctionOnSet(f, D) \in Nat
  <2>1. SumFunctionOnSet(f, S) \in Nat  BY <1>1, <1>2, SumOfNaturals
  <2>2. SumFunctionOnSet(f, D) \in Nat  BY <1>1, <1>2, SumOfNaturals
  <2>3. QED  BY <2>1, <2>2
<1>4. SumFunctionOnSet(f, S \cup D) = SumFunctionOnSet(f, S) + SumFunctionOnSet(f, D)
  BY <1>1, <1>2, SumOfBoth
<1>5. SumFunctionOnSet(f, T) = SumFunctionOnSet(f, S) + SumFunctionOnSet(f, D)
  BY <1>1, <1>4
<1>6. SumFunctionOnSet(f, T) \in Nat /\ SumFunctionOnSet(f, S) <= SumFunctionOnSet(f, T)
  BY <1>3, <1>5
<1>7. QED  BY <1>3, <1>5, <1>6 DEF D

----------------------------------------------------------------------------
(* Orders and sorting.                                                       *)

(* What h makes of the members of S.                                         *)
Image(h, S) == {h[i] : i \in S}

(* A sum is the same over other names for what it adds up.                   *)
LEMMA SumRenamed ==
  ASSUME NEW f, NEW g, NEW h, NEW S, IsFiniteSet(S), \A i \in S : f[i] \in Int,
         \A i \in S : g[h[i]] = f[i], \A i, j \in S : h[i] = h[j] => i = j
  PROVE  /\ IsFiniteSet(Image(h, S))
         /\ Cardinality(Image(h, S)) = Cardinality(S)
         /\ SumFunctionOnSet(g, Image(h, S)) = SumFunctionOnSet(f, S)
<1> DEFINE Good(u) == /\ IsFiniteSet(Image(h, u))
                      /\ Cardinality(Image(h, u)) = Cardinality(u)
                      /\ SumFunctionOnSet(g, Image(h, u)) = SumFunctionOnSet(f, u)
           B == {u \in SUBSET S : ~Good(u)}
<1>1. SUFFICES ASSUME B # {} PROVE FALSE
  OBVIOUS
<1>2. PICK u \in B : \A v \in B : v \subseteq u => v = u
  <2>1. B \subseteq SUBSET S  OBVIOUS
  <2> HIDE DEF B
  <2>2. QED  BY <1>1, <2>1, Smallest
<1>3. u # {}
  <2>1. SUFFICES ASSUME u = {} PROVE Good(u)  OBVIOUS
  <2>2. Image(h, u) = {}  BY <2>1 DEF Image
  <2>3. SumFunctionOnSet(g, {}) = 0 /\ SumFunctionOnSet(f, {}) = 0  BY SumEmpty
  <2>4. QED  BY <2>1, <2>2, <2>3, FS_EmptySet
<1>4. PICK x \in u : TRUE
  BY <1>3
<1> DEFINE r == u \ {x}
           w == Image(h, u)
           q == Image(h, r)
<1>5. Good(r)
  <2>1. r \in SUBSET S /\ r \subseteq u /\ r # u  OBVIOUS
  <2>2. r \notin B  BY <1>2, <2>1
  <2>3. QED  BY <2>1, <2>2
<1>6. IsFiniteSet(u) /\ u \subseteq S /\ \A i \in u : f[i] \in Int
  <2>1. u \subseteq S  OBVIOUS
  <2>2. QED  BY <2>1, FS_Subset
<1>7. w = q \cup {h[x]} /\ h[x] \notin q /\ w \ {h[x]} = q /\ h[x] \in w
  BY <1>6 DEF Image
<1>8. SumFunctionOnSet(f, u) = f[x] + SumFunctionOnSet(f, r)
  BY <1>6, SumWithout
<1>9. Cardinality(r) = Cardinality(u) - 1
  BY <1>6, FS_RemoveElement
<1>10. IsFiniteSet(w) /\ Cardinality(w) = Cardinality(q) + 1
  <2> HIDE DEF q, w
  <2>1. IsFiniteSet(q)  BY <1>5 DEF q
  <2>2. QED  BY <1>7, <2>1, FS_AddElement
<1>11. SumFunctionOnSet(g, w) = g[h[x]] + SumFunctionOnSet(g, q)
  <2>1. \A i \in w : g[i] \in Int  BY <1>6 DEF Image
  <2> HIDE DEF q, w
  <2>2. SumFunctionOnSet(g, w) = g[h[x]] + SumFunctionOnSet(g, w \ {h[x]})
    BY <1>7, <1>10, <2>1, SumWithout
  <2>3. QED  BY <1>7, <2>2
<1>12. Cardinality(u) \in Int
  BY <1>6, FS_CardinalityType
<1>13. Cardinality(w) = Cardinality(u)
  <2> HIDE DEF w
  <2>1. QED  BY <1>5, <1>9, <1>10, <1>12
<1>14. SumFunctionOnSet(g, w) = SumFunctionOnSet(f, u)
  <2>1. g[h[x]] = f[x]  BY <1>6
  <2>2. SumFunctionOnSet(g, q) = SumFunctionOnSet(f, r)  BY <1>5
  <2> HIDE DEF w, q, r
  <2>3. QED  BY <1>8, <1>11, <2>1, <2>2
<1>15. QED  BY <1>10, <1>13, <1>14

(* A strict order: R has every pair of two members of K one way round.       *)
Orders(R, K) ==
  /\ \A i \in K : <<i, i>> \notin R
  /\ \A i, j \in K : i # j => <<i, j>> \in R \/ <<j, i>> \in R
  /\ \A i, j, k \in K : <<i, j>> \in R /\ <<j, k>> \in R => <<i, k>> \in R

\* What comes before i.
Earlier(R, K, i) == {j \in K : <<j, i>> \in R}

(* A member of an ordered set has more before it than those before it.       *)
LEMMA EarlierCounts ==
  ASSUME NEW K, IsFiniteSet(K), NEW R, Orders(R, K)
  PROVE  /\ \A i \in K : Cardinality(Earlier(R, K, i)) \in 0 .. Cardinality(K) - 1
         /\ \A i, j \in K : <<i, j>> \in R =>
              Cardinality(Earlier(R, K, i)) < Cardinality(Earlier(R, K, j))
<1>0. \A i \in K : Earlier(R, K, i) \subseteq K \ {i}
  BY DEF Earlier, Orders
<1>1. \A i \in K : IsFiniteSet(Earlier(R, K, i)) /\ Cardinality(Earlier(R, K, i)) \in Nat
  <2> TAKE i \in K
  <2>1. Earlier(R, K, i) \subseteq K  BY <1>0
  <2>2. QED  BY <2>1, FS_Subset, FS_CardinalityType
<1>2. ASSUME NEW i \in K
      PROVE  Cardinality(Earlier(R, K, i)) \in 0 .. Cardinality(K) - 1
  <2>1. IsFiniteSet(K \ {i}) /\ Cardinality(K \ {i}) = Cardinality(K) - 1
    BY FS_RemoveElement
  <2>2. Cardinality(Earlier(R, K, i)) <= Cardinality(K \ {i})
    BY <1>0, <2>1, FS_Subset
  <2>3. Cardinality(K) \in Nat  BY FS_CardinalityType
  <2>4. QED  BY <1>1, <2>1, <2>2, <2>3
<1>3. ASSUME NEW i \in K, NEW j \in K, <<i, j>> \in R
      PROVE  Cardinality(Earlier(R, K, i)) < Cardinality(Earlier(R, K, j))
  <2>1. Earlier(R, K, i) \subseteq Earlier(R, K, j)
    BY <1>3 DEF Earlier, Orders
  <2>2. i \in Earlier(R, K, j) /\ i \notin Earlier(R, K, i)
    BY <1>3 DEF Earlier, Orders
  <2>3. /\ Cardinality(Earlier(R, K, i)) <= Cardinality(Earlier(R, K, j))
        /\ Cardinality(Earlier(R, K, i)) # Cardinality(Earlier(R, K, j))
    BY <1>1, <2>1, <2>2, FS_Subset
  <2>4. QED  BY <1>1, <2>3
<1>4. QED  BY <1>2, <1>3

(* Sorting puts every member in its place.                                   *)
LEMMA InOrderSorts ==
  ASSUME NEW K, IsFiniteSet(K), NEW R, Orders(R, K)
  PROVE  /\ Cardinality(K) \in Nat
         /\ \A n \in 1 .. Cardinality(K) : InOrder(K, R)[n] \in K
         /\ \A i \in K : \E n \in 1 .. Cardinality(K) : InOrder(K, R)[n] = i
         /\ \A m, n \in 1 .. Cardinality(K) :
              m < n => <<InOrder(K, R)[m], InOrder(K, R)[n]>> \in R
<1> DEFINE N == Cardinality(K)
           rank == [i \in K |-> Cardinality(Earlier(R, K, i))]
           T == 0 .. N - 1
<1>1. N \in Nat
  BY FS_CardinalityType
<1>2. /\ rank \in [K -> T]
      /\ \A i, j \in K : <<i, j>> \in R => rank[i] < rank[j]
  BY EarlierCounts
<1>3. \A i, j \in K : i # j => rank[i] # rank[j]
  <2> TAKE i, j \in K
  <2> HAVE i # j
  <2>1. <<i, j>> \in R \/ <<j, i>> \in R  BY DEF Orders
  <2>2. rank[i] \in T /\ rank[j] \in T  BY <1>2
  <2> HIDE DEF rank
  <2>3. rank[i] < rank[j] \/ rank[j] < rank[i]  BY <1>2, <2>1
  <2>4. QED  BY <1>1, <2>2, <2>3
<1>4. rank \in Surjection(K, T)
  <2>1. IsFiniteSet(T) /\ Cardinality(T) = N
    BY <1>1, FS_Interval
  <2> HIDE DEF rank, T
  <2>2. rank \in Injection(K, T)
    BY <1>2, <1>3 DEF Injection, IsInjective
  <2>3. QED  BY <2>1, <2>2, FS_Injection
<1>5. \A n \in 1 .. N : \E i \in K : rank[i] = n - 1
  <2> TAKE n \in 1 .. N
  <2>1. n - 1 \in T  BY <1>1
  <2> HIDE DEF rank, T
  <2>2. QED  BY <1>4, <2>1 DEF Surjection
<1>6. ASSUME NEW n \in 1 .. N
      PROVE  InOrder(K, R)[n] \in K /\ rank[InOrder(K, R)[n]] = n - 1
  <2>1. \E i \in K : Cardinality({j \in K : <<j, i>> \in R}) = n - 1
    BY <1>5 DEF Earlier
  <2> DEFINE p == CHOOSE i \in K : Cardinality({j \in K : <<j, i>> \in R}) = n - 1
  <2>2. p \in K /\ Cardinality({j \in K : <<j, p>> \in R}) = n - 1
    BY <2>1
  <2>3. InOrder(K, R)[n] = p
    BY DEF InOrder
  <2> HIDE DEF p
  <2>4. rank[p] = n - 1
    BY <2>2 DEF Earlier
  <2>5. QED  BY <2>2, <2>3, <2>4
<1>7. ASSUME NEW i \in K  PROVE \E n \in 1 .. N : InOrder(K, R)[n] = i
  <2>1. rank[i] \in T  BY <1>2
  <2> DEFINE n == rank[i] + 1
  <2>2. n \in 1 .. N /\ n - 1 = rank[i]  BY <1>1, <2>1
  <2> HIDE DEF rank, n
  <2>3. InOrder(K, R)[n] \in K /\ rank[InOrder(K, R)[n]] = rank[i]
    BY <1>6, <2>2
  <2>4. InOrder(K, R)[n] = i  BY <1>3, <2>3
  <2>5. QED  BY <2>2, <2>4
<1>8. ASSUME NEW m \in 1 .. N, NEW n \in 1 .. N, m < n
      PROVE  <<InOrder(K, R)[m], InOrder(K, R)[n]>> \in R
  <2> DEFINE x == InOrder(K, R)[m]
             y == InOrder(K, R)[n]
  <2>1. x \in K /\ y \in K /\ rank[x] = m - 1 /\ rank[y] = n - 1
    <3> HIDE DEF rank
    <3>1. QED  BY <1>6
  <2> HIDE DEF x, y, rank
  <2>2. x # y  BY <1>8, <2>1
  <2>3. ~(rank[y] < rank[x])  BY <1>1, <1>8, <2>1
  <2>4. <<x, y>> \in R \/ <<y, x>> \in R  BY <2>1, <2>2 DEF Orders
  <2>5. <<x, y>> \in R  BY <1>2, <2>1, <2>3, <2>4
  <2>6. QED  BY <2>5 DEF x, y
<1>9. QED  BY <1>1, <1>6, <1>7, <1>8

----------------------------------------------------------------------------
(* The lists of a search.                                                    *)

\* An expense as the search sees it.
Item == [id : Nat, amount : Nat, age : Nat]

(* Taking members of a list keeps their order.                               *)
LEMMA TakenIs ==
  ASSUME NEW E, NEW s \in Seq(E), NEW K, K \subseteq DOMAIN s
  PROVE  /\ Taken(s, K) \in Seq(E)
         /\ \E place \in [DOMAIN Taken(s, K) -> K] :
              /\ \A n \in DOMAIN Taken(s, K) : Taken(s, K)[n] = s[place[n]]
              /\ \A m, n \in DOMAIN Taken(s, K) : m < n => place[m] < place[n]
<1>1. Len(s) \in Nat /\ DOMAIN s = 1 .. Len(s) /\ \A i \in DOMAIN s : s[i] \in E
  OBVIOUS
<1> DEFINE R == {p \in K \X K : p[1] < p[2]}
           N == Cardinality(K)
           place == InOrder(K, R)
<1>2. IsFiniteSet(K)
  <2>1. IsFiniteSet(1 .. Len(s))  BY <1>1, FS_Interval
  <2>2. QED  BY <1>1, <2>1, FS_Subset
<1>3. \A i, j \in K : <<i, j>> \in R <=> i < j
  OBVIOUS
<1>4. Orders(R, K)
  <2>1. \A i \in K : i \in Nat  BY <1>1
  <2> HIDE DEF R
  <2>2. QED  BY <1>3, <2>1 DEF Orders
<1>5. N \in Nat /\ place \in [1 .. N -> K]
  <2>1. N \in Nat /\ \A n \in 1 .. N : place[n] \in K
    <3> HIDE DEF R
    <3>1. QED  BY <1>2, <1>4, InOrderSorts
  <2> DEFINE At(n) == CHOOSE i \in K : Cardinality({j \in K : <<j, i>> \in R}) = n - 1
  <2>2. place = [n \in 1 .. N |-> At(n)]
    BY DEF InOrder
  <2> HIDE DEF At
  <2> HIDE DEF place, N
  <2>3. QED  BY <2>1, <2>2
<1>6. \A m, n \in 1 .. N : m < n => place[m] < place[n]
  <2>1. \A m, n \in 1 .. N : m < n => <<place[m], place[n]>> \in R
    <3> HIDE DEF R
    <3>1. QED  BY <1>2, <1>4, InOrderSorts
  <2>2. \A m, n \in 1 .. N : place[m] \in K /\ place[n] \in K
    <3> HIDE DEF place, N
    <3>1. QED  BY <1>5
  <2> HIDE DEF place, R
  <2>3. QED  BY <1>3, <2>1, <2>2
<1>7. Taken(s, K) = [n \in 1 .. N |-> s[place[n]]]
  BY DEF Taken
<1> HIDE DEF place, N, R
<1>8. DOMAIN Taken(s, K) = 1 .. N /\ \A n \in 1 .. N : Taken(s, K)[n] = s[place[n]]
  BY <1>7
<1>9. Taken(s, K) \in Seq(E)
  <2>1. \A n \in 1 .. N : s[place[n]] \in E  BY <1>1, <1>5
  <2>2. Taken(s, K) \in [1 .. N -> E]  BY <1>7, <2>1
  <2>3. QED  BY <1>5, <2>2, SeqDef
<1>10. QED
  <2>1. place \in [DOMAIN Taken(s, K) -> K]  BY <1>5, <1>8
  <2>2. QED  BY <1>6, <1>8, <1>9, <2>1

(* The candidates are in order, and each knows its place.                    *)
LEMMA PreparedAre ==
  ASSUME NEW s \in Lists, NEW upper \in Int
  PROVE  /\ Prepared(s, upper) \in Seq(Item)
         /\ Ordered(Prepared(s, upper))
         /\ \A i \in DOMAIN Prepared(s, upper) : Prepared(s, upper)[i].id = i
<1> DEFINE E == [amount : Nat, age : Nat]
<1>1. s \in Seq(E) /\ Ordered(s)
  <2>1. Ordered(s) /\ s \in BoundedSeq([amount : Amounts, age : Ages], MaxExpenses)
    BY DEF Lists
  <2>2. PICK m \in 0 .. MaxExpenses : s \in [1 .. m -> [amount : Amounts, age : Ages]]
    BY <2>1 DEF BoundedSeq, SeqOf
  <2>3. [amount : Amounts, age : Ages] \subseteq E /\ m \in Nat
    <3>1. Amounts \subseteq Nat /\ Ages \subseteq Nat  BY PositiveAmounts
    <3>2. m \in Nat  BY NumbersAreNat
    <3>3. QED  BY <3>1, <3>2
  <2> HIDE DEF E
  <2>4. s \in [1 .. m -> E]  BY <2>2, <2>3
  <2>5. QED  BY <2>1, <2>3, <2>4, SeqDef
<1> DEFINE fit == {i \in DOMAIN s : s[i].amount <= upper}
           K == {i \in fit : Cardinality(fit \cap 1 .. i) <= MaxCandidates}
           t == Taken(s, K)
<1>2. t \in Seq(E)
  <2>1. K \subseteq DOMAIN s  OBVIOUS
  <2> HIDE DEF K, E
  <2>2. QED  BY <1>1, <2>1, TakenIs
<1>3. PICK place \in [DOMAIN t -> K] :
        /\ \A n \in DOMAIN t : t[n] = s[place[n]]
        /\ \A m, n \in DOMAIN t : m < n => place[m] < place[n]
  <2>1. K \subseteq DOMAIN s  OBVIOUS
  <2> HIDE DEF K, E
  <2>2. QED  BY <1>1, <2>1, TakenIs
<1>4. Ordered(t)
  <2>1. \A n \in DOMAIN t : place[n] \in DOMAIN s  BY <1>3
  <2> HIDE DEF t, K
  <2>2. QED  BY <1>1, <1>3, <2>1 DEF Ordered
<1>5. Prepared(s, upper) = Numbered(t)
  BY DEF Prepared
<1> HIDE DEF t
<1>6. /\ DOMAIN Numbered(t) = DOMAIN t
      /\ \A i \in DOMAIN t : Numbered(t)[i] = [id |-> i, amount |-> t[i].amount, age |-> t[i].age]
  BY DEF Numbered
<1>7. Numbered(t) \in Seq(Item)
  <2>1. Len(t) \in Nat /\ DOMAIN t = 1 .. Len(t) /\ \A i \in DOMAIN t : t[i] \in E
    <3> HIDE DEF E
    <3>1. QED  BY <1>2
  <2>2. \A i \in 1 .. Len(t) : [id |-> i, amount |-> t[i].amount, age |-> t[i].age] \in Item
    BY <2>1 DEF Item
  <2>3. Numbered(t) \in [1 .. Len(t) -> Item]
    BY <2>1, <2>2 DEF Numbered
  <2>4. QED  BY <2>1, <2>3, SeqDef
<1>8. Ordered(Numbered(t))
  BY <1>4, <1>6 DEF Ordered
<1>9. QED  BY <1>5, <1>6, <1>7, <1>8

(* A list drawn from the candidates, in their order.                         *)
Drawn(s) ==
  /\ s \in Seq(Item) /\ Ordered(s)
  /\ \A i \in DOMAIN s : s[i].id \in DOMAIN candidates /\ candidates[s[i].id] = s[i]
  /\ \A i, j \in DOMAIN s : i < j => s[i].id < s[j].id
\* The candidates themselves, numbered by their places.
Listed == candidates \in Seq(Item) /\ Ordered(candidates)
          /\ \A i \in DOMAIN candidates : candidates[i].id = i

(* All of the candidates are such a list.                                    *)
LEMMA AllAreDrawn ==
  ASSUME Listed  PROVE Drawn(candidates)
BY DEF Listed, Drawn

(* The recent ones are in the order of all of them.                          *)
LEMMA RecentAreDrawn ==
  ASSUME Listed  PROVE Drawn(RecentOf(candidates))
<1> DEFINE K == {i \in DOMAIN candidates : candidates[i].age < Recent}
           t == Taken(candidates, K)
<1>1. candidates \in Seq(Item) /\ Ordered(candidates)
      /\ \A i \in DOMAIN candidates : candidates[i].id = i
  BY DEF Listed
<1>2. K \subseteq DOMAIN candidates
  OBVIOUS
<1>3. RecentOf(candidates) = t
  BY DEF RecentOf
<1> HIDE DEF K
<1>4. t \in Seq(Item)
  BY <1>1, <1>2, TakenIs
<1>5. PICK place \in [DOMAIN t -> K] :
        /\ \A n \in DOMAIN t : t[n] = candidates[place[n]]
        /\ \A m, n \in DOMAIN t : m < n => place[m] < place[n]
  BY <1>1, <1>2, TakenIs
<1> HIDE DEF t
<1>6. \A n \in DOMAIN t : place[n] \in DOMAIN candidates /\ t[n].id = place[n]
  BY <1>1, <1>2, <1>5
<1>7. Ordered(t)
  BY <1>1, <1>5, <1>6 DEF Ordered
<1>8. QED
  BY <1>3, <1>4, <1>5, <1>6, <1>7 DEF Drawn

----------------------------------------------------------------------------
(* Which of two answers is better.                                           *)

(* Multiplying keeps an order of naturals, if it is not by zero.             *)
LEMMA TimesKeeps ==
  ASSUME NEW x \in Nat, NEW y \in Nat, NEW k \in Nat, x <= y
  PROVE  x * k \in Nat /\ y * k \in Nat /\ x * k <= y * k
<1>1. PICK d \in Nat : y = x + d
  <2>1. y - x \in Nat /\ y = x + (y - x)  OBVIOUS
  <2>2. QED  BY <2>1
<1>2. (x + d) * k = x * k + d * k
  OBVIOUS
<1>3. x * k \in Nat /\ d * k \in Nat
  OBVIOUS
<1>4. QED  BY <1>1, <1>2, <1>3

(* It keeps a strict one, too.                                               *)
LEMMA TimesKeepsLess ==
  ASSUME NEW x \in Nat, NEW y \in Nat, NEW k \in Nat \ {0}, x * k <= y * k
  PROVE  x <= y
<1>1. SUFFICES ASSUME ~(x <= y) PROVE FALSE
  OBVIOUS
<1>2. PICK d \in Nat \ {0} : x = y + d
  <2>1. x - y \in Nat \ {0} /\ x = y + (x - y)  BY <1>1
  <2>2. QED  BY <2>1
<1>3. (y + d) * k = y * k + d * k
  OBVIOUS
<1>4. d * k \in Nat \ {0} /\ y * k \in Nat
  OBVIOUS
<1>5. QED  BY <1>2, <1>3, <1>4

(* Quotients x/k, y/l and z/m, compared by multiplication.                   *)
LEMMA Quotients ==
  ASSUME NEW x \in Nat, NEW y \in Nat, NEW z \in Nat,
         NEW k \in Nat \ {0}, NEW l \in Nat \ {0}, NEW m \in Nat \ {0},
         x * l <= y * k, y * m <= z * l
  PROVE  x * m <= z * k
<1>1. x * l \in Nat /\ y * k \in Nat /\ y * m \in Nat /\ z * l \in Nat
      /\ x * m \in Nat /\ z * k \in Nat
  OBVIOUS
<1>2. (x * l) * m <= (y * k) * m /\ (x * l) * m \in Nat /\ (y * k) * m \in Nat
  BY <1>1, TimesKeeps
<1>3. (y * m) * k <= (z * l) * k /\ (y * m) * k \in Nat /\ (z * l) * k \in Nat
  BY <1>1, TimesKeeps
<1>4. /\ (x * l) * m = (x * m) * l
      /\ (y * k) * m = (y * m) * k
      /\ (z * l) * k = (z * k) * l
  OBVIOUS
<1>5. (x * m) * l <= (z * k) * l
  BY <1>2, <1>3, <1>4
<1>6. QED  BY <1>1, <1>5, TimesKeepsLess

(* What an answer is compared by.                                            *)
Comparable(r) == r.absErr \in Nat /\ r.age \in Nat /\ Count(r) \in Nat \ {0}

(* Better is a strict order of answers in which those that are not better    *)
(* either way are alike.                                                     *)
LEMMA BetterIsOneWay ==
  ASSUME NEW a, NEW b, Comparable(a), Comparable(b), Better(a, b)
  PROVE  ~Better(b, a)
<1>1. /\ a.absErr \in Nat /\ b.absErr \in Nat /\ Count(a) \in Nat /\ Count(b) \in Nat
      /\ Score(a, b) \in Nat /\ Score(b, a) \in Nat
  BY DEF Comparable, Score
<1>2. QED  BY <1>1 DEF Better

(* What is not better than something that is no better is no better itself.  *)
LEMMA BetterHasLevels ==
  ASSUME NEW a, NEW b, NEW c, Comparable(a), Comparable(b), Comparable(c),
         ~Better(a, b), ~Better(b, c)
  PROVE  ~Better(a, c)
<1> DEFINE x == 1095 + 2 * a.age
           y == 1095 + 2 * b.age
           z == 1095 + 2 * c.age
           k == Count(a)
           l == Count(b)
           m == Count(c)
<1>1. /\ x \in Nat /\ y \in Nat /\ z \in Nat
      /\ k \in Nat \ {0} /\ l \in Nat \ {0} /\ m \in Nat \ {0}
  BY DEF Comparable
<1>2. /\ Score(a, b) = x * l /\ Score(b, a) = y * k
      /\ Score(b, c) = y * m /\ Score(c, b) = z * l
      /\ Score(a, c) = x * m /\ Score(c, a) = z * k
  BY DEF Score
<1>3. a.absErr \in Nat /\ b.absErr \in Nat /\ c.absErr \in Nat
  BY DEF Comparable
<1>4. /\ Better(a, b) <=> \/ a.absErr < b.absErr
                          \/ a.absErr = b.absErr /\ x * l > y * k
                          \/ a.absErr = b.absErr /\ x * l = y * k /\ k < l
      /\ Better(b, c) <=> \/ b.absErr < c.absErr
                          \/ b.absErr = c.absErr /\ y * m > z * l
                          \/ b.absErr = c.absErr /\ y * m = z * l /\ l < m
      /\ Better(a, c) <=> \/ a.absErr < c.absErr
                          \/ a.absErr = c.absErr /\ x * m > z * k
                          \/ a.absErr = c.absErr /\ x * m = z * k /\ k < m
  <2> HIDE DEF x, y, z, k, l, m
  <2>1. QED  BY <1>2 DEF Better, k, l, m
<1> HIDE DEF x, y, z, k, l, m
<1>5. /\ x * l \in Nat /\ y * k \in Nat /\ y * m \in Nat /\ z * l \in Nat
      /\ x * m \in Nat /\ z * k \in Nat
  BY <1>1
<1>6. CASE a.absErr = b.absErr /\ b.absErr = c.absErr
  <2>1. x * l <= y * k /\ y * m <= z * l
    BY <1>4, <1>5, <1>6
  <2>2. x * m <= z * k
    BY <1>1, <2>1, Quotients
  <2>3. CASE x * m = z * k
    <3>1. z * k <= x * m  BY <1>5, <2>3
    <3>2. y * k <= x * l  BY <1>1, <2>1, <3>1, Quotients
    <3>3. z * l <= y * m  BY <1>1, <2>1, <3>1, Quotients
    <3>4. x * l = y * k /\ y * m = z * l  BY <1>5, <2>1, <3>2, <3>3
    <3>5. ~(k < l) /\ ~(l < m)  BY <1>4, <1>6, <3>4
    <3>6. ~(k < m)  BY <1>1, <3>5
    <3>7. ~(x * m > z * k)  BY <1>5, <2>2
    <3>8. QED  BY <1>3, <1>4, <1>6, <3>6, <3>7
  <2>4. CASE x * m # z * k
    <3>1. ~(x * m > z * k)  BY <1>5, <2>2
    <3>2. QED  BY <1>3, <1>4, <1>6, <2>4, <3>1
  <2>5. QED  BY <2>3, <2>4
<1>7. CASE ~(a.absErr = b.absErr /\ b.absErr = c.absErr)
  <2>1. ~(a.absErr < b.absErr) /\ ~(b.absErr < c.absErr)
    BY <1>4
  <2>2. a.absErr > c.absErr
    BY <1>3, <1>7, <2>1
  <2>3. ~(a.absErr < c.absErr) /\ a.absErr # c.absErr
    BY <1>3, <2>2
  <2>4. QED  BY <1>4, <2>3
<1>8. QED  BY <1>6, <1>7

(* The worst of some answers is among them, and none is worse.               *)
LEMMA WorstIsThere ==
  ASSUME NEW s, NEW N \in Nat, N # 0, DOMAIN s = 1 .. N,
         \A i \in 1 .. N : Comparable(s[i])
  PROVE  Worst(s) \in 1 .. N /\ \A j \in 1 .. N : ~Better(s[Worst(s)], s[j])
<1> DEFINE Lowest(i, n) == i \in 1 .. n /\ \A j \in 1 .. n : ~Better(s[i], s[j])
           B == {n \in 1 .. N : ~\E i \in 1 .. n : Lowest(i, n)}
<1>1. B = {}
  <2>1. SUFFICES ASSUME B # {} PROVE FALSE
    OBVIOUS
  <2>2. B \subseteq Nat
    OBVIOUS
  <2>3. PICK n \in B : \A k \in B : n <= k
    <3> HIDE DEF B
    <3>1. QED  BY <2>1, <2>2, LeastOfSome
  <2>4. n \in 1 .. N /\ \A i \in 1 .. n : ~Lowest(i, n)
    OBVIOUS
  <2>5. n # 1
    <3>1. SUFFICES ASSUME n = 1 PROVE FALSE  OBVIOUS
    <3>2. 1 .. n = {1}  BY <3>1
    <3>3. ~Better(s[1], s[1])  BY BetterIsOneWay
    <3>4. Lowest(1, n)  BY <3>2, <3>3
    <3>5. QED  BY <2>4, <3>2, <3>4
  <2> DEFINE p == n - 1
  <2>6. p \in 1 .. N /\ p < n /\ 1 .. n = (1 .. p) \cup {n}
    BY <2>4, <2>5
  <2>7. PICK i \in 1 .. p : Lowest(i, p)
    <3>1. ~(n <= p)  BY <2>4, <2>6
    <3>2. p \notin B
      <4> HIDE DEF B, p
      <4>1. QED  BY <2>3, <3>1
    <3>3. QED  BY <2>6, <3>2
  <2> HIDE DEF p
  <2>8. i \in 1 .. n /\ i \in 1 .. N /\ n \in 1 .. N
    BY <2>4, <2>6
  <2>9. CASE Better(s[i], s[n])
    <3>1. ~Better(s[n], s[i])  BY <2>8, <2>9, BetterIsOneWay
    <3>2. ASSUME NEW j \in 1 .. p  PROVE ~Better(s[n], s[j])
      <4>1. ~Better(s[i], s[j]) /\ j \in 1 .. N  BY <2>4, <2>6, <2>7
      <4>2. QED  BY <2>8, <3>1, <4>1, BetterHasLevels
    <3>3. ~Better(s[n], s[n])  BY <2>8, BetterIsOneWay
    <3>4. n \in 1 .. n  BY <2>4
    <3>5. Lowest(n, n)  BY <2>6, <3>2, <3>3, <3>4
    <3>6. QED  BY <2>4, <3>4, <3>5
  <2>10. CASE ~Better(s[i], s[n])
    <3>1. Lowest(i, n)  BY <2>6, <2>7, <2>8, <2>10
    <3>2. QED  BY <2>4, <2>8, <3>1
  <2>11. QED  BY <2>9, <2>10
<1>2. PICK i0 \in 1 .. N : Lowest(i0, N)
  <2>1. N \in 1 .. N  OBVIOUS
  <2>2. N \notin B  BY <1>1
  <2>3. QED  BY <2>1, <2>2
<1> DEFINE C == {i \in 1 .. N : Lowest(i, N)}
<1>3. PICK f \in C : \A i \in C : f <= i
  <2>1. C \subseteq Nat /\ C # {}  BY <1>2
  <2> HIDE DEF C
  <2>2. QED  BY <2>1, LeastOfSome
<1>4. f \in 1 .. N /\ \A j \in 1 .. N : ~Better(s[f], s[j])
  OBVIOUS
<1>5. ASSUME NEW j \in 1 .. f - 1  PROVE Better(s[j], s[f])
  <2>1. j \in 1 .. N /\ j < f  BY <1>4
  <2>2. j \notin C  BY <1>3, <1>4, <2>1
  <2>3. PICK k \in 1 .. N : Better(s[j], s[k])  BY <2>1, <2>2
  <2>4. ~Better(s[f], s[k])  BY <1>4
  <2>5. QED  BY <1>4, <2>1, <2>3, <2>4, BetterHasLevels
<1>6. \E i \in DOMAIN s : /\ \A j \in DOMAIN s : ~Better(s[i], s[j])
                          /\ \A j \in 1 .. i - 1 : Better(s[j], s[i])
  BY <1>4, <1>5
<1>7. /\ Worst(s) \in DOMAIN s
      /\ \A j \in DOMAIN s : ~Better(s[Worst(s)], s[j])
  BY <1>6 DEF Worst
<1>8. QED  BY <1>7

(* Sorting is by Better, and answers that are alike stay as they were found. *)
LEMMA SortedIs ==
  ASSUME NEW E, NEW s \in Seq(E), \A r \in E : Comparable(r)
  PROVE  /\ Sorted(s) \in Seq(E) /\ Len(Sorted(s)) = Len(s)
         /\ \E place \in [DOMAIN s -> DOMAIN s] :
              /\ \A n \in DOMAIN s : Sorted(s)[n] = s[place[n]]
              /\ \A m, n \in DOMAIN s : m # n => place[m] # place[n]
              /\ \A i \in DOMAIN s : \E n \in DOMAIN s : place[n] = i
         /\ \A m, n \in DOMAIN s : m < n => ~Better(Sorted(s)[n], Sorted(s)[m])
<1> DEFINE K == DOMAIN s
           R == {p \in (DOMAIN s) \X (DOMAIN s) : Before(s, p[1], p[2])}
           place == InOrder(K, R)
           N == Len(s)
<1>1. N \in Nat /\ K = 1 .. N /\ \A i \in K : s[i] \in E /\ Comparable(s[i])
  OBVIOUS
<1>2. \A i, j \in K : <<i, j>> \in R <=> Before(s, i, j)
  OBVIOUS
<1> HIDE DEF R
<1>3. IsFiniteSet(K) /\ Cardinality(K) = N
  <2>1. N \in Nat /\ K = 1 .. N  BY <1>1
  <2> HIDE DEF N, K
  <2>2. IsFiniteSet(1 .. N)  BY <2>1, FS_Interval
  <2>3. Cardinality(1 .. N) = N  BY <2>1, FS_Interval
  <2>4. QED  BY <2>1, <2>2, <2>3
<1> HIDE DEF K
<1>4. \A i, j \in K : Before(s, i, j) =>
        ~Better(s[j], s[i]) /\ (Better(s[i], s[j]) \/ i < j)
  BY <1>1, BetterIsOneWay DEF Before
<1>5. \A i \in K : i \in Nat /\ ~Better(s[i], s[i])
  BY <1>1, BetterIsOneWay
<1>6. Orders(R, K)
  <2>1. \A i \in K : <<i, i>> \notin R
    BY <1>2, <1>5 DEF Before
  <2>2. \A i, j \in K : i # j => <<i, j>> \in R \/ <<j, i>> \in R
    BY <1>2, <1>5 DEF Before
  <2>3. ASSUME NEW i \in K, NEW j \in K, NEW k \in K, <<i, j>> \in R, <<j, k>> \in R
        PROVE  <<i, k>> \in R
    <3>1. Before(s, i, j) /\ Before(s, j, k)  BY <1>2, <2>3
    <3>2. ~Better(s[j], s[i]) /\ ~Better(s[k], s[j])  BY <1>4, <3>1
    <3>3. ~Better(s[k], s[i])  BY <1>1, <3>2, BetterHasLevels
    <3>4. Better(s[i], s[k]) \/ i < k
      <4>1. CASE Better(s[i], s[j])
        <5>1. Better(s[i], s[k])  BY <1>1, <3>2, <4>1, BetterHasLevels
        <5>2. QED  BY <5>1
      <4>2. CASE Better(s[j], s[k])
        <5>1. Better(s[i], s[k])  BY <1>1, <3>2, <4>2, BetterHasLevels
        <5>2. QED  BY <5>1
      <4>3. CASE i < j /\ j < k
        BY <1>5, <4>3
      <4>4. QED  BY <1>4, <3>1, <4>1, <4>2, <4>3
    <3>5. Before(s, i, k)  BY <3>3, <3>4 DEF Before
    <3>6. QED  BY <1>2, <3>5
  <2>4. QED  BY <2>1, <2>2, <2>3 DEF Orders
<1>7. /\ \A n \in 1 .. N : place[n] \in K
      /\ \A i \in K : \E n \in 1 .. N : place[n] = i
      /\ \A m, n \in 1 .. N : m < n => <<place[m], place[n]>> \in R
  BY <1>3, <1>6, InOrderSorts
<1>8. Sorted(s) = [n \in K |-> s[place[n]]]
  BY DEF Sorted, R, K
<1>9. place \in [K -> K]
  <2> DEFINE At(n) == CHOOSE i \in K : Cardinality({j \in K : <<j, i>> \in R}) = n - 1
  <2>1. place = [n \in 1 .. Cardinality(K) |-> At(n)]
    BY DEF InOrder
  <2> HIDE DEF At, place
  <2>2. QED  BY <1>1, <1>3, <1>7, <2>1
<1> HIDE DEF place
<1>10. \A m, n \in K : m < n => Before(s, place[m], place[n])
  BY <1>1, <1>2, <1>7
<1>11. \A m, n \in K : m # n => place[m] # place[n]
  <2> TAKE m, n \in K
  <2> HAVE m # n
  <2>1. m < n \/ n < m  BY <1>5
  <2>2. ~Before(s, place[m], place[m]) /\ ~Before(s, place[n], place[n])
    BY <1>5, <1>9 DEF Before
  <2>3. QED  BY <1>10, <2>1, <2>2
<1>12. Sorted(s) \in Seq(E) /\ Len(Sorted(s)) = N
  <2>1. Sorted(s) \in [1 .. N -> E]  BY <1>1, <1>8, <1>9
  <2>2. Sorted(s) \in Seq(E)  BY <1>1, <2>1, SeqDef
  <2>3. QED  BY <1>1, <2>1, <2>2
<1>13. \A n \in K : Sorted(s)[n] = s[place[n]]
  BY <1>8
<1>14. \A m, n \in K : m < n => ~Better(Sorted(s)[n], Sorted(s)[m])
  <2> TAKE m, n \in K
  <2> HAVE m < n
  <2>1. Before(s, place[m], place[n]) /\ place[m] \in K /\ place[n] \in K
    BY <1>9, <1>10
  <2>2. QED  BY <1>4, <1>13, <2>1
<1>15. \A i \in K : \E n \in K : place[n] = i
  BY <1>1, <1>7
<1>16. QED
  BY <1>9, <1>11, <1>12, <1>13, <1>14, <1>15 DEF K

(* x is among the answers t, or they are as many as asked for and none is    *)
(* worse than x.                                                             *)
Keeps(t, x) ==
  \/ \E i \in DOMAIN t : t[i] = x
  \/ Len(t) = ask.limit /\ \A i \in DOMAIN t : ~Better(x, t[i])

(* To consider an answer changes one place at most, and forgets nothing that *)
(* is better than what it keeps.                                             *)
LEMMA ConsiderKeeps ==
  ASSUME NEW E, \A x \in E : Comparable(x), results \in Seq(E), NEW r \in E,
         ask.limit \in Nat \ {0}, Len(results) <= ask.limit
  PROVE  /\ Consider(r) \in Seq(E) /\ Len(Consider(r)) <= ask.limit
         /\ \E w \in Nat :
              \A i \in DOMAIN Consider(r) :
                 \/ i = w /\ Consider(r)[i] = r
                 \/ i \in DOMAIN results /\ Consider(r)[i] = results[i]
         /\ Keeps(Consider(r), r)
         /\ \A x \in E : Keeps(results, x) => Keeps(Consider(r), x)
<1> DEFINE N == Len(results)
           t == Consider(r)
<1>1. N \in Nat /\ DOMAIN results = 1 .. N /\ \A i \in 1 .. N : results[i] \in E
  OBVIOUS
<1>2. CASE N < ask.limit
  <2>1. t = Append(results, r)
    BY <1>2 DEF Consider
  <2>2. /\ t \in Seq(E) /\ Len(t) = N + 1 /\ DOMAIN t = 1 .. N + 1
        /\ \A i \in 1 .. N : t[i] = results[i]
        /\ t[N + 1] = r
    BY <1>1, <2>1, AppendProperties
  <2> HIDE DEF t
  <2>3. Len(t) <= ask.limit  BY <1>1, <1>2, <2>2
  <2>4. \A i \in DOMAIN t : \/ i = N + 1 /\ t[i] = r
                            \/ i \in DOMAIN results /\ t[i] = results[i]
    BY <1>1, <2>2
  <2>5. Keeps(t, r)  BY <1>1, <2>2 DEF Keeps
  <2>6. \A x \in E : Keeps(results, x) => Keeps(t, x)
    BY <1>1, <1>2, <2>2 DEF Keeps
  <2>7. N + 1 \in Nat  BY <1>1
  <2>8. QED  BY <2>2, <2>3, <2>4, <2>5, <2>6, <2>7 DEF t
<1>3. CASE N = ask.limit
  <2> DEFINE w == Worst(results)
  <2>1. w \in 1 .. N /\ \A j \in 1 .. N : ~Better(results[w], results[j])
    BY <1>1, <1>3, WorstIsThere
  <2>2. t = IF Better(r, results[w]) THEN [results EXCEPT ![w] = r] ELSE results
    BY <1>1, <1>3 DEF Consider
  <2> HIDE DEF w, t
  <2>3. CASE Better(r, results[w])
    <3>1. t = [results EXCEPT ![w] = r]  BY <2>2, <2>3
    <3>2. /\ t \in Seq(E) /\ Len(t) = N /\ DOMAIN t = 1 .. N
          /\ t[w] = r /\ \A i \in 1 .. N : i # w => t[i] = results[i]
      BY <1>1, <2>1, <3>1, ExceptSeq
    <3>3. Keeps(t, r)  BY <2>1, <3>2 DEF Keeps
    <3>4. ASSUME NEW x \in E, Keeps(results, x)  PROVE Keeps(t, x)
      <4>1. CASE \E i \in 1 .. N : i # w /\ results[i] = x
        BY <3>2, <4>1 DEF Keeps
      <4>2. CASE results[w] = x
        <5>1. ~Better(x, r)  BY <1>1, <2>1, <2>3, <4>2, BetterIsOneWay
        <5>2. \A i \in 1 .. N : ~Better(x, t[i])
          BY <2>1, <3>2, <4>2, <5>1
        <5>3. QED  BY <1>3, <3>2, <5>2 DEF Keeps
      <4>3. CASE \A i \in 1 .. N : ~Better(x, results[i])
        <5>1. ~Better(results[w], r)  BY <1>1, <2>1, <2>3, BetterIsOneWay
        <5>2. ~Better(x, r)  BY <1>1, <2>1, <4>3, <5>1, BetterHasLevels
        <5>3. \A i \in 1 .. N : ~Better(x, t[i])
          BY <3>2, <4>3, <5>2
        <5>4. QED  BY <1>3, <3>2, <5>3 DEF Keeps
      <4>4. QED  BY <1>1, <3>4, <4>1, <4>2, <4>3 DEF Keeps
    <3>5. \A i \in DOMAIN t : \/ i = w /\ t[i] = r
                              \/ i \in DOMAIN results /\ t[i] = results[i]
      BY <1>1, <3>2
    <3>6. w \in Nat  BY <2>1
    <3>7. QED  BY <1>1, <1>3, <3>2, <3>3, <3>4, <3>5, <3>6 DEF t
  <2>4. CASE ~Better(r, results[w])
    <3>1. t = results  BY <2>2, <2>4
    <3>2. \A j \in 1 .. N : ~Better(r, results[j])
      BY <1>1, <2>1, <2>4, BetterHasLevels
    <3>3. Keeps(t, r)  BY <1>1, <1>3, <3>1, <3>2 DEF Keeps
    <3>4. \A i \in DOMAIN t : i \in DOMAIN results /\ t[i] = results[i]  BY <3>1
    <3>5. 0 \in Nat  OBVIOUS
    <3>6. QED  BY <1>3, <3>1, <3>3, <3>4, <3>5 DEF t
  <2>5. QED  BY <2>3, <2>4
<1>4. QED  BY <1>1, <1>2, <1>3

----------------------------------------------------------------------------
(* Answers, and the combinations they are of.                                *)

(* One member of a sum in place of another.                                  *)
LEMMA SumExchanged ==
  ASSUME NEW f, NEW S, IsFiniteSet(S), NEW x \in S, NEW y, y \notin S,
         \A i \in S \cup {y} : f[i] \in Int, NEW T, T = (S \ {x}) \cup {y}
  PROVE  /\ IsFiniteSet(T) /\ Cardinality(T) = Cardinality(S)
         /\ SumFunctionOnSet(f, S) \in Int
         /\ SumFunctionOnSet(f, T) = SumFunctionOnSet(f, S) - f[x] + f[y]
<1> DEFINE r == S \ {x}
<1>1. IsFiniteSet(r) /\ Cardinality(r) = Cardinality(S) - 1 /\ Cardinality(S) \in Nat
  BY FS_RemoveElement, FS_CardinalityType
<1>2. y \notin r /\ T \ {y} = r /\ y \in T
  OBVIOUS
<1>3. (\A i \in r : f[i] \in Int) /\ (\A i \in T : f[i] \in Int) /\ f[x] \in Int /\ f[y] \in Int
  OBVIOUS
<1>4. IsFiniteSet(T) /\ Cardinality(T) = Cardinality(S)
  <2> HIDE DEF r
  <2>1. IsFiniteSet(T) /\ Cardinality(T) = Cardinality(r) + 1
    BY <1>1, <1>2, FS_AddElement DEF r
  <2>2. QED  BY <1>1, <2>1
<1>5. SumFunctionOnSet(f, S) = f[x] + SumFunctionOnSet(f, r)
  <2>1. \A i \in S : f[i] \in Int  OBVIOUS
  <2>2. QED  BY <2>1, SumWithout
<1>6. SumFunctionOnSet(f, T) = f[y] + SumFunctionOnSet(f, r)
  <2> HIDE DEF r
  <2>1. SumFunctionOnSet(f, T) = f[y] + SumFunctionOnSet(f, T \ {y})
    BY <1>2, <1>3, <1>4, SumWithout
  <2>2. QED  BY <1>2, <2>1
<1>7. SumFunctionOnSet(f, r) \in Int
  <2> HIDE DEF r
  <2>1. QED  BY <1>1, <1>3, SumType
<1>8. QED
  <2> HIDE DEF r
  <2>1. QED  BY <1>3, <1>4, <1>5, <1>6, <1>7

(* What was asked for.                                                       *)
Asked == ask \in Requests /\ Valid(ask)

(* The numbers of what is asked for, and the range of the sums it allows.    *)
LEMMA AskedIs ==
  ASSUME Asked
  PROVE  /\ ask.target \in Nat \ {0} /\ ask.tolerance \in Nat /\ ask.tolerance <= ask.target
         /\ ask.maxDepth \in Nat \ {0} /\ ask.limit \in Nat \ {0}
         /\ Upper \in Nat /\ Lower \in Nat /\ Lower <= Upper
<1>1. /\ ask.target \in Targets /\ ask.tolerance \in Tolerances
      /\ ask.maxDepth \in Depths /\ ask.limit \in Limits /\ ask.tolerance <= ask.target
  BY DEF Asked, Requests, Valid
<1>2. /\ ask.target \in Nat \ {0} /\ ask.maxDepth \in Nat \ {0} /\ ask.limit \in Nat \ {0}
  BY <1>1, PositiveRequests
<1>3. ask.tolerance \in Nat
  BY <1>1, NumbersAreNat
<1>4. QED  BY <1>1, <1>2, <1>3 DEF Upper, Lower

\* The places of the items of a pass, and what combinations of them are called
\* among the candidates.
Places == DOMAIN items
IdsOf(S) == {items[i].id : i \in S}

(* What a list drawn from the candidates looks like, place by place.         *)
LEMMA ItemsAre ==
  ASSUME Drawn(items)
  PROVE  /\ Len(items) \in Nat /\ Places = 1 .. Len(items) /\ IsFiniteSet(Places)
         /\ \A i \in Places : /\ items[i].id \in Nat /\ items[i].amount \in Nat /\ items[i].age \in Nat
                              /\ items[i].id \in DOMAIN candidates /\ candidates[items[i].id] = items[i]
         /\ \A i, j \in Places : i < j => items[i].amount >= items[j].amount
         /\ \A i, j \in Places : i < j /\ items[i].amount = items[j].amount => items[i].age >= items[j].age
         /\ \A i, j \in Places : items[i].id = items[j].id => i = j
<1>1. items \in Seq(Item)
  BY DEF Drawn
<1>2. Len(items) \in Nat /\ Places = 1 .. Len(items) /\ \A i \in Places : items[i] \in Item
  BY <1>1 DEF Places
<1>3. IsFiniteSet(Places)
  BY <1>2, FS_Interval
<1>4. \A i \in Places : /\ items[i].id \in Nat /\ items[i].amount \in Nat /\ items[i].age \in Nat
                        /\ items[i].id \in DOMAIN candidates /\ candidates[items[i].id] = items[i]
  BY <1>2 DEF Item, Drawn, Places
<1>5. \A i, j \in Places : i < j => \/ items[i].amount > items[j].amount
                                    \/ items[i].amount = items[j].amount /\ items[i].age >= items[j].age
  BY DEF Drawn, Ordered, Places
<1>6. ASSUME NEW i \in Places, NEW j \in Places, items[i].id = items[j].id  PROVE i = j
  <2>1. i < j => items[i].id < items[j].id  BY DEF Drawn, Places
  <2>2. j < i => items[j].id < items[i].id  BY DEF Drawn, Places
  <2>3. i \in Nat /\ j \in Nat  BY <1>2
  <2>4. QED  BY <1>4, <1>6, <2>1, <2>2, <2>3
<1>7. QED
  <2>1. ASSUME NEW i \in Places, NEW j \in Places, i < j
        PROVE  /\ items[i].amount >= items[j].amount
               /\ items[i].amount = items[j].amount => items[i].age >= items[j].age
    BY <1>4, <1>5, <2>1
  <2>2. QED  BY <1>2, <1>3, <1>4, <1>6, <2>1

(* An answer found among the items is the same answer among the candidates.  *)
LEMMA AnswerOfItems ==
  ASSUME Asked, Listed, Drawn(items), NEW S, S \subseteq Places
  PROVE  /\ IsFiniteSet(S) /\ Cardinality(S) \in Nat
         /\ SumOf(S, items) \in Nat /\ AgeOf(S, items) \in Nat
         /\ Distance(SumOf(S, items)) \in Nat
         /\ IdsOf(S) \subseteq DOMAIN candidates /\ IsFiniteSet(IdsOf(S))
         /\ Cardinality(IdsOf(S)) = Cardinality(S)
         /\ SumOf(IdsOf(S), candidates) = SumOf(S, items)
         /\ Answer(S, items).ids = IdsOf(S)
         /\ Answer(IdsOf(S), candidates) = Answer(S, items)
<1> DEFINE h == [i \in Places |-> items[i].id]
           amt == [i \in Places |-> items[i].amount]
           old == [i \in Places |-> items[i].age]
           camt == [i \in DOMAIN candidates |-> candidates[i].amount]
           cold == [i \in DOMAIN candidates |-> candidates[i].age]
<1>1. IsFiniteSet(S) /\ Cardinality(S) \in Nat
  BY ItemsAre, FS_Subset, FS_CardinalityType
<1>2. /\ IdsOf(S) = Image(h, S)
      /\ IdsOf(S) \subseteq DOMAIN candidates
  BY ItemsAre DEF IdsOf, Image
<1>3. /\ \A i \in S : /\ h[i] \in DOMAIN candidates
                      /\ amt[i] \in Nat /\ amt[i] \in Int /\ old[i] \in Nat /\ old[i] \in Int
                      /\ camt[h[i]] = amt[i] /\ cold[h[i]] = old[i]
      /\ \A i, j \in S : h[i] = h[j] => i = j
  BY ItemsAre
<1>4. /\ SumOf(S, items) = SumFunctionOnSet(amt, S)
      /\ AgeOf(S, items) = SumFunctionOnSet(old, S)
      /\ SumOf(IdsOf(S), candidates) = SumFunctionOnSet(camt, Image(h, S))
      /\ AgeOf(IdsOf(S), candidates) = SumFunctionOnSet(cold, Image(h, S))
  BY <1>2 DEF SumOf, AgeOf, Places
<1> HIDE DEF h, amt, old, camt, cold
<1>5. /\ SumFunctionOnSet(amt, S) \in Nat
      /\ SumFunctionOnSet(old, S) \in Nat
  <2>1. SumFunctionOnSet(amt, S) \in Nat  BY <1>1, <1>3, SumOfNaturals
  <2>2. SumFunctionOnSet(old, S) \in Nat  BY <1>1, <1>3, SumOfNaturals
  <2>3. QED  BY <2>1, <2>2
<1>6. /\ IsFiniteSet(Image(h, S)) /\ Cardinality(Image(h, S)) = Cardinality(S)
      /\ SumFunctionOnSet(camt, Image(h, S)) = SumFunctionOnSet(amt, S)
  BY <1>1, <1>3, SumRenamed
<1>7. SumFunctionOnSet(cold, Image(h, S)) = SumFunctionOnSet(old, S)
  BY <1>1, <1>3, SumRenamed
<1>8. Distance(SumOf(S, items)) \in Nat
  <2>1. ask.target \in Nat  BY AskedIs
  <2>2. QED  BY <1>4, <1>5, <2>1 DEF Distance
<1>9. Answer(S, items).ids = IdsOf(S)
  BY DEF Answer, IdsOf
<1>10. {candidates[k].id : k \in IdsOf(S)} = IdsOf(S)
  <2>1. \A k \in IdsOf(S) : candidates[k].id = k  BY <1>2 DEF Listed
  <2>2. QED  BY <2>1
<1>11. /\ SumOf(IdsOf(S), candidates) = SumOf(S, items)
       /\ AgeOf(IdsOf(S), candidates) = AgeOf(S, items)
  BY <1>4, <1>6, <1>7
<1>12. Answer(IdsOf(S), candidates) = Answer(S, items)
  BY <1>9, <1>10, <1>11 DEF Answer
<1>13. QED
  BY <1>1, <1>2, <1>4, <1>5, <1>6, <1>8, <1>9, <1>11, <1>12

(* So answers can be compared.                                               *)
LEMMA AnswersCompare ==
  ASSUME Asked, Listed, Drawn(items), NEW S, S \subseteq Places, S # {}
  PROVE  Comparable(Answer(S, items))
<1>1. /\ Answer(S, items).ids = IdsOf(S)
      /\ Answer(S, items).absErr = Distance(SumOf(S, items))
      /\ Answer(S, items).age = AgeOf(S, items)
  BY DEF Answer, IdsOf
<1>2. Cardinality(S) \in Nat \ {0}
  BY AnswerOfItems, FS_EmptySet
<1>3. Count(Answer(S, items)) = Cardinality(S)
  BY <1>1, AnswerOfItems DEF Count
<1>4. QED  BY <1>1, <1>2, <1>3, AnswerOfItems DEF Comparable

----------------------------------------------------------------------------
(* Combinations and their amounts.                                           *)

(* Of expenses of one amount, a search comes across the first ones first: it *)
(* tries no combination that passes over one of them for a later one.        *)
Canonical(R) ==
  \A i \in R : i = 1 \/ i - 1 \in R \/ items[i - 1].amount # items[i].amount

\* Those of them that are of the amount m.
PartOf(ids, m) == {k \in ids : candidates[k].amount = m}

(* Equal multisets have as many of each amount, and the other way round.     *)
LEMMA SameAmounts ==
  ASSUME NEW S, NEW T, IsFiniteSet(S), IsFiniteSet(T)
  PROVE  Multiset(S) = Multiset(T)
           <=> \A m : Cardinality(PartOf(S, m)) = Cardinality(PartOf(T, m))
<1> DEFINE A(X) == {candidates[i].amount : i \in X}
<1>1. /\ Multiset(S) = [m \in A(S) |-> Cardinality(PartOf(S, m))]
      /\ Multiset(T) = [m \in A(T) |-> Cardinality(PartOf(T, m))]
  BY DEF Multiset, PartOf
<1>2. \A m : /\ IsFiniteSet(PartOf(S, m)) /\ IsFiniteSet(PartOf(T, m))
             /\ m \in A(S) <=> PartOf(S, m) # {}
             /\ m \in A(T) <=> PartOf(T, m) # {}
  <2> TAKE m
  <2>1. PartOf(S, m) \subseteq S /\ PartOf(T, m) \subseteq T  BY DEF PartOf
  <2>2. IsFiniteSet(PartOf(S, m)) /\ IsFiniteSet(PartOf(T, m))  BY <2>1, FS_Subset
  <2>3. /\ m \in A(S) <=> PartOf(S, m) # {}
        /\ m \in A(T) <=> PartOf(T, m) # {}
    BY DEF PartOf
  <2>4. QED  BY <2>2, <2>3
<1> HIDE DEF A
<1>3. \A m : /\ Cardinality(PartOf(S, m)) = 0 <=> PartOf(S, m) = {}
             /\ Cardinality(PartOf(T, m)) = 0 <=> PartOf(T, m) = {}
  BY <1>2, FS_EmptySet
<1>4. ASSUME Multiset(S) = Multiset(T), NEW m
      PROVE  Cardinality(PartOf(S, m)) = Cardinality(PartOf(T, m))
  <2>1. A(S) = A(T)
    <3>1. DOMAIN Multiset(S) = A(S) /\ DOMAIN Multiset(T) = A(T)  BY <1>1
    <3>2. QED  BY <1>4, <3>1
  <2>2. CASE m \in A(S)
    <3>1. Multiset(S)[m] = Cardinality(PartOf(S, m))  BY <1>1, <2>2
    <3>2. Multiset(T)[m] = Cardinality(PartOf(T, m))  BY <1>1, <2>1, <2>2
    <3>3. QED  BY <1>4, <3>1, <3>2
  <2>3. CASE m \notin A(S)
    BY <1>2, <1>3, <2>1, <2>3
  <2>4. QED  BY <2>2, <2>3
<1>5. ASSUME \A m : Cardinality(PartOf(S, m)) = Cardinality(PartOf(T, m))
      PROVE  Multiset(S) = Multiset(T)
  <2>1. \A m : m \in A(S) <=> m \in A(T)  BY <1>2, <1>3, <1>5
  <2>2. A(S) = A(T)  BY <2>1
  <2>3. [m \in A(S) |-> Cardinality(PartOf(S, m))] = [m \in A(T) |-> Cardinality(PartOf(T, m))]
    BY <1>5, <2>2
  <2>4. QED  BY <1>1, <2>3
<1>6. QED  BY <1>4, <1>5

(* Where two of them part, one goes without and has fewer of that amount.     *)
LEMMA FewerOfThat ==
  ASSUME Asked, Listed, Drawn(items),
         NEW R, NEW S, R \subseteq Places, S \subseteq Places, Canonical(S),
         NEW d, d \in R, d \notin S, \A i \in 1 .. d - 1 : i \in R <=> i \in S
  PROVE  Multiset(IdsOf(R)) # Multiset(IdsOf(S))
<1> DEFINE m == items[d].amount
<1>1. /\ Len(items) \in Nat /\ Places = 1 .. Len(items) /\ d \in Places
      /\ \A i \in Places : items[i].amount \in Nat /\ i \in Nat
  BY ItemsAre
<1>2. ASSUME NEW i \in S, items[i].amount = m  PROVE i < d
  <2> DEFINE B == {j \in S : j > d /\ items[j].amount = m}
  <2>1. SUFFICES ASSUME B # {} PROVE FALSE
    BY <1>1, <1>2
  <2>2. PICK j \in B : \A k \in B : j <= k
    <3>1. B \subseteq Nat  BY <1>1
    <3> HIDE DEF B
    <3>2. QED  BY <2>1, <3>1, LeastOfSome
  <2>3. j \in S /\ j \in Places /\ j > d /\ items[j].amount = m
    OBVIOUS
  <2> DEFINE p == j - 1
  <2>4. p \in Places /\ p < j /\ p >= d /\ p \in Nat /\ j # 1
    BY <1>1, <2>3
  <2>5. items[p].amount = m
    <3>1. items[p].amount >= items[j].amount
      <4> HIDE DEF p
      <4>1. QED  BY <2>3, <2>4, ItemsAre
    <3>2. d = p \/ items[d].amount >= items[p].amount
      <4> HIDE DEF p
      <4>1. d = p \/ d < p  BY <1>1, <2>4
      <4>2. QED  BY <1>1, <2>4, <4>1, ItemsAre
    <3>3. items[p].amount \in Nat /\ items[j].amount \in Nat /\ m \in Nat
      BY <1>1, <2>3, <2>4
    <3> HIDE DEF p
    <3>4. QED  BY <2>3, <3>1, <3>2, <3>3
  <2>6. p \notin S
    <3>1. CASE p = d  BY <3>1
    <3>2. CASE p # d
      <4>1. p > d /\ ~(j <= p)  BY <1>1, <2>3, <2>4, <3>2
      <4>2. p \notin B
        <5> HIDE DEF B, p
        <5>1. QED  BY <2>2, <4>1
      <4>3. QED  BY <2>5, <4>1, <4>2
    <3>3. QED  BY <3>1, <3>2
  <2>7. QED
    BY <2>3, <2>4, <2>5, <2>6 DEF Canonical
<1>3. /\ IsFiniteSet(IdsOf(R)) /\ IsFiniteSet(IdsOf(S))
  BY AnswerOfItems
<1>4. PartOf(IdsOf(S), m) \subseteq PartOf(IdsOf(R), m)
  <2>1. SUFFICES ASSUME NEW k \in PartOf(IdsOf(S), m)
                 PROVE  k \in IdsOf(R) /\ candidates[k].amount = m
    BY DEF PartOf
  <2>2. PICK i \in S : k = items[i].id
    BY DEF PartOf, IdsOf
  <2>3. candidates[k].amount = m /\ candidates[k] = items[i]
    BY <2>2, ItemsAre DEF PartOf
  <2>4. i < d /\ i \in Places  BY <1>2, <2>3
  <2>5. i \in 1 .. d - 1  BY <1>1, <2>4
  <2>6. i \in R  BY <2>5
  <2>7. QED  BY <2>2, <2>3, <2>6 DEF IdsOf
<1>5. items[d].id \in PartOf(IdsOf(R), m)
  <2>1. candidates[items[d].id] = items[d]  BY <1>1, ItemsAre
  <2>2. items[d].id \in IdsOf(R)  BY DEF IdsOf
  <2>3. QED  BY <2>1, <2>2 DEF PartOf
<1>6. items[d].id \notin PartOf(IdsOf(S), m)
  <2>1. ASSUME NEW i \in S, items[i].id = items[d].id  PROVE FALSE
    <3>1. i = d  BY <1>1, <2>1, ItemsAre
    <3>2. QED  BY <3>1
  <2>2. QED  BY <2>1 DEF PartOf, IdsOf
<1>7. IsFiniteSet(PartOf(IdsOf(R), m))
  <2>1. PartOf(IdsOf(R), m) \subseteq IdsOf(R)  BY DEF PartOf
  <2>2. QED  BY <1>3, <2>1, FS_Subset
<1>8. Cardinality(PartOf(IdsOf(R), m)) # Cardinality(PartOf(IdsOf(S), m))
  <2> HIDE DEF m
  <2>1. QED  BY <1>4, <1>5, <1>6, <1>7, FS_Subset
<1>9. QED
  <2> HIDE DEF m
  <2>1. QED  BY <1>3, <1>8, SameAmounts

(* So no two of them are of the same amounts.                                *)
LEMMA CanonicalDiffer ==
  ASSUME Asked, Listed, Drawn(items),
         NEW R, NEW S, R \subseteq Places, S \subseteq Places, Canonical(R), Canonical(S), R # S
  PROVE  Multiset(IdsOf(R)) # Multiset(IdsOf(S))
<1> DEFINE D == (R \ S) \cup (S \ R)
<1>1. Len(items) \in Nat /\ Places = 1 .. Len(items)
  BY ItemsAre
<1>2. PICK d \in D : \A j \in D : d <= j
  <2>1. D \subseteq Nat /\ D # {}  BY <1>1
  <2> HIDE DEF D
  <2>2. QED  BY <2>1, LeastOfSome
<1>3. d \in Nat
  BY <1>1
<1>4. \A i \in 1 .. d - 1 : i \in R <=> i \in S
  <2> TAKE i \in 1 .. d - 1
  <2>1. ~(d <= i)  BY <1>3
  <2>2. i \notin D
    <3> HIDE DEF D
    <3>1. QED  BY <1>2, <2>1
  <2>3. QED  BY <2>2
<1>5. CASE d \in R
  <2>1. d \notin S  BY <1>5
  <2>2. QED  BY <1>4, <1>5, <2>1, FewerOfThat
<1>6. CASE d \in S
  <2>1. d \notin R  BY <1>6
  <2>2. Multiset(IdsOf(S)) # Multiset(IdsOf(R))  BY <1>4, <1>6, <2>1, FewerOfThat
  <2>3. QED  BY <2>2
<1>7. QED  BY <1>5, <1>6

(* A combination of earlier expenses has a smaller sum of places.            *)
PlaceSum(S) == SumFunctionOnSet([i \in Places |-> i], S)

(* An expense may give way to the one before it if that is of its amount: no *)
(* answer is worse for it.                                                   *)
LEMMA EarlierIsAsGood ==
  ASSUME Asked, Listed, Drawn(items), NEW S \in Combinations(items),
         NEW i \in S, i # 1, i - 1 \notin S, items[i - 1].amount = items[i].amount
  PROVE  LET T == (S \ {i}) \cup {i - 1}
         IN  /\ T \in Combinations(items)
             /\ Multiset(IdsOf(T)) = Multiset(IdsOf(S))
             /\ ~Better(Answer(S, items), Answer(T, items))
             /\ PlaceSum(S) \in Nat /\ PlaceSum(T) \in Nat /\ PlaceSum(T) < PlaceSum(S)
<1> DEFINE p == i - 1
           T == (S \ {i}) \cup {p}
           amt == [k \in Places |-> items[k].amount]
           old == [k \in Places |-> items[k].age]
           own == [k \in Places |-> k]
<1>1. /\ S \subseteq Places /\ Cardinality(S) \in 1 .. ask.maxDepth
      /\ Distance(SumOf(S, items)) <= ask.tolerance
  BY DEF Combinations, Places
<1>2. /\ i \in Places /\ p \in Places /\ p < i /\ p \in Nat /\ i \in Nat
      /\ Places \subseteq Nat
  BY <1>1, ItemsAre
<1>3. p \notin S /\ items[p].amount = items[i].amount
  OBVIOUS
<1>4. items[p].age >= items[i].age
  <2> HIDE DEF p
  <2>1. QED  BY <1>2, <1>3, ItemsAre
<1> HIDE DEF p
<1>5. /\ IsFiniteSet(S) /\ T \subseteq Places
  BY <1>1, <1>2, AnswerOfItems
<1>6. /\ \A k \in S \cup {p} : amt[k] \in Int
      /\ \A k \in S \cup {p} : old[k] \in Int
      /\ \A k \in S \cup {p} : own[k] \in Int
  BY <1>1, <1>2, ItemsAre
<1>7. /\ amt[p] = amt[i] /\ amt[i] \in Int
      /\ old[p] >= old[i] /\ old[p] \in Int /\ old[i] \in Int
      /\ own[p] < own[i] /\ own[p] \in Int /\ own[i] \in Int
  BY <1>2, <1>3, <1>4, ItemsAre
<1>8. /\ SumOf(S, items) = SumFunctionOnSet(amt, S) /\ SumOf(T, items) = SumFunctionOnSet(amt, T)
      /\ AgeOf(S, items) = SumFunctionOnSet(old, S) /\ AgeOf(T, items) = SumFunctionOnSet(old, T)
      /\ PlaceSum(S) = SumFunctionOnSet(own, S) /\ PlaceSum(T) = SumFunctionOnSet(own, T)
  BY DEF SumOf, AgeOf, PlaceSum, Places
<1>9. \A k \in S : own[k] \in Nat
  BY <1>1, <1>2
<1>10. \A k \in T : own[k] \in Nat
  BY <1>2, <1>5
<1>11. T = (S \ {i}) \cup {p}
  OBVIOUS
<1> HIDE DEF amt, old, own
<1>12. /\ Cardinality(T) = Cardinality(S) /\ IsFiniteSet(T)
       /\ SumOf(T, items) = SumOf(S, items)
  <2>1. /\ Cardinality(T) = Cardinality(S) /\ IsFiniteSet(T)
        /\ SumFunctionOnSet(amt, S) \in Int
        /\ SumFunctionOnSet(amt, T) = SumFunctionOnSet(amt, S) - amt[i] + amt[p]
    <3>1. \A k \in S \cup {p} : amt[k] \in Int  BY <1>6
    <3>2. QED  BY <1>3, <1>5, <1>11, <3>1, SumExchanged
  <2> HIDE DEF T
  <2>2. QED  BY <1>7, <1>8, <2>1
<1>13. AgeOf(T, items) >= AgeOf(S, items)
  <2>1. /\ SumFunctionOnSet(old, S) \in Int
        /\ SumFunctionOnSet(old, T) = SumFunctionOnSet(old, S) - old[i] + old[p]
    <3>1. \A k \in S \cup {p} : old[k] \in Int  BY <1>6
    <3>2. QED  BY <1>3, <1>5, <1>11, <3>1, SumExchanged
  <2> HIDE DEF T
  <2>2. QED  BY <1>7, <1>8, <2>1
<1>14. PlaceSum(S) \in Nat /\ PlaceSum(T) \in Nat /\ PlaceSum(T) < PlaceSum(S)
  <2>1. /\ SumFunctionOnSet(own, S) \in Int
        /\ SumFunctionOnSet(own, T) = SumFunctionOnSet(own, S) - own[i] + own[p]
    <3>1. \A k \in S \cup {p} : own[k] \in Int  BY <1>6
    <3>2. QED  BY <1>3, <1>5, <1>11, <3>1, SumExchanged
  <2> HIDE DEF T
  <2>2. SumFunctionOnSet(own, S) \in Nat  BY <1>5, <1>9, SumOfNaturals
  <2>3. SumFunctionOnSet(own, T) \in Nat  BY <1>10, <1>12, SumOfNaturals
  <2>4. QED  BY <1>7, <1>8, <2>1, <2>2, <2>3
<1>15. T \in Combinations(items)
  <2>1. T \in SUBSET DOMAIN items  BY <1>5 DEF Places
  <2> HIDE DEF T
  <2>2. QED  BY <1>1, <1>12, <2>1 DEF Combinations
<1>16. ~Better(Answer(S, items), Answer(T, items))
  <2> HIDE DEF T
  <2>1. /\ Answer(S, items).absErr = Answer(T, items).absErr
        /\ Answer(S, items).age <= Answer(T, items).age
        /\ Answer(S, items).age \in Nat /\ Answer(T, items).age \in Nat
        /\ Answer(S, items).absErr \in Nat
    BY <1>1, <1>5, <1>12, <1>13, AnswerOfItems DEF Answer
  <2>2. Count(Answer(S, items)) = Cardinality(S) /\ Count(Answer(T, items)) = Cardinality(S)
    BY <1>1, <1>5, <1>12, AnswerOfItems DEF Count
  <2>3. Cardinality(S) \in Nat  BY <1>1, AnswerOfItems
  <2> DEFINE a == Answer(S, items)
             b == Answer(T, items)
             n == Cardinality(S)
  <2>4. Score(a, b) = (1095 + 2 * a.age) * n /\ Score(b, a) = (1095 + 2 * b.age) * n
    BY <2>2 DEF Score
  <2>5. /\ (1095 + 2 * a.age) * n \in Nat /\ (1095 + 2 * b.age) * n \in Nat
        /\ (1095 + 2 * a.age) * n <= (1095 + 2 * b.age) * n
    <3>1. /\ 1095 + 2 * a.age \in Nat /\ 1095 + 2 * b.age \in Nat
          /\ 1095 + 2 * a.age <= 1095 + 2 * b.age
      BY <2>1
    <3> HIDE DEF a, b, n
    <3>2. n \in Nat  BY <2>3 DEF n
    <3>3. QED  BY <3>1, <3>2, TimesKeeps
  <2>6. /\ ~(Score(a, b) > Score(b, a))
        /\ ~(Count(a) < Count(b))
        /\ ~(a.absErr < b.absErr)
    <3>1. ~(Count(a) < Count(b))  BY <2>2, <2>3
    <3>2. ~(a.absErr < b.absErr)  BY <2>1
    <3> HIDE DEF a, b, n
    <3>3. ~(Score(a, b) > Score(b, a))  BY <2>4, <2>5
    <3>4. QED  BY <3>1, <3>2, <3>3
  <2> HIDE DEF a, b
  <2>7. ~Better(a, b)  BY <2>6 DEF Better
  <2>8. QED  BY <2>7 DEF a, b
<1>17. Multiset(IdsOf(T)) = Multiset(IdsOf(S))
  <2>1. IsFiniteSet(IdsOf(S)) /\ IsFiniteSet(IdsOf(T))
    BY <1>1, <1>5, AnswerOfItems
  <2> DEFINE x == items[i].id
             y == items[p].id
  <2>2. /\ x \in IdsOf(S) /\ y \notin IdsOf(S)
        /\ IdsOf(T) = (IdsOf(S) \ {x}) \cup {y}
    <3>1. \A j, k \in Places : items[j].id = items[k].id => j = k  BY ItemsAre
    <3>2. QED  BY <1>1, <1>2, <1>3, <3>1 DEF IdsOf
  <2>3. candidates[x].amount = candidates[y].amount
    BY <1>2, <1>3, ItemsAre
  <2> HIDE DEF x, y, T
  <2>4. ASSUME NEW m  PROVE Cardinality(PartOf(IdsOf(T), m)) = Cardinality(PartOf(IdsOf(S), m))
    <3>1. CASE candidates[x].amount = m
      <4> DEFINE P == PartOf(IdsOf(S), m)
      <4>1. /\ PartOf(IdsOf(T), m) = (P \ {x}) \cup {y}
            /\ x \in P /\ y \notin P
        BY <2>2, <2>3, <3>1 DEF PartOf
      <4>2. IsFiniteSet(P)
        <5>1. P \subseteq IdsOf(S)  BY DEF PartOf
        <5>2. QED  BY <2>1, <5>1, FS_Subset
      <4> HIDE DEF P
      <4>3. IsFiniteSet(P \ {x}) /\ Cardinality(P \ {x}) = Cardinality(P) - 1 /\ y \notin P \ {x}
        BY <4>1, <4>2, FS_RemoveElement
      <4>4. Cardinality((P \ {x}) \cup {y}) = Cardinality(P) - 1 + 1
        BY <4>3, FS_AddElement
      <4>5. Cardinality(P) \in Nat  BY <4>2, FS_CardinalityType
      <4>6. QED  BY <4>1, <4>4, <4>5 DEF P
    <3>2. CASE candidates[x].amount # m
      <4>1. PartOf(IdsOf(T), m) = PartOf(IdsOf(S), m)
        BY <2>2, <2>3, <3>2 DEF PartOf
      <4>2. QED  BY <4>1
    <3>3. QED  BY <3>1, <3>2
  <2>5. QED  BY <2>1, <2>4, SameAmounts
<1>18. QED
  <2> HIDE DEF T
  <2>1. QED  BY <1>14, <1>15, <1>16, <1>17 DEF T, p

(* Every combination has one of its amounts that a search does try, and that *)
(* is as good.                                                               *)
LEMMA ACanonicalOne ==
  ASSUME Asked, Listed, Drawn(items), NEW S \in Combinations(items)
  PROVE  \E R \in Combinations(items) :
           /\ Canonical(R)
           /\ Multiset(IdsOf(R)) = Multiset(IdsOf(S))
           /\ ~Better(Answer(S, items), Answer(R, items))
<1> DEFINE Fine(R) == /\ Multiset(IdsOf(R)) = Multiset(IdsOf(S))
                      /\ ~Better(Answer(S, items), Answer(R, items))
           C == {R \in Combinations(items) : Fine(R)}
           B == {PlaceSum(R) : R \in C}
<1>1. \A R \in Combinations(items) :
        R \subseteq Places /\ R # {} /\ Comparable(Answer(R, items)) /\ PlaceSum(R) \in Nat
  <2> TAKE R \in Combinations(items)
  <2>1. R \subseteq Places /\ Cardinality(R) \in 1 .. ask.maxDepth
    BY DEF Combinations, Places
  <2>2. R # {}  BY <2>1, FS_EmptySet
  <2>3. Comparable(Answer(R, items))  BY <2>1, <2>2, AnswersCompare
  <2> DEFINE own == [k \in Places |-> k]
  <2>4. \A k \in R : own[k] \in Nat  BY <2>1, ItemsAre
  <2>5. IsFiniteSet(R)  BY <2>1, AnswerOfItems
  <2>6. PlaceSum(R) = SumFunctionOnSet(own, R)  BY DEF PlaceSum
  <2> HIDE DEF own
  <2>7. PlaceSum(R) \in Nat  BY <2>4, <2>5, <2>6, SumOfNaturals
  <2>8. QED  BY <2>1, <2>2, <2>3, <2>7
<1>2. S \in C
  <2>1. ~Better(Answer(S, items), Answer(S, items))  BY <1>1, BetterIsOneWay
  <2>2. QED  BY <2>1
<1>3. PICK n \in B : \A k \in B : n <= k
  <2>1. B \subseteq Nat /\ B # {}  BY <1>1, <1>2
  <2> HIDE DEF B
  <2>2. QED  BY <2>1, LeastOfSome
<1>4. PICK R \in C : n = PlaceSum(R)
  OBVIOUS
<1>5. R \in Combinations(items) /\ Fine(R)
  OBVIOUS
<1>6. ASSUME NEW i \in R, i # 1, i - 1 \notin R, items[i - 1].amount = items[i].amount
      PROVE  FALSE
  <2> DEFINE T == (R \ {i}) \cup {i - 1}
  <2>1. /\ T \in Combinations(items)
        /\ Multiset(IdsOf(T)) = Multiset(IdsOf(R))
        /\ ~Better(Answer(R, items), Answer(T, items))
        /\ PlaceSum(R) \in Nat /\ PlaceSum(T) \in Nat /\ PlaceSum(T) < PlaceSum(R)
    BY <1>5, <1>6, EarlierIsAsGood
  <2> HIDE DEF T
  <2>2. ~Better(Answer(S, items), Answer(T, items))
    BY <1>1, <1>5, <2>1, BetterHasLevels
  <2>3. T \in C  BY <1>5, <2>1, <2>2
  <2>4. PlaceSum(T) \in B  BY <2>3
  <2>5. n <= PlaceSum(T)
    <3> HIDE DEF B
    <3>1. QED  BY <1>3, <2>4
  <2>6. QED  BY <1>4, <2>1, <2>5
<1>7. Canonical(R)
  BY <1>6 DEF Canonical
<1>8. QED  BY <1>5, <1>7

----------------------------------------------------------------------------
(* The order of a search.                                                    *)

(* Where a search is.  It tries combinations in the order of their places,   *)
(* one before those that go on from it: R comes before the place n after     *)
(* picked if it is what picked begins with, or leaves it for a smaller place. *)
Onto(R) == R \subseteq picked /\ \A j \in R, i \in picked : i <= j => i \in R
Behind(R, n) == \E d \in R \ picked : d < n /\ \A i \in 1 .. d - 1 : i \in R <=> i \in picked
\* What goes on from what is picked.
Beyond(R) == picked \subseteq R /\ \A j \in R \ picked : j >= Index
\* What has been gone through: in a call, what comes before the combination it is
\* about; in its loop, what comes before the place it is at; then all of them.
Gone(R) ==
  /\ at = "enter" => R # picked /\ (Onto(R) \/ Behind(R, Index))
  /\ at = "loop" => Onto(R) \/ Behind(R, next)

(* The highest of some places, and zero if there is none.                    *)
LEMMA HighestPlace ==
  ASSUME NEW N \in Nat, NEW S, S \subseteq 1 .. N
  PROVE  LET top == Max(S \cup {0})
         IN  /\ top \in 0 .. N
             /\ \A i \in S : i \in Nat /\ 1 <= i /\ i <= top
             /\ S # {} => top \in S
             /\ S = {} => top = 0
<1> DEFINE T == S \cup {0}
           top == Max(T)
<1>1. T \subseteq 0 .. N /\ T # {}
  OBVIOUS
<1> HIDE DEF T
<1>2. top \in T /\ \A y \in T : y <= top
  BY <1>1, HighestOfSome
<1> HIDE DEF top
<1> USE DEF T
<1>3. \A i \in S : i \in Nat /\ 1 <= i /\ i <= top
  BY <1>2
<1>4. S # {} => top \in S
  <2>1. SUFFICES ASSUME S # {}, top = 0 PROVE FALSE  BY <1>2
  <2>2. PICK i \in S : TRUE  BY <2>1
  <2>3. QED  BY <1>3, <2>1, <2>2
<1>5. top \in 0 .. N /\ (S = {} => top = 0)
  BY <1>1, <1>2
<1>6. QED  BY <1>3, <1>4, <1>5 DEF top

(* What was picked last comes after all else that was picked.                *)
LEMMA LatestIs ==
  ASSUME Drawn(items), picked \subseteq Places
  PROVE  /\ Latest \in 0 .. Len(items) /\ Index = Latest + 1
         /\ Len(items) \in Nat /\ Places = 1 .. Len(items)
         /\ \A i \in picked : i \in Nat /\ 1 <= i /\ i <= Latest
         /\ picked # {} => Latest \in picked
         /\ picked = {} => Latest = 0
<1>1. Len(items) \in Nat /\ Places = 1 .. Len(items)
  BY ItemsAre
<1>2. /\ Max(picked \cup {0}) \in 0 .. Len(items)
      /\ \A i \in picked : i \in Nat /\ 1 <= i /\ i <= Max(picked \cup {0})
      /\ picked # {} => Max(picked \cup {0}) \in picked
      /\ picked = {} => Max(picked \cup {0}) = 0
  BY <1>1, HighestPlace
<1>3. QED  BY <1>1, <1>2 DEF Latest, Index

(* Back from a call, what was behind stays so, and so is now all that goes   *)
(* on from it.                                                               *)
LEMMA LeaveGoesOn ==
  ASSUME Drawn(items), picked \subseteq Places, NEW left, Leave(left), left # 0,
         NEW R, R \subseteq Places
  PROVE  Gone(R)' <=> (Onto(R) /\ R # picked) \/ Behind(R, Index) \/ Beyond(R)
<1>1. /\ Latest \in Nat /\ Index = Latest + 1
      /\ \A i \in picked : i \in Nat /\ 1 <= i /\ i <= Latest
      /\ \A i \in R : i \in Nat /\ i >= 1
      /\ picked # {} => Latest \in picked
      /\ picked = {} => Latest = 0
  BY LatestIs
<1>2. CASE picked = {}
  <2>1. at' = "over"  BY <1>2 DEF Leave
  <2>2. Beyond(R)  BY <1>1, <1>2 DEF Beyond
  <2>3. QED  BY <2>1, <2>2 DEF Gone
<1>3. CASE picked # {}
  <2> DEFINE m == Latest
  <2>1. at' = "loop" /\ picked' = picked \ {m} /\ next' = m + 1
    BY <1>3 DEF Leave
  <2>2. Gone(R)' <=> Onto(R)' \/ Behind(R, next)'
    BY <2>1 DEF Gone
  <2>3. Onto(R)' <=> R \subseteq picked \ {m} /\ \A j \in R, i \in picked \ {m} : i <= j => i \in R
    BY <2>1 DEF Onto
  <2>4. Behind(R, next)' <=>
          \E d \in R \ (picked \ {m}) :
             d < m + 1 /\ \A i \in 1 .. d - 1 : i \in R <=> i \in picked \ {m}
    BY <2>1 DEF Behind
  <2>5. m \in Nat /\ m \in picked /\ (\A i \in picked : i \in Nat /\ i <= m) /\ Index = m + 1
        /\ \A i \in R : i \in Nat /\ i >= 1
    BY <1>1, <1>3
  <2> HIDE DEF m
  <2>6. ASSUME Onto(R)'  PROVE Onto(R) /\ R # picked
    BY <2>3, <2>5, <2>6 DEF Onto
  <2>7. ASSUME Onto(R), R # picked  PROVE Onto(R)'
    <3>1. m \notin R  BY <2>5, <2>7 DEF Onto
    <3>2. QED  BY <2>3, <2>5, <2>7, <3>1 DEF Onto
  <2>8. ASSUME Behind(R, next)'  PROVE Behind(R, Index) \/ Beyond(R)
    <3>1. PICK d \in R \ (picked \ {m}) :
             d < m + 1 /\ \A i \in 1 .. d - 1 : i \in R <=> i \in picked \ {m}
      BY <2>4, <2>8
    <3>2. d \in Nat /\ \A i \in 1 .. d - 1 : i \in R <=> i \in picked
      BY <2>5, <3>1
    <3>3. CASE d # m
      BY <2>5, <3>1, <3>2, <3>3 DEF Behind
    <3>4. CASE d = m
      <4>1. picked \subseteq R
        <5>1. SUFFICES ASSUME NEW i \in picked PROVE i \in R  OBVIOUS
        <5>2. i \in Nat /\ i >= 1 /\ i <= m  BY <1>1, <2>5, <3>4
        <5>3. i = m \/ i \in 1 .. d - 1  BY <2>5, <3>4, <5>2
        <5>4. QED  BY <3>1, <3>2, <3>4, <5>3
      <4>2. ASSUME NEW j \in R \ picked  PROVE j >= Index
        <5>1. j \in Nat /\ j >= 1 /\ j # m  BY <2>5
        <5>2. j \notin 1 .. d - 1  BY <3>2
        <5>3. QED  BY <2>5, <3>4, <5>1, <5>2
      <4>3. QED  BY <4>1, <4>2 DEF Beyond
    <3>5. QED  BY <3>3, <3>4
  <2>9. ASSUME Behind(R, Index)  PROVE Behind(R, next)'
    <3>1. PICK d \in R \ picked :
             d < Index /\ \A i \in 1 .. d - 1 : i \in R <=> i \in picked
      BY <2>9 DEF Behind
    <3>2. d \in R \ (picked \ {m}) /\ d < m + 1 /\ d \in Nat /\ d # m
      BY <2>5, <3>1
    <3>3. \A i \in 1 .. d - 1 : i \in R <=> i \in picked \ {m}
      BY <2>5, <3>1, <3>2
    <3>4. QED  BY <2>4, <3>2, <3>3
  <2>10. ASSUME Beyond(R)  PROVE Behind(R, next)'
    <3>1. m \in R \ (picked \ {m}) /\ m < m + 1
      BY <2>5, <2>10 DEF Beyond
    <3>2. \A i \in 1 .. m - 1 : i \in R <=> i \in picked \ {m}
      <4> TAKE i \in 1 .. m - 1
      <4>1. i # m /\ i \in Nat /\ ~(i >= Index)  BY <2>5
      <4>2. QED  BY <2>10, <4>1 DEF Beyond
    <3>3. QED  BY <2>4, <3>1, <3>2
  <2>11. QED  BY <2>2, <2>6, <2>7, <2>8, <2>9, <2>10
<1>4. QED  BY <1>2, <1>3

(* To pick a place leaves nothing behind.                                    *)
LEMMA PickGoesOn ==
  ASSUME Drawn(items), picked \subseteq Places, Pick, Index <= next, next \in Nat, items' = items,
         NEW R, R \subseteq Places
  PROVE  Gone(R)' <=> Gone(R)
<1> DEFINE n == next
<1>1. at = "loop" /\ at' = "enter" /\ picked' = picked \cup {n} /\ n \in Places
  <2>1. n \in Places  BY LatestIs DEF Pick
  <2>2. QED  BY <2>1 DEF Pick
<1>2. /\ n \in Nat /\ n >= Index /\ Index \in Nat
      /\ \A i \in picked : i \in Nat /\ i < n
      /\ \A i \in R : i \in Nat
  BY LatestIs
<1>3. Index' = n + 1
  <2> DEFINE S == picked \cup {n}
  <2>1. Len(items) \in Nat /\ S \subseteq 1 .. Len(items)  BY <1>1, LatestIs
  <2>2. Latest' = Max(S \cup {0}) /\ Index' = Latest' + 1
    BY <1>1 DEF Latest, Index
  <2>3. S # {} /\ n \in S /\ \A i \in S : i = n \/ i < n  BY <1>2
  <2> HIDE DEF S
  <2>4. /\ \A i \in S : i \in Nat /\ 1 <= i /\ i <= Max(S \cup {0})
        /\ Max(S \cup {0}) \in S
    BY <2>1, <2>3, HighestPlace
  <2>5. Latest' \in S /\ Latest' \in Nat /\ n <= Latest'  BY <2>2, <2>3, <2>4
  <2>6. Latest' = n  BY <1>2, <2>3, <2>5
  <2>7. QED  BY <2>2, <2>6
<1>4. Gone(R) <=> Onto(R) \/ Behind(R, n)
  BY <1>1 DEF Gone
<1>5. /\ Gone(R)' <=> R # picked \cup {n} /\ (Onto(R)' \/ Behind(R, Index)')
      /\ Onto(R)' <=> /\ R \subseteq picked \cup {n}
                      /\ \A j \in R, i \in picked \cup {n} : i <= j => i \in R
      /\ Behind(R, Index)' <=>
           \E d \in R \ (picked \cup {n}) :
              d < n + 1 /\ \A i \in 1 .. d - 1 : i \in R <=> i \in picked \cup {n}
  <2>1. Onto(R)' <=> /\ R \subseteq picked \cup {n}
                     /\ \A j \in R, i \in picked \cup {n} : i <= j => i \in R
    BY <1>1 DEF Onto
  <2>2. Behind(R, Index)' <=>
           \E d \in R \ (picked \cup {n}) :
              d < n + 1 /\ \A i \in 1 .. d - 1 : i \in R <=> i \in picked \cup {n}
    BY <1>1, <1>3 DEF Behind
  <2>3. Gone(R)' <=> R # picked \cup {n} /\ (Onto(R)' \/ Behind(R, Index)')
    BY <1>1 DEF Gone
  <2>4. QED  BY <2>1, <2>2, <2>3
<1> HIDE DEF n
<1>6. ASSUME R # picked \cup {n}, Onto(R)'  PROVE Onto(R)
  <2>1. n \notin R  BY <1>2, <1>5, <1>6
  <2>2. QED  BY <1>5, <1>6, <2>1 DEF Onto
<1>7. ASSUME Onto(R)  PROVE R # picked \cup {n} /\ Onto(R)'
  <2>1. n \notin R /\ R \subseteq picked  BY <1>2, <1>7 DEF Onto
  <2>2. \A j \in R, i \in picked \cup {n} : i <= j => i \in R
    BY <1>2, <1>7, <2>1 DEF Onto
  <2>3. QED  BY <1>5, <2>1, <2>2
<1>8. ASSUME NEW d \in R, d <= n
      PROVE  (\A i \in 1 .. d - 1 : i \in R <=> i \in picked \cup {n})
               <=> (\A i \in 1 .. d - 1 : i \in R <=> i \in picked)
  <2>1. \A i \in 1 .. d - 1 : i # n  BY <1>2, <1>8
  <2>2. QED  BY <2>1
<1>9. ASSUME Behind(R, Index)'  PROVE Behind(R, n)
  <2>1. PICK d \in R \ (picked \cup {n}) :
          d < n + 1 /\ \A i \in 1 .. d - 1 : i \in R <=> i \in picked \cup {n}
    BY <1>5, <1>9
  <2>2. d \in R \ picked /\ d < n /\ d <= n  BY <1>2, <2>1
  <2>3. QED  BY <1>8, <2>1, <2>2 DEF Behind
<1>10. ASSUME Behind(R, n)  PROVE R # picked \cup {n} /\ Behind(R, Index)'
  <2>1. PICK d \in R \ picked :
          d < n /\ \A i \in 1 .. d - 1 : i \in R <=> i \in picked
    BY <1>10 DEF Behind
  <2>2. d \in R \ (picked \cup {n}) /\ d < n + 1 /\ d <= n  BY <1>2, <2>1
  <2>3. \A i \in 1 .. d - 1 : i \in R <=> i \in picked \cup {n}  BY <1>8, <2>1, <2>2
  <2>4. QED  BY <1>5, <2>2, <2>3
<1>11. QED  BY <1>4, <1>5, <1>6, <1>7, <1>9, <1>10 DEF n

\* No combination that goes on from this one adds up to enough, or it is too much.
Hopeless == PickedSum > Upper \/ PickedSum + Suffix(Index) < Lower

(* Sums of the amounts.                                                      *)
LEMMA AmountsAdd ==
  ASSUME Drawn(items), NEW T, T \subseteq Places, NEW S, S \subseteq T
  PROVE  /\ SumOf(S, items) \in Nat /\ SumOf(T, items) \in Nat /\ SumOf(T \ S, items) \in Nat
         /\ SumOf(T, items) = SumOf(S, items) + SumOf(T \ S, items)
<1> DEFINE amt == [i \in Places |-> items[i].amount]
           D == T \ S
<1>1. IsFiniteSet(T) /\ IsFiniteSet(D)
  <2>1. IsFiniteSet(T)  BY ItemsAre, FS_Subset
  <2>2. QED  BY <2>1, FS_Subset
<1>2. (\A i \in T : amt[i] \in Nat) /\ (\A i \in D : amt[i] \in Nat)
  BY ItemsAre
<1>3. /\ SumOf(S, items) = SumFunctionOnSet(amt, S)
      /\ SumOf(T, items) = SumFunctionOnSet(amt, T)
      /\ SumOf(D, items) = SumFunctionOnSet(amt, D)
  BY DEF SumOf, Places
<1> HIDE DEF amt
<1>4. /\ SumFunctionOnSet(amt, S) \in Nat /\ SumFunctionOnSet(amt, T) \in Nat
      /\ SumFunctionOnSet(amt, T) = SumFunctionOnSet(amt, S) + SumFunctionOnSet(amt, T \ S)
  <2>1. IsFiniteSet(T) /\ \A i \in T : amt[i] \in Nat  BY <1>1, <1>2
  <2>2. SumFunctionOnSet(amt, T) = SumFunctionOnSet(amt, S) + SumFunctionOnSet(amt, T \ S)
    BY ONLY <2>1, S \subseteq T, SumOfPart
  <2>3. SumFunctionOnSet(amt, T) \in Nat
    BY ONLY <2>1, SumOfNaturals
  <2>4. SumFunctionOnSet(amt, S) \in Nat
    <3>1. IsFiniteSet(S) /\ \A i \in S : amt[i] \in Nat  BY <2>1, FS_Subset
    <3>2. QED  BY ONLY <3>1, SumOfNaturals
  <2>5. QED  BY <2>2, <2>3, <2>4
<1>5. SumFunctionOnSet(amt, D) \in Nat
  <2> HIDE DEF D
  <2>1. QED  BY <1>1, <1>2, SumOfNaturals
<1>6. QED  BY <1>3, <1>4, <1>5

(* What a right answer adds up to.                                           *)
LEMMA RightSums ==
  ASSUME Asked, Drawn(items), NEW R \in Combinations(items)
  PROVE  /\ R \subseteq Places /\ Cardinality(R) \in 1 .. ask.maxDepth
         /\ SumOf(R, items) \in Nat /\ Lower <= SumOf(R, items) /\ SumOf(R, items) <= Upper
<1>1. /\ R \subseteq Places /\ Cardinality(R) \in 1 .. ask.maxDepth
      /\ Distance(SumOf(R, items)) <= ask.tolerance
  BY DEF Combinations, Places
<1>2. SumOf(R, items) \in Nat
  BY <1>1, AmountsAdd
<1>3. QED
  BY <1>1, <1>2, AskedIs DEF Distance, Upper, Lower

(* A call that returns at once gives up no right answer but its own.         *)
LEMMA LeafGivesUpNothing ==
  ASSUME Asked, Drawn(items), picked \subseteq Places,
         NEW R \in Combinations(items), Beyond(R)
  PROVE  /\ ~Hopeless
         /\ Index > Len(items) \/ Cardinality(picked) = ask.maxDepth => R = picked
<1>1. /\ R \subseteq Places /\ Cardinality(R) \in 1 .. ask.maxDepth
      /\ SumOf(R, items) \in Nat /\ Lower <= SumOf(R, items) /\ SumOf(R, items) <= Upper
  BY RightSums
<1>2. picked \subseteq R /\ \A j \in R \ picked : j >= Index
  BY DEF Beyond
<1>3. /\ Latest \in Nat /\ Index = Latest + 1 /\ Len(items) \in Nat /\ Places = 1 .. Len(items)
  BY LatestIs
<1>4. /\ PickedSum \in Nat /\ SumOf(R \ picked, items) \in Nat
      /\ SumOf(R, items) = PickedSum + SumOf(R \ picked, items)
  BY <1>1, <1>2, AmountsAdd DEF PickedSum
<1> DEFINE T == Index .. Len(items)
<1>5. R \ picked \subseteq T /\ T \subseteq Places
  <2>1. \A j \in R : j \in Nat /\ 1 <= j /\ j <= Len(items)  BY <1>1, <1>3
  <2>2. \A j \in R \ picked : j \in T  BY <1>2, <1>3, <2>1
  <2>3. \A j \in T : j \in 1 .. Len(items)  BY <1>3
  <2>4. QED  BY <1>3, <2>2, <2>3
<1>6. /\ SumOf(T, items) \in Nat /\ SumOf(R \ picked, items) <= SumOf(T, items)
  <2> DEFINE D == R \ picked
  <2>1. D \subseteq T  BY <1>5
  <2> HIDE DEF T, D
  <2>2. /\ SumOf(D, items) \in Nat /\ SumOf(T, items) \in Nat /\ SumOf(T \ D, items) \in Nat
        /\ SumOf(T, items) = SumOf(D, items) + SumOf(T \ D, items)
    BY <1>5, <2>1, AmountsAdd
  <2>3. SumOf(D, items) <= SumOf(T, items)  BY <2>2
  <2>4. QED  BY <2>2, <2>3 DEF D
<1>7. Suffix(Index) = IF SumOf(T, items) < Upper THEN SumOf(T, items) ELSE Upper
  BY DEF Suffix
<1>8. Upper \in Nat /\ Lower \in Nat /\ Lower <= Upper
  BY AskedIs
<1>9. ~Hopeless
  <2> HIDE DEF T
  <2>1. ~(PickedSum > Upper)  BY <1>1, <1>4, <1>8
  <2>2. ~(PickedSum + Suffix(Index) < Lower)  BY <1>1, <1>4, <1>6, <1>7, <1>8
  <2>3. QED  BY <2>1, <2>2 DEF Hopeless
<1>10. ASSUME Index > Len(items)  PROVE R = picked
  <2>1. T = {}  BY <1>3, <1>10
  <2>2. QED  BY <1>2, <1>5, <2>1
<1>11. ASSUME Cardinality(picked) = ask.maxDepth  PROVE R = picked
  <2>1. IsFiniteSet(R)  BY <1>1, ItemsAre, FS_Subset
  <2>2. Cardinality(R) \in Nat /\ Cardinality(picked) <= Cardinality(R)
    BY <1>2, <2>1, FS_Subset, FS_CardinalityType
  <2>3. ask.maxDepth \in Nat  BY AskedIs
  <2>4. Cardinality(R) = Cardinality(picked)  BY <1>1, <1>11, <2>2, <2>3
  <2>5. QED  BY <1>2, <2>1, <2>4, FS_Subset
<1>12. QED  BY <1>9, <1>10, <1>11

(* What a loop passes over is no right answer, or is one of those it has met.*)
LEMMA SkipGoesOn ==
  ASSUME Asked, Drawn(items), picked \subseteq Places, Skip, Index <= next, next \in Nat,
         NEW R \in Combinations(items), Canonical(R)
  PROVE  Gone(R)' <=> Gone(R)
<1> DEFINE n == next
<1>1. at = "loop" /\ at' = "loop" /\ picked' = picked /\ next' = n + 1 /\ n <= Len(items)
      /\ (SeenAlready(n) \/ items[n].amount > Upper - PickedSum)
  BY DEF Skip
<1>2. /\ R \subseteq Places
      /\ SumOf(R, items) \in Nat /\ SumOf(R, items) <= Upper
  BY RightSums
<1>3. /\ Latest \in Nat /\ Index = Latest + 1 /\ n \in Nat /\ n >= Index /\ n \in Places
      /\ \A i \in picked : i \in Nat /\ 1 <= i /\ i <= Latest
      /\ \A i \in R : i \in Nat
  BY <1>1, <1>2, LatestIs
<1>4. /\ Gone(R) <=> Onto(R) \/ Behind(R, n)
      /\ Gone(R)' <=> Onto(R) \/ Behind(R, n + 1)
  <2>1. Gone(R) <=> Onto(R) \/ Behind(R, n)  BY <1>1 DEF Gone
  <2>2. Gone(R)' <=> Onto(R)' \/ Behind(R, next)'  BY <1>1 DEF Gone
  <2>3. Onto(R)' <=> Onto(R)  BY <1>1 DEF Onto
  <2>4. Behind(R, next)' <=> Behind(R, n + 1)  BY <1>1 DEF Behind
  <2>5. QED  BY <2>1, <2>2, <2>3, <2>4
<1> HIDE DEF n
<1>5. ASSUME n \in R, \A i \in 1 .. n - 1 : i \in R <=> i \in picked
      PROVE  FALSE
  <2>1. picked \subseteq R
    <3>1. \A i \in picked : i \in 1 .. n - 1  BY <1>3
    <3>2. QED  BY <1>5, <3>1
  <2>2. CASE SeenAlready(n)
    <3>1. n > Index /\ items[n].amount = items[n - 1].amount  BY <2>2 DEF SeenAlready
    <3>2. n - 1 \notin picked /\ n - 1 \in 1 .. n - 1 /\ n # 1  BY <1>3, <3>1
    <3>3. n - 1 \notin R  BY <1>5, <3>2
    <3>4. QED  BY <1>5, <3>1, <3>2, <3>3 DEF Canonical
  <2>3. CASE items[n].amount > Upper - PickedSum
    <3> DEFINE T == picked \cup {n}
    <3>1. T \subseteq R /\ T \subseteq Places /\ {n} \subseteq T /\ T \ {n} = picked
      BY <1>2, <1>3, <1>5, <2>1
    <3> HIDE DEF T
    <3>2. SumOf(T, items) \in Nat /\ SumOf(R \ T, items) \in Nat
          /\ SumOf(R, items) = SumOf(T, items) + SumOf(R \ T, items)
      BY <1>2, <3>1, AmountsAdd
    <3>3. SumOf(picked, items) \in Nat
          /\ SumOf(T, items) = SumOf({n}, items) + SumOf(picked, items)
      BY <3>1, AmountsAdd
    <3>4. SumOf({n}, items) = items[n].amount /\ items[n].amount \in Nat
      <4> DEFINE amt == [i \in Places |-> items[i].amount]
      <4>1. amt[n] = items[n].amount /\ items[n].amount \in Nat /\ items[n].amount \in Int
        BY <1>3, ItemsAre
      <4>2. SumOf({n}, items) = SumFunctionOnSet(amt, {n})  BY DEF SumOf, Places
      <4> HIDE DEF amt
      <4>3. IsFiniteSet({n}) /\ {n} # {} /\ \A i \in {n} : amt[i] \in Int
        BY <4>1, FS_Singleton
      <4>4. SumFunctionOnSet(amt, {n}) = amt[n] + SumFunctionOnSet(amt, {n} \ {n})
        BY <4>3, SumWithout
      <4>5. {n} \ {n} = {}  OBVIOUS
      <4>6. SumFunctionOnSet(amt, {n} \ {n}) = 0  BY <4>5, SumEmpty
      <4>7. QED  BY <4>1, <4>2, <4>4, <4>6
    <3>5. Upper \in Nat /\ PickedSum = SumOf(picked, items)  BY AskedIs DEF PickedSum
    <3>6. QED  BY <1>2, <2>3, <3>2, <3>3, <3>4, <3>5
  <2>4. QED  BY <1>1, <2>2, <2>3 DEF n
<1>6. ASSUME Behind(R, n + 1)  PROVE Behind(R, n)
  <2>1. PICK d \in R \ picked : d < n + 1 /\ \A i \in 1 .. d - 1 : i \in R <=> i \in picked
    BY <1>6 DEF Behind
  <2>2. d # n  BY <1>5, <2>1
  <2>3. d < n  BY <1>3, <2>1, <2>2
  <2>4. QED  BY <2>1, <2>3 DEF Behind
<1>7. ASSUME Behind(R, n)  PROVE Behind(R, n + 1)
  <2>1. PICK d \in R \ picked : d < n /\ \A i \in 1 .. d - 1 : i \in R <=> i \in picked
    BY <1>7 DEF Behind
  <2>2. d < n + 1  BY <1>3, <2>1
  <2>3. QED  BY <2>1, <2>2 DEF Behind
<1>8. QED  BY <1>4, <1>6, <1>7

(* At the end of a loop all that goes on from it has been met.               *)
LEMMA ReturnGoesOn ==
  ASSUME Drawn(items), picked \subseteq Places, Return, budget # 0, Index <= next, next \in Nat,
         NEW R, R \subseteq Places
  PROVE  Gone(R)' <=> Gone(R)
<1> DEFINE n == next
<1>1. at = "loop" /\ Leave(budget) /\ n > Len(items)
  BY DEF Return
<1>2. Gone(R)' <=> (Onto(R) /\ R # picked) \/ Behind(R, Index) \/ Beyond(R)
  BY <1>1, LeaveGoesOn
<1>3. Gone(R) <=> Onto(R) \/ Behind(R, n)
  BY <1>1 DEF Gone
<1>4. /\ Latest \in Nat /\ Index = Latest + 1 /\ n \in Nat /\ n >= Index
      /\ \A i \in picked : i \in Nat /\ 1 <= i /\ i <= Latest
      /\ \A i \in R : i \in Nat /\ 1 <= i /\ i < n
  BY <1>1, LatestIs
<1> HIDE DEF n
<1>5. ASSUME Behind(R, Index)  PROVE Behind(R, n)
  <2>1. PICK d \in R \ picked : d < Index /\ \A i \in 1 .. d - 1 : i \in R <=> i \in picked
    BY <1>5 DEF Behind
  <2>2. d < n  BY <1>4
  <2>3. QED  BY <2>1, <2>2 DEF Behind
<1>6. ASSUME Beyond(R)  PROVE Onto(R) \/ Behind(R, n)
  <2>1. picked \subseteq R /\ \A j \in R \ picked : j >= Index  BY <1>6 DEF Beyond
  <2>2. CASE R = picked
    BY <2>2 DEF Onto
  <2>3. CASE R # picked
    <3> DEFINE B == R \ picked
    <3>1. PICK d \in B : \A j \in B : d <= j
      <4>1. B \subseteq Nat /\ B # {}  BY <1>4, <2>1, <2>3
      <4> HIDE DEF B
      <4>2. QED  BY <4>1, LeastOfSome
    <3>2. d \in R \ picked /\ d < n  BY <1>4
    <3>3. \A i \in 1 .. d - 1 : i \in R <=> i \in picked
      <4> TAKE i \in 1 .. d - 1
      <4>1. ~(d <= i)  BY <1>4, <3>2
      <4>2. i \notin B
        <5> HIDE DEF B
        <5>1. QED  BY <3>1, <4>1
      <4>3. QED  BY <2>1, <4>2
    <3>4. QED  BY <3>2, <3>3 DEF Behind
  <2>4. QED  BY <2>2, <2>3
<1>7. ASSUME Onto(R), R = picked  PROVE Beyond(R)
  BY <1>7 DEF Beyond
<1>8. ASSUME Behind(R, n)  PROVE Behind(R, Index) \/ Beyond(R)
  <2>1. PICK d \in R \ picked : d < n /\ \A i \in 1 .. d - 1 : i \in R <=> i \in picked
    BY <1>8 DEF Behind
  <2>2. CASE d < Index
    BY <2>1, <2>2 DEF Behind
  <2>3. CASE d >= Index
    <3>1. picked \subseteq R
      <4>1. \A i \in picked : i \in 1 .. d - 1  BY <1>4, <2>3
      <4>2. QED  BY <2>1, <4>1
    <3>2. ASSUME NEW j \in R \ picked  PROVE j >= Index
      <4>1. j \notin 1 .. d - 1  BY <2>1
      <4>2. QED  BY <1>4, <2>3, <4>1
    <3>3. QED  BY <3>1, <3>2 DEF Beyond
  <2>4. QED  BY <1>4, <2>2, <2>3
<1>9. QED  BY <1>2, <1>3, <1>5, <1>6, <1>7, <1>8

----------------------------------------------------------------------------
(* The invariant of a search.                                                *)

(* The combinations a pass tries, and the answers there are.                 *)
Tried == {R \in Combinations(items) : Canonical(R)}
Answers == {Answer(R, items) : R \in Combinations(items)}

\* Both lists are in order, the one of the pass drawn from the other.
InLists ==
  /\ Asked /\ Listed /\ Drawn(items)
  /\ ~timePruned => items = candidates
\* What is picked is a combination the pass tries, or would with more in it.
InPlace ==
  /\ picked \subseteq Places /\ Canonical(picked) /\ Cardinality(picked) <= ask.maxDepth
  /\ next \in Nat /\ budget \in Nat
  /\ at \in {"enter", "loop", "over", "done", "cancelled"}
  /\ at = "loop" => Cardinality(picked) < ask.maxDepth /\ Index <= next
\* Every answer was found, and no two are of the same amounts.
Found ==
  /\ results \in Seq(Answers) /\ Len(results) <= ask.limit
  /\ \A i \in DOMAIN results : \E R \in Tried : Gone(R) /\ results[i] = Answer(R, items)
  /\ \A i, j \in DOMAIN results : i # j => Multiset(results[i].ids) # Multiset(results[j].ids)
\* What was gone through was kept, if it deserved it.
Complete ==
  at # "cancelled" /\ budget > 0 =>
    \A R \in Tried : Gone(R) => Keeps(results, Answer(R, items))
\* A search ends in order, and not before it has looked everywhere.
Ended ==
  at = "done" => /\ ~FoundNothing
                 /\ \A i, j \in DOMAIN results : i < j => ~Better(results[j], results[i])

MatchIInv == InLists /\ InPlace /\ Found /\ Complete /\ Ended

\* A step that does not start another pass.
SamePass == ask' = ask /\ candidates' = candidates /\ items' = items

(* What is said of a pass in terms of its lists stays as it is during the pass.*)
LEMMA SamePassSameWork ==
  ASSUME SamePass
  PROVE  /\ Asked' <=> Asked
         /\ Listed' <=> Listed
         /\ Drawn(items)' <=> Drawn(items)
         /\ Places' = Places
         /\ Tried' = Tried /\ Answers' = Answers
         /\ \A R : Canonical(R)' <=> Canonical(R)
         /\ \A R : Answer(R, items)' = Answer(R, items)
         /\ \A S : Multiset(S)' = Multiset(S)
<1> USE DEF SamePass
<1>1. Asked' <=> Asked
  BY DEF Asked, Requests, Valid
<1>2. Listed' <=> Listed
  BY DEF Listed
<1>3. Drawn(items)' <=> Drawn(items)
  BY DEF Drawn
<1>4. Places' = Places
  BY DEF Places
<1>5. \A R : Canonical(R)' <=> Canonical(R)
  BY DEF Canonical
<1>6. \A R : Answer(R, items)' = Answer(R, items)
  BY DEF Answer, Distance
<1>7. \A S : Multiset(S)' = Multiset(S)
  BY DEF Multiset
<1>8. Combinations(items)' = Combinations(items)
  BY DEF Combinations, Distance
<1>9. Tried' = Tried
  BY <1>5, <1>8 DEF Tried
<1>10. Answers' = Answers
  BY <1>6, <1>8 DEF Answers
<1>11. QED
  BY <1>1, <1>2, <1>3, <1>4, <1>5, <1>6, <1>7, <1>9, <1>10

(* The combinations a pass tries and their answers are right.                *)
LEMMA TriedAre ==
  ASSUME InLists
  PROVE  /\ \A R \in Tried : R \in Combinations(items) /\ R \subseteq Places /\ R # {} /\ Canonical(R)
         /\ \A R \in Tried : Answer(R, items) \in Answers /\ Answer(R, items).ids = IdsOf(R)
         /\ \A r \in Answers : Comparable(r)
         /\ ask.limit \in Nat \ {0}
<1>0. Asked /\ Listed /\ Drawn(items)
  BY DEF InLists
<1>1. \A R \in Combinations(items) : R \subseteq Places /\ R # {}
  <2> TAKE R \in Combinations(items)
  <2>1. R \subseteq Places /\ Cardinality(R) \in 1 .. ask.maxDepth
    BY DEF Combinations, Places
  <2>2. QED  BY <2>1, FS_EmptySet
<1>2. \A r \in Answers : Comparable(r)
  BY <1>0, <1>1, AnswersCompare DEF Answers
<1>3. \A R \in Tried : Answer(R, items) \in Answers /\ Answer(R, items).ids = IdsOf(R)
  BY DEF Answers, Tried, Answer, IdsOf
<1>4. QED
  BY <1>0, <1>1, <1>2, <1>3, AskedIs DEF Tried

(* The start of a pass is in order, if what it searches is.                  *)
LEMMA PassStarts ==
  ASSUME InLists, picked = {}, next = 1, results = <<>>, at = "enter", budget \in Nat
  PROVE  MatchIInv
<1>1. Asked /\ Listed /\ Drawn(items)
  BY DEF InLists
<1>2. InPlace
  <2>1. Cardinality(picked) = 0  BY FS_EmptySet
  <2>2. ask.maxDepth \in Nat  BY <1>1, AskedIs
  <2>3. Canonical(picked) /\ picked \subseteq Places  BY DEF Canonical
  <2>4. QED  BY <2>1, <2>2, <2>3 DEF InPlace
<1>3. Found
  <2>1. results \in Seq(Answers) /\ Len(results) = 0 /\ DOMAIN results = {}
    OBVIOUS
  <2>2. ask.limit \in Nat  BY <1>1, AskedIs
  <2>3. QED  BY <2>1, <2>2 DEF Found
<1>4. \A R \in Tried : ~Gone(R)
  <2> TAKE R \in Tried
  <2>1. R \subseteq Places /\ R # {}  BY TriedAre
  <2>2. Index = 1 /\ \A d \in Places : d \in Nat /\ 1 <= d
    <3>1. picked \subseteq Places  OBVIOUS
    <3>2. QED  BY <1>1, <3>1, LatestIs
  <2>3. ~Onto(R) /\ ~Behind(R, Index)  BY <2>1, <2>2 DEF Onto, Behind
  <2>4. QED  BY <2>3 DEF Gone
<1>5. Complete /\ Ended
  BY <1>4 DEF Complete, Ended
<1>6. QED  BY <1>2, <1>3, <1>5 DEF MatchIInv

(* A search starts in order.                                                 *)
LEMMA MatchInitHolds == MatchInit => MatchIInv
<1> SUFFICES ASSUME MatchInit PROVE MatchIInv
  OBVIOUS
<1>1. Asked
  BY DEF MatchInit, Asked
<1>2. Listed
  <2>1. PICK s \in Lists : candidates = Prepared(s, Upper)
    BY DEF MatchInit
  <2>2. Upper \in Int  BY <1>1, AskedIs
  <2>3. QED  BY <2>1, <2>2, PreparedAre DEF Listed
<1>3. Drawn(items) /\ (~timePruned => items = candidates)
  BY <1>2, AllAreDrawn, RecentAreDrawn DEF MatchInit
<1>4. budget \in Nat
  BY PositiveRequests DEF MatchInit
<1>5. QED
  BY <1>1, <1>2, <1>3, <1>4, PassStarts DEF MatchInit, InLists

----------------------------------------------------------------------------
(* Every step of a pass keeps it in its place.                               *)

(* Only the start of a second pass changes the lists.                        *)
LEMMA StepsOfAPass ==
  ASSUME Enter \/ OutOfNodes \/ Cancel \/ Pick \/ Skip \/ Return \/ Finish \/ UNCHANGED matchVars
  PROVE  SamePass /\ timePruned' = timePruned
<1>1. CASE Enter  BY <1>1 DEF Enter, SamePass, input
<1>2. CASE OutOfNodes  BY <1>2 DEF OutOfNodes, SamePass, input
<1>3. CASE Cancel  BY <1>3 DEF Cancel, SamePass, input
<1>4. CASE Pick  BY <1>4 DEF Pick, SamePass, input
<1>5. CASE Skip  BY <1>5 DEF Skip, SamePass, input
<1>6. CASE Return  BY <1>6 DEF Return, SamePass, input
<1>7. CASE Finish  BY <1>7 DEF Finish, SamePass, input
<1>8. CASE UNCHANGED matchVars  BY <1>8 DEF matchVars, SamePass, input
<1>9. QED  BY <1>1, <1>2, <1>3, <1>4, <1>5, <1>6, <1>7, <1>8

(* During a pass the lists are what they were.                               *)
LEMMA SameListsKept ==
  ASSUME InLists, SamePass, timePruned' = timePruned
  PROVE  InLists'
BY SamePassSameWork DEF InLists, SamePass

(* A second pass starts like the first.                                      *)
LEMMA SecondPassStarts ==
  ASSUME MatchIInv, SecondPass
  PROVE  MatchIInv'
<1>1. /\ ask' = ask /\ candidates' = candidates /\ items' = candidates
      /\ picked' = {} /\ next' = 1 /\ results' = results /\ at' = "enter" /\ budget' = budget
      /\ results = <<>>
  BY DEF SecondPass, AllOfThem, FoundNothing, input
<1>2. Asked /\ Listed /\ budget \in Nat
  BY DEF MatchIInv, InLists, InPlace
<1>3. Asked'
  BY <1>1, <1>2 DEF Asked, Requests, Valid
<1>4. Listed'
  BY <1>1, <1>2 DEF Listed
<1>5. Drawn(items)'
  <2>1. Drawn(candidates)  BY <1>2, AllAreDrawn
  <2>2. QED  BY <1>1, <2>1 DEF Drawn
<1>6. InLists'
  BY <1>1, <1>3, <1>4, <1>5 DEF InLists
<1>7. /\ (picked = {})' /\ (next = 1)' /\ (results = <<>>)' /\ (at = "enter")' /\ (budget \in Nat)'
  BY <1>1, <1>2
<1>8. QED
  BY <1>6, <1>7, PassStarts, PTL

(* Back in a loop, the search is in its place.                               *)
LEMMA LeaveInPlace ==
  ASSUME MatchIInv, SamePass, NEW left \in Nat, Leave(left), budget' \in Nat
  PROVE  InPlace'
<1>1. /\ picked \subseteq Places /\ Canonical(picked) /\ Cardinality(picked) <= ask.maxDepth
      /\ next \in Nat /\ Drawn(items) /\ Asked
  BY DEF MatchIInv, InPlace, InLists
<1>2. Places' = Places /\ ask' = ask /\ \A R : Canonical(R)' <=> Canonical(R)
  BY SamePassSameWork DEF SamePass
<1>3. CASE picked = {} \/ left = 0
  <2>1. at' = "over" /\ picked' = picked /\ next' = next  BY <1>3 DEF Leave
  <2>2. Canonical(picked)'  BY <1>1, <1>2, <2>1 DEF Canonical, SamePass
  <2>3. QED  BY <1>1, <1>2, <2>1, <2>2 DEF InPlace
<1>4. CASE ~(picked = {} \/ left = 0)
  <2> DEFINE m == Latest
             T == picked \ {m}
  <2>1. at' = "loop" /\ picked' = T /\ next' = m + 1
    BY <1>4 DEF Leave
  <2>2. /\ m \in picked /\ m \in Nat /\ Len(items) \in Nat /\ Places = 1 .. Len(items)
        /\ \A i \in picked : i \in Nat /\ 1 <= i /\ i <= m
    BY <1>1, <1>4, LatestIs
  <2> HIDE DEF m
  <2>3. Cardinality(T) < ask.maxDepth /\ Cardinality(T) <= ask.maxDepth
    <3>1. IsFiniteSet(picked)  BY <1>1, ItemsAre, FS_Subset
    <3>2. Cardinality(picked) \in Nat  BY <3>1, FS_CardinalityType
    <3>3. Cardinality(T) = Cardinality(picked) - 1  BY <2>2, <3>1, FS_RemoveElement
    <3>4. ask.maxDepth \in Nat  BY <1>1, AskedIs
    <3>5. QED  BY <1>1, <3>2, <3>3, <3>4
  <2>4. Canonical(picked)'
    <3>1. \A i \in T : i = 1 \/ i - 1 \in T \/ items[i - 1].amount # items[i].amount
      <4> TAKE i \in T
      <4>1. i \in picked /\ i \in Nat /\ i <= m /\ i - 1 # m  BY <2>2
      <4>2. QED  BY <1>1, <4>1 DEF Canonical
    <3>2. QED  BY <2>1, <3>1 DEF Canonical, SamePass
  <2>5. Index' <= next' /\ next' \in Nat
    <3>1. Index' = Max(T \cup {0}) + 1
      BY <2>1 DEF Index, Latest
    <3>2. T \subseteq 1 .. Len(items)  BY <1>1, <2>2
    <3>3. Max(T \cup {0}) \in Nat /\ Max(T \cup {0}) <= m
      <4> HIDE DEF T
      <4>1. /\ Max(T \cup {0}) \in 0 .. Len(items)
            /\ T # {} => Max(T \cup {0}) \in T
            /\ T = {} => Max(T \cup {0}) = 0
        BY <2>2, <3>2, HighestPlace
      <4>2. \A i \in T : i <= m  BY <2>2 DEF T
      <4>3. QED  BY <2>2, <4>1, <4>2
    <3>4. QED  BY <2>1, <2>2, <3>1, <3>3
  <2>6. (picked \subseteq Places)' /\ Cardinality(picked)' < ask.maxDepth'
        /\ Cardinality(picked)' <= ask.maxDepth'
    BY <1>1, <1>2, <2>1, <2>3
  <2>7. QED  BY <2>1, <2>4, <2>5, <2>6 DEF InPlace
<1>5. QED  BY <1>3, <1>4

(* A call leaves the search in its place.                                    *)
LEMMA EnterInPlace ==
  ASSUME MatchIInv, Enter
  PROVE  InPlace'
<1>1. SamePass
  BY StepsOfAPass
<1>2. /\ picked \subseteq Places /\ Canonical(picked) /\ Cardinality(picked) <= ask.maxDepth
      /\ next \in Nat /\ budget \in Nat /\ Drawn(items) /\ Asked
  BY DEF MatchIInv, InPlace, InLists
<1>3. budget' \in Nat
  BY <1>2 DEF Enter
<1>4. CASE Leave(budget')
  BY <1>1, <1>3, <1>4, LeaveInPlace
<1>5. CASE ~Leave(budget')
  <2>1. at' = "loop" /\ next' = Index /\ picked' = picked /\ Cardinality(picked) # ask.maxDepth
    BY <1>5 DEF Enter
  <2>2. Places' = Places /\ ask' = ask /\ items' = items
    BY <1>1, SamePassSameWork DEF SamePass
  <2>3. Canonical(picked)'  BY <1>2, <2>1, <2>2 DEF Canonical
  <2>4. Index' = Index /\ Index \in Nat
    <3>1. Index \in Nat  BY <1>2, LatestIs
    <3>2. QED  BY <2>1, <3>1 DEF Index, Latest
  <2>5. Cardinality(picked) < ask.maxDepth
    <3>1. IsFiniteSet(picked)  BY <1>2, ItemsAre, FS_Subset
    <3>2. Cardinality(picked) \in Nat  BY <3>1, FS_CardinalityType
    <3>3. ask.maxDepth \in Nat  BY <1>2, AskedIs
    <3>4. QED  BY <1>2, <2>1, <3>2, <3>3
  <2>6. (picked \subseteq Places)' /\ Cardinality(picked)' < ask.maxDepth'
        /\ Cardinality(picked)' <= ask.maxDepth' /\ next' \in Nat /\ Index' <= next'
    BY <1>2, <2>1, <2>2, <2>4, <2>5
  <2>7. QED  BY <1>3, <2>1, <2>3, <2>6 DEF InPlace
<1>6. QED  BY <1>4, <1>5

(* So does picking: only the first of some of an amount can be picked next.  *)
LEMMA PickInPlace ==
  ASSUME MatchIInv, Pick
  PROVE  InPlace'
<1>1. SamePass
  BY StepsOfAPass
<1>2. /\ picked \subseteq Places /\ Canonical(picked) /\ Cardinality(picked) < ask.maxDepth
      /\ next \in Nat /\ budget \in Nat /\ Drawn(items) /\ Asked /\ Index <= next
  BY DEF MatchIInv, InPlace, InLists, Pick
<1> DEFINE n == next
           T == picked \cup {n}
<1>3. /\ at' = "enter" /\ picked' = T /\ next' = n /\ budget' = budget
      /\ n <= Len(items) /\ ~SeenAlready(n)
  BY DEF Pick
<1>4. /\ Latest \in Nat /\ Index = Latest + 1 /\ Len(items) \in Nat /\ Places = 1 .. Len(items)
      /\ picked # {} => Latest \in picked
      /\ picked = {} => Latest = 0
      /\ \A i \in picked : i \in Nat /\ i <= Latest
  BY <1>2, LatestIs
<1>5. T \subseteq Places /\ n \notin picked
  BY <1>2, <1>3, <1>4
<1>6. Cardinality(T) <= ask.maxDepth
  <2>1. IsFiniteSet(picked)  BY <1>2, ItemsAre, FS_Subset
  <2>2. Cardinality(picked) \in Nat  BY <2>1, FS_CardinalityType
  <2>3. Cardinality(T) = Cardinality(picked) + 1  BY <1>5, <2>1, FS_AddElement
  <2>4. ask.maxDepth \in Nat  BY <1>2, AskedIs
  <2>5. QED  BY <1>2, <2>2, <2>3, <2>4
<1>7. n = 1 \/ n - 1 \in T \/ items[n - 1].amount # items[n].amount
  <2>1. CASE n > Index
    BY <1>3, <2>1 DEF SeenAlready
  <2>2. CASE n = Index
    <3>1. n - 1 = Latest  BY <1>4, <2>2
    <3>2. QED  BY <1>4, <2>2, <3>1
  <2>3. QED  BY <1>2, <1>4, <2>1, <2>2
<1>8. Canonical(picked)'
  <2>1. \A i \in T : i = 1 \/ i - 1 \in T \/ items[i - 1].amount # items[i].amount
    BY <1>2, <1>7 DEF Canonical
  <2> HIDE DEF T
  <2>2. QED  BY <1>1, <1>3, <2>1 DEF Canonical, SamePass
<1>9. (picked \subseteq Places)' /\ Cardinality(picked)' <= ask.maxDepth'
  <2>1. Places' = Places /\ ask' = ask  BY <1>1, SamePassSameWork DEF SamePass
  <2> HIDE DEF T
  <2>2. QED  BY <1>3, <1>5, <1>6, <2>1
<1>10. QED  BY <1>2, <1>3, <1>8, <1>9 DEF InPlace

(* So does every step of a pass.                                             *)
LEMMA InPlaceKept ==
  ASSUME MatchIInv,
         Enter \/ OutOfNodes \/ Cancel \/ Pick \/ Skip \/ Return \/ Finish \/ UNCHANGED matchVars
  PROVE  InPlace'
<1>1. SamePass
  BY StepsOfAPass
<1>2. Places' = Places /\ ask' = ask /\ items' = items
  BY <1>1, SamePassSameWork DEF SamePass
<1>3. InPlace
  BY DEF MatchIInv
<1>4. ASSUME picked' = picked, next' = next, budget' \in Nat, at' \in {"over", "done", "cancelled"}
      PROVE  InPlace'
  <2>1. Canonical(picked)'  BY <1>2, <1>3, <1>4 DEF Canonical, InPlace
  <2>2. (picked \subseteq Places)' /\ Cardinality(picked)' <= ask.maxDepth'
    BY <1>2, <1>3, <1>4 DEF InPlace
  <2>3. QED  BY <1>3, <1>4, <2>1, <2>2 DEF InPlace
<1>5. CASE Enter
  BY <1>5, EnterInPlace
<1>6. CASE OutOfNodes
  BY <1>3, <1>4, <1>6 DEF OutOfNodes, InPlace
<1>7. CASE Cancel
  BY <1>3, <1>4, <1>7 DEF Cancel, InPlace
<1>8. CASE Pick
  BY <1>8, PickInPlace
<1>9. CASE Skip
  <2>1. /\ picked' = picked /\ next' = next + 1 /\ budget' = budget /\ at' = at /\ at = "loop"
    BY <1>9 DEF Skip
  <2>2. Canonical(picked)'  BY <1>2, <1>3, <2>1 DEF Canonical, InPlace
  <2>3. Index' = Index /\ Index \in Nat
    <3>1. Index \in Nat  BY <1>3, LatestIs DEF InPlace, MatchIInv, InLists
    <3>2. QED  BY <2>1, <3>1 DEF Index, Latest
  <2>4. (picked \subseteq Places)' /\ Cardinality(picked)' <= ask.maxDepth'
        /\ Cardinality(picked)' < ask.maxDepth' /\ Index' <= next' /\ next' \in Nat
    BY <1>2, <1>3, <2>1, <2>3 DEF InPlace
  <2>5. QED  BY <1>3, <2>1, <2>2, <2>4 DEF InPlace
<1>10. CASE Return
  <2>1. Leave(budget) /\ budget' = budget /\ budget \in Nat  BY <1>3, <1>10 DEF Return, InPlace
  <2>2. QED  BY <1>1, <2>1, LeaveInPlace
<1>11. CASE Finish
  BY <1>3, <1>4, <1>11 DEF Finish, InPlace
<1>12. CASE UNCHANGED matchVars
  <2>1. /\ picked' = picked /\ next' = next /\ budget' = budget /\ at' = at
    BY <1>12 DEF matchVars
  <2>2. Canonical(picked)'  BY <1>2, <1>3, <2>1 DEF Canonical, InPlace
  <2>3. Index' = Index  BY <2>1 DEF Index, Latest
  <2>4. QED  BY <1>2, <1>3, <2>1, <2>2, <2>3 DEF InPlace
<1>13. QED
  BY <1>5, <1>6, <1>7, <1>8, <1>9, <1>10, <1>11, <1>12

----------------------------------------------------------------------------
(* What a step goes through.                                                 *)

(* A call gets on by the combination it is about.                            *)
LEMMA EnterGoesOn ==
  ASSUME MatchIInv, Enter, NEW R \in Tried
  PROVE  /\ Gone(R) \/ R = picked => Gone(R)'
         /\ budget' # 0 => (Gone(R)' => Gone(R) \/ R = picked)
<1>1. /\ Asked /\ Drawn(items) /\ picked \subseteq Places
      /\ R \in Combinations(items) /\ R \subseteq Places
  BY TriedAre DEF MatchIInv, InLists, InPlace
<1>2. at = "enter" /\ budget' \in Nat
  BY DEF Enter, MatchIInv, InPlace
<1>3. Gone(R) <=> R # picked /\ (Onto(R) \/ Behind(R, Index))
  BY <1>2 DEF Gone
<1>4. \/ /\ Leave(budget')
         /\ Hopeless \/ Index > Len(items) \/ Cardinality(picked) = ask.maxDepth
      \/ at' = "loop" /\ next' = Index /\ picked' = picked
  BY DEF Enter, Hopeless
<1>5. Onto(picked) /\ Beyond(picked)
  BY DEF Onto, Beyond
<1>6. CASE Leave(budget') /\ (Hopeless \/ Index > Len(items) \/ Cardinality(picked) = ask.maxDepth)
  <2>1. CASE budget' = 0
    <3>1. at' = "over"  BY <1>6, <2>1 DEF Leave
    <3>2. QED  BY <2>1, <3>1 DEF Gone
  <2>2. CASE budget' # 0
    <3>1. Gone(R)' <=> (Onto(R) /\ R # picked) \/ Behind(R, Index) \/ Beyond(R)
      BY <1>1, <1>6, <2>2, LeaveGoesOn
    <3>2. ASSUME Beyond(R)  PROVE R = picked
      BY <1>1, <1>6, <3>2, LeafGivesUpNothing
    <3>3. ~Behind(picked, Index)  BY DEF Behind
    <3>4. QED  BY <1>3, <1>5, <3>1, <3>2, <3>3
  <2>3. QED  BY <2>1, <2>2
<1>7. CASE at' = "loop" /\ next' = Index /\ picked' = picked
  <2>1. Gone(R)' <=> Onto(R)' \/ Behind(R, next)'  BY <1>7 DEF Gone
  <2>2. Onto(R)' <=> Onto(R)  BY <1>7 DEF Onto
  <2>3. Behind(R, next)' <=> Behind(R, Index)  BY <1>7 DEF Behind
  <2>4. ~Behind(picked, Index)  BY DEF Behind
  <2>5. QED  BY <1>3, <1>5, <2>1, <2>2, <2>3, <2>4
<1>8. QED  BY <1>4, <1>6, <1>7

(* A call considers the answer that is due, and nothing else.                *)
LEMMA EnterConsiders ==
  ASSUME MatchIInv, Enter
  PROVE  results' = IF picked \in Tried THEN Consider(Answer(picked, items)) ELSE results
<1>1. /\ Asked /\ Listed /\ Drawn(items) /\ picked \subseteq Places /\ Canonical(picked)
      /\ Cardinality(picked) <= ask.maxDepth
  BY DEF MatchIInv, InLists, InPlace
<1>2. results' = IF ~Hopeless /\ picked # {} /\ Distance(PickedSum) <= ask.tolerance
                 THEN Consider(Answer(picked, items)) ELSE results
  BY DEF Enter, Hopeless
<1>3. ASSUME picked \in Tried
      PROVE  ~Hopeless /\ picked # {} /\ Distance(PickedSum) <= ask.tolerance
  <2>1. picked \in Combinations(items) /\ picked # {}
    BY <1>3, TriedAre DEF MatchIInv
  <2>2. Beyond(picked)  BY DEF Beyond
  <2>3. ~Hopeless  BY <1>1, <2>1, <2>2, LeafGivesUpNothing
  <2>4. Distance(PickedSum) <= ask.tolerance  BY <2>1 DEF Combinations, PickedSum
  <2>5. QED  BY <2>1, <2>3, <2>4
<1>4. ASSUME ~Hopeless, picked # {}, Distance(PickedSum) <= ask.tolerance
      PROVE  picked \in Tried
  <2>1. IsFiniteSet(picked) /\ Cardinality(picked) \in Nat
    BY <1>1, AnswerOfItems
  <2>2. Cardinality(picked) # 0  BY <1>4, <2>1, FS_EmptySet
  <2>3. ask.maxDepth \in Nat  BY <1>1, AskedIs
  <2>4. Cardinality(picked) \in 1 .. ask.maxDepth  BY <1>1, <2>1, <2>2, <2>3
  <2>5. picked \in Combinations(items)
    BY <1>1, <1>4, <2>4 DEF Combinations, PickedSum, Places
  <2>6. QED  BY <1>1, <2>5 DEF Tried
<1>5. QED  BY <1>2, <1>3, <1>4

(* What has been gone through stays so during a pass.                        *)
LEMMA GoneStays ==
  ASSUME MatchIInv, NEW R \in Tried, Gone(R),
         Enter \/ OutOfNodes \/ Cancel \/ Pick \/ Skip \/ Return \/ Finish \/ UNCHANGED matchVars
  PROVE  Gone(R)'
<1>1. /\ Asked /\ Drawn(items) /\ picked \subseteq Places /\ next \in Nat /\ items' = items
      /\ R \in Combinations(items) /\ R \subseteq Places /\ Canonical(R)
      /\ at = "loop" => Index <= next
  BY TriedAre, StepsOfAPass DEF MatchIInv, InLists, InPlace, SamePass
<1>2. CASE Enter
  BY <1>2, EnterGoesOn
<1>3. CASE OutOfNodes \/ Cancel \/ Finish
  <2>1. at' # "enter" /\ at' # "loop"  BY <1>3 DEF OutOfNodes, Cancel, Finish
  <2>2. QED  BY <2>1 DEF Gone
<1>4. CASE Pick
  <2>1. Index <= next  BY <1>1, <1>4 DEF Pick
  <2>2. QED  BY <1>1, <1>4, <2>1, PickGoesOn
<1>5. CASE Skip
  <2>1. Index <= next  BY <1>1, <1>5 DEF Skip
  <2>2. QED  BY <1>1, <1>5, <2>1, SkipGoesOn
<1>6. CASE Return
  <2>1. Index <= next  BY <1>1, <1>6 DEF Return
  <2>2. CASE budget = 0
    <3>1. at' = "over"  BY <1>6, <2>2 DEF Return, Leave
    <3>2. QED  BY <3>1 DEF Gone
  <2>3. CASE budget # 0
    BY <1>1, <1>6, <2>1, <2>3, ReturnGoesOn
  <2>4. QED  BY <2>2, <2>3
<1>7. CASE UNCHANGED matchVars
  <2>1. picked' = picked /\ next' = next /\ at' = at  BY <1>7 DEF matchVars
  <2>2. Index' = Index  BY <2>1 DEF Index, Latest
  <2>3. QED  BY <2>1, <2>2 DEF Gone, Onto, Behind
<1>8. QED  BY <1>2, <1>3, <1>4, <1>5, <1>6, <1>7

(* Only a call goes through a right answer, unless the search is cut short.  *)
LEMMA GoneByCallsOnly ==
  ASSUME MatchIInv, NEW R \in Tried, Gone(R)', ~Gone(R), budget' > 0, at' # "cancelled",
         Enter \/ OutOfNodes \/ Cancel \/ Pick \/ Skip \/ Return \/ Finish \/ UNCHANGED matchVars
  PROVE  Enter /\ R = picked
<1>1. /\ Asked /\ Drawn(items) /\ picked \subseteq Places /\ next \in Nat /\ items' = items
      /\ R \in Combinations(items) /\ R \subseteq Places /\ Canonical(R)
      /\ at = "loop" => Index <= next
      /\ budget \in Nat
  BY TriedAre, StepsOfAPass DEF MatchIInv, InLists, InPlace, SamePass
<1>2. CASE Enter
  BY <1>2, EnterGoesOn
<1>3. CASE OutOfNodes
  BY <1>3 DEF OutOfNodes
<1>4. CASE Cancel
  BY <1>4 DEF Cancel
<1>5. CASE Finish
  BY <1>5 DEF Finish, Gone
<1>6. CASE Pick
  <2>1. Index <= next  BY <1>1, <1>6 DEF Pick
  <2>2. QED  BY <1>1, <1>6, <2>1, PickGoesOn
<1>7. CASE Skip
  <2>1. Index <= next  BY <1>1, <1>7 DEF Skip
  <2>2. QED  BY <1>1, <1>7, <2>1, SkipGoesOn
<1>8. CASE Return
  <2>1. Index <= next /\ budget # 0  BY <1>1, <1>8 DEF Return
  <2>2. QED  BY <1>1, <1>8, <2>1, ReturnGoesOn
<1>9. CASE UNCHANGED matchVars
  <2>1. picked' = picked /\ next' = next /\ at' = at  BY <1>9 DEF matchVars
  <2>2. Index' = Index  BY <2>1 DEF Index, Latest
  <2>3. QED  BY <2>1, <2>2 DEF Gone, Onto, Behind
<1>10. QED  BY <1>2, <1>3, <1>4, <1>5, <1>6, <1>7, <1>8, <1>9

(* Only a call and the sorting change the results.                           *)
LEMMA ResultsStay ==
  ASSUME OutOfNodes \/ Cancel \/ Pick \/ Skip \/ Return \/ UNCHANGED matchVars
  PROVE  results' = results
BY DEF OutOfNodes, Cancel, Pick, Skip, Return, matchVars

----------------------------------------------------------------------------
(* What a step finds and keeps.                                              *)

(* The call at a right answer adds it to those found, whose amounts are      *)
(* others.                                                                   *)
LEMMA FoundByCall ==
  ASSUME MatchIInv, Enter
  PROVE  Found'
<1>1. /\ InLists /\ Asked /\ Listed /\ Drawn(items) /\ Found
  BY DEF MatchIInv, InLists
<1>2. /\ Tried' = Tried /\ Answers' = Answers /\ ask' = ask
      /\ \A R : Answer(R, items)' = Answer(R, items)
      /\ \A S : Multiset(S)' = Multiset(S)
  BY StepsOfAPass, SamePassSameWork DEF SamePass
<1>3. \A R \in Tried : Gone(R) => Gone(R)'
  BY GoneStays
<1>4. ask.limit \in Nat \ {0} /\ \A x \in Answers : Comparable(x)
  BY <1>1, TriedAre
<1> DEFINE r == Answer(picked, items)
<1>5. /\ results' \in Seq(Answers) /\ Len(results') <= ask.limit
      /\ \E w \in Nat :
           \A i \in DOMAIN results' :
              \/ i = w /\ picked \in Tried /\ results'[i] = r
              \/ i \in DOMAIN results /\ results'[i] = results[i]
  <2>1. CASE picked \in Tried
    <3>1. results' = Consider(r)  BY <2>1, EnterConsiders
    <3>2. r \in Answers /\ results \in Seq(Answers) /\ Len(results) <= ask.limit
      BY <1>1, <2>1, TriedAre DEF Found
    <3> HIDE DEF r
    <3>3. /\ Consider(r) \in Seq(Answers) /\ Len(Consider(r)) <= ask.limit
          /\ \E w \in Nat :
              \A i \in DOMAIN Consider(r) :
                 \/ i = w /\ Consider(r)[i] = r
                 \/ i \in DOMAIN results /\ Consider(r)[i] = results[i]
      BY <1>4, <3>2, ConsiderKeeps
    <3>4. QED  BY <2>1, <3>1, <3>3
  <2>2. CASE picked \notin Tried
    <3>1. results' = results  BY <2>2, EnterConsiders
    <3>2. \A i \in DOMAIN results' : i \in DOMAIN results /\ results'[i] = results[i]
      BY <3>1
    <3>3. 0 \in Nat  OBVIOUS
    <3>4. QED  BY <1>1, <3>1, <3>2, <3>3 DEF Found
  <2>3. QED  BY <2>1, <2>2
<1>6. PICK w \in Nat :
        \A i \in DOMAIN results' :
           \/ i = w /\ picked \in Tried /\ results'[i] = r
           \/ i \in DOMAIN results /\ results'[i] = results[i]
  BY <1>5
<1>7. ASSUME picked \in Tried, NEW i \in DOMAIN results
      PROVE  Multiset(results[i].ids) # Multiset(r.ids)
  <2>1. PICK R \in Tried : Gone(R) /\ results[i] = Answer(R, items)
    BY <1>1 DEF Found
  <2>2. R # picked  BY <2>1 DEF Gone, Enter
  <2>3. Multiset(IdsOf(R)) # Multiset(IdsOf(picked))
    <3>1. R \subseteq Places /\ Canonical(R) /\ picked \subseteq Places /\ Canonical(picked)
      BY <1>1, <1>7, TriedAre
    <3>2. QED  BY <1>1, <2>2, <3>1, CanonicalDiffer
  <2>4. results[i].ids = IdsOf(R) /\ r.ids = IdsOf(picked)
    BY <1>1, <1>7, <2>1, TriedAre
  <2>5. QED  BY <2>3, <2>4
<1>8. ASSUME NEW i \in DOMAIN results'
      PROVE  \E R \in Tried : Gone(R)' /\ results'[i] = Answer(R, items)
  <2>1. CASE i = w /\ picked \in Tried /\ results'[i] = r
    <3>1. PICK R \in Tried : R = picked  BY <2>1
    <3>2. Gone(R)'  BY <3>1, EnterGoesOn
    <3>3. QED  BY <2>1, <3>1, <3>2
  <2>2. CASE i \in DOMAIN results /\ results'[i] = results[i]
    <3>1. PICK R \in Tried : Gone(R) /\ results[i] = Answer(R, items)
      BY <1>1, <2>2 DEF Found
    <3>2. QED  BY <1>3, <2>2, <3>1
  <2>3. QED  BY <1>6, <2>1, <2>2
<1>9. ASSUME NEW i \in DOMAIN results', NEW j \in DOMAIN results', i # j
      PROVE  Multiset(results'[i].ids) # Multiset(results'[j].ids)
  <2> HIDE DEF r
  <2>1. CASE i = w /\ picked \in Tried /\ results'[i] = r
    <3>1. j \in DOMAIN results /\ results'[j] = results[j]  BY <1>6, <1>9, <2>1
    <3>2. QED  BY <1>7, <2>1, <3>1
  <2>2. CASE j = w /\ picked \in Tried /\ results'[j] = r
    <3>1. i \in DOMAIN results /\ results'[i] = results[i]  BY <1>6, <1>9, <2>2
    <3>2. QED  BY <1>7, <2>2, <3>1
  <2>3. CASE /\ i \in DOMAIN results /\ results'[i] = results[i]
             /\ j \in DOMAIN results /\ results'[j] = results[j]
    BY <1>1, <1>9, <2>3 DEF Found
  <2>4. QED  BY <1>6, <2>1, <2>2, <2>3
<1>10. QED
  <2>1. (\A i \in DOMAIN results : \E R \in Tried : Gone(R) /\ results[i] = Answer(R, items))'
    BY <1>2, <1>8
  <2>2. (\A i, j \in DOMAIN results : i # j => Multiset(results[i].ids) # Multiset(results[j].ids))'
    BY <1>2, <1>9
  <2>3. QED  BY <1>2, <1>5, <2>1, <2>2 DEF Found

(* Sorting changes the places of the answers only.                           *)
LEMMA FinishSorts ==
  ASSUME MatchIInv, Finish
  PROVE  /\ results' \in Seq(Answers) /\ Len(results') = Len(results)
         /\ \E place \in [DOMAIN results -> DOMAIN results] :
              /\ \A n \in DOMAIN results : results'[n] = results[place[n]]
              /\ \A m, n \in DOMAIN results : m # n => place[m] # place[n]
              /\ \A i \in DOMAIN results : \E n \in DOMAIN results : place[n] = i
         /\ \A m, n \in DOMAIN results : m < n => ~Better(results'[n], results'[m])
         /\ DOMAIN results' = DOMAIN results
<1>1. results' = Sorted(results)
  BY DEF Finish
<1>2. results \in Seq(Answers) /\ \A x \in Answers : Comparable(x)
  BY TriedAre DEF MatchIInv, Found
<1>3. /\ Sorted(results) \in Seq(Answers) /\ Len(Sorted(results)) = Len(results)
      /\ \E place \in [DOMAIN results -> DOMAIN results] :
           /\ \A n \in DOMAIN results : Sorted(results)[n] = results[place[n]]
           /\ \A m, n \in DOMAIN results : m # n => place[m] # place[n]
           /\ \A i \in DOMAIN results : \E n \in DOMAIN results : place[n] = i
      /\ \A m, n \in DOMAIN results : m < n => ~Better(Sorted(results)[n], Sorted(results)[m])
  BY <1>2, SortedIs
<1>4. DOMAIN Sorted(results) = DOMAIN results
  BY <1>2, <1>3
<1>5. QED  BY <1>1, <1>3, <1>4

(* Every answer stays one of a combination gone through, apart from the others.*)
LEMMA FoundKept ==
  ASSUME MatchIInv,
         Enter \/ OutOfNodes \/ Cancel \/ Pick \/ Skip \/ Return \/ Finish \/ UNCHANGED matchVars
  PROVE  Found'
<1>1. Found /\ ask.limit \in Nat
  BY TriedAre DEF MatchIInv
<1>2. /\ Tried' = Tried /\ Answers' = Answers /\ ask' = ask
      /\ \A R : Answer(R, items)' = Answer(R, items)
      /\ \A S : Multiset(S)' = Multiset(S)
  BY StepsOfAPass, SamePassSameWork DEF SamePass
<1>3. \A R \in Tried : Gone(R) => Gone(R)'
  BY GoneStays
<1>4. CASE Enter
  BY <1>4, FoundByCall
<1>5. CASE results' = results
  <2>1. (\A i \in DOMAIN results : \E R \in Tried : Gone(R) /\ results[i] = Answer(R, items))'
    BY <1>1, <1>2, <1>3, <1>5 DEF Found
  <2>2. (\A i, j \in DOMAIN results : i # j => Multiset(results[i].ids) # Multiset(results[j].ids))'
    BY <1>1, <1>2, <1>5 DEF Found
  <2>3. QED  BY <1>1, <1>2, <1>5, <2>1, <2>2 DEF Found
<1>6. CASE Finish
  <2>1. PICK place \in [DOMAIN results -> DOMAIN results] :
          /\ \A n \in DOMAIN results : results'[n] = results[place[n]]
          /\ \A m, n \in DOMAIN results : m # n => place[m] # place[n]
    BY <1>6, FinishSorts
  <2>2. results' \in Seq(Answers) /\ Len(results') = Len(results) /\ DOMAIN results' = DOMAIN results
    BY <1>6, FinishSorts
  <2>3. ASSUME NEW n \in DOMAIN results
        PROVE  \E R \in Tried : Gone(R)' /\ results'[n] = Answer(R, items)
    <3>1. PICK R \in Tried : Gone(R) /\ results[place[n]] = Answer(R, items)
      BY <1>1, <2>1 DEF Found
    <3>2. QED  BY <1>3, <2>1, <3>1
  <2>4. ASSUME NEW m \in DOMAIN results, NEW n \in DOMAIN results, m # n
        PROVE  Multiset(results'[m].ids) # Multiset(results'[n].ids)
    BY <1>1, <2>1, <2>4 DEF Found
  <2>5. (\A i \in DOMAIN results : \E R \in Tried : Gone(R) /\ results[i] = Answer(R, items))'
    BY <1>2, <2>2, <2>3
  <2>6. (\A i, j \in DOMAIN results : i # j => Multiset(results[i].ids) # Multiset(results[j].ids))'
    BY <1>2, <2>2, <2>4
  <2>7. QED  BY <1>1, <1>2, <2>2, <2>5, <2>6 DEF Found
<1>7. QED  BY <1>4, <1>5, <1>6, ResultsStay

(* What was gone through, before or just now, is kept if it deserves it.     *)
LEMMA AnswersKept ==
  ASSUME MatchIInv,
         Enter \/ OutOfNodes \/ Cancel \/ Pick \/ Skip \/ Return \/ Finish \/ UNCHANGED matchVars,
         at' # "cancelled", budget' > 0, NEW R \in Tried, Gone(R)'
  PROVE  Keeps(results', Answer(R, items))
<1>1. /\ results \in Seq(Answers) /\ Len(results) <= ask.limit
      /\ ask.limit \in Nat \ {0} /\ \A x \in Answers : Comparable(x)
      /\ \A S \in Tried : Answer(S, items) \in Answers
      /\ budget \in Nat
  BY TriedAre DEF MatchIInv, Found, InPlace
<1>2. /\ Tried' = Tried /\ ask' = ask
      /\ \A S : Answer(S, items)' = Answer(S, items)
  BY StepsOfAPass, SamePassSameWork DEF SamePass
<1>3. at # "cancelled" /\ budget > 0
  <2>1. at' = at \/ at # "cancelled"
    BY DEF Enter, OutOfNodes, Cancel, Pick, Skip, Return, Finish, matchVars
  <2>2. budget > 0
    <3>1. budget' = budget \/ budget > 0
      BY DEF Enter, OutOfNodes, Cancel, Pick, Skip, Return, Finish, matchVars
    <3>2. QED  BY <3>1
  <2>3. QED  BY <2>1, <2>2
<1>4. CASE ~Gone(R)
  <2>1. Enter /\ R = picked
    BY <1>4, GoneByCallsOnly
  <2>2. results' = Consider(Answer(picked, items))
    BY <2>1, EnterConsiders
  <2> DEFINE r == Answer(picked, items)
  <2>3. r \in Answers  BY <1>1, <2>1
  <2> HIDE DEF r
  <2>4. Keeps(Consider(r), r)
    BY <1>1, <2>3, ConsiderKeeps
  <2>5. QED  BY <2>1, <2>2, <2>4 DEF r
<1>5. CASE Gone(R)
  <2> DEFINE x == Answer(R, items)
  <2>1. Keeps(results, x) /\ x \in Answers
    BY <1>1, <1>3, <1>5 DEF MatchIInv, Complete
  <2> HIDE DEF x
  <2>2. CASE results' = results
    BY <2>1, <2>2 DEF x
  <2>3. CASE Enter
    <3> DEFINE r == Answer(picked, items)
    <3>1. CASE picked \in Tried
      <4>1. results' = Consider(r) /\ r \in Answers
        BY <1>1, <2>3, <3>1, EnterConsiders
      <4> HIDE DEF r
      <4>2. Keeps(Consider(r), x)
        BY <1>1, <2>1, <4>1, ConsiderKeeps
      <4>3. QED  BY <4>1, <4>2 DEF x
    <3>2. CASE picked \notin Tried
      <4>1. results' = results  BY <2>3, <3>2, EnterConsiders
      <4>2. QED  BY <2>1, <4>1 DEF x
    <3>3. QED  BY <3>1, <3>2
  <2>4. CASE Finish
    <3>1. PICK place \in [DOMAIN results -> DOMAIN results] :
            /\ \A n \in DOMAIN results : results'[n] = results[place[n]]
            /\ \A i \in DOMAIN results : \E n \in DOMAIN results : place[n] = i
      BY <2>4, FinishSorts
    <3>2. Len(results') = Len(results) /\ DOMAIN results' = DOMAIN results
      BY <2>4, FinishSorts
    <3>3. CASE \E i \in DOMAIN results : results[i] = x
      <4>1. PICK n \in DOMAIN results : results'[n] = x  BY <3>1, <3>3
      <4>2. QED  BY <3>2, <4>1 DEF Keeps, x
    <3>4. CASE Len(results) = ask.limit /\ \A i \in DOMAIN results : ~Better(x, results[i])
      <4>1. \A n \in DOMAIN results' : ~Better(x, results'[n])
        BY <3>1, <3>2, <3>4
      <4>2. QED  BY <3>2, <3>4, <4>1 DEF Keeps, x
    <3>5. QED  BY <2>1, <3>3, <3>4 DEF Keeps
  <2>5. QED  BY <2>2, <2>3, <2>4, ResultsStay
<1>6. QED  BY <1>4, <1>5

(* So nothing that was gone through is missed.                               *)
LEMMA CompleteKept ==
  ASSUME MatchIInv,
         Enter \/ OutOfNodes \/ Cancel \/ Pick \/ Skip \/ Return \/ Finish \/ UNCHANGED matchVars
  PROVE  Complete'
<1>1. Tried' = Tried /\ ask' = ask /\ \A S : Answer(S, items)' = Answer(S, items)
  BY StepsOfAPass, SamePassSameWork DEF SamePass
<1>2. at' # "cancelled" /\ budget' > 0 =>
        \A S \in Tried : Gone(S)' => Keeps(results', Answer(S, items))
  BY AnswersKept
<1>3. QED
  BY <1>1, <1>2 DEF Complete, Keeps

----------------------------------------------------------------------------
(* The theorems about matching.                                              *)

(* Only the sorting ends a search, and it ends it in order.                  *)
LEMMA EndedKept ==
  ASSUME MatchIInv,
         Enter \/ OutOfNodes \/ Cancel \/ Pick \/ Skip \/ Return \/ Finish \/ UNCHANGED matchVars
  PROVE  Ended'
<1>1. CASE Finish
  <2>1. /\ ~FoundNothing /\ timePruned' = timePruned /\ budget' = budget
    BY <1>1 DEF Finish
  <2>2. results \in Seq(Answers)
    BY DEF MatchIInv, Found
  <2>3. /\ results' \in Seq(Answers) /\ Len(results') = Len(results) /\ DOMAIN results' = DOMAIN results
        /\ \A m, n \in DOMAIN results : m < n => ~Better(results'[n], results'[m])
    BY <1>1, FinishSorts
  <2>4. results' = <<>> => results = <<>>
    BY <2>2, <2>3
  <2>5. ~FoundNothing'
    BY <2>1, <2>4 DEF FoundNothing
  <2>6. (\A i, j \in DOMAIN results : i < j => ~Better(results[j], results[i]))'
    BY <2>3 DEF Better, Score, Count
  <2>7. QED  BY <2>5, <2>6 DEF Ended
<1>2. CASE UNCHANGED matchVars
  BY <1>2 DEF MatchIInv, Ended, FoundNothing, Better, Score, Count, matchVars
<1>3. CASE Enter \/ OutOfNodes \/ Cancel \/ Pick \/ Skip \/ Return
  <2>1. at' # "done"
    BY <1>3 DEF Enter, OutOfNodes, Cancel, Pick, Skip, Return, Leave
  <2>2. QED  BY <2>1 DEF Ended
<1>4. QED  BY <1>1, <1>2, <1>3

(* Every step keeps all of this.                                             *)
LEMMA MatchIInvKept ==
  ASSUME MatchIInv, [MatchNext]_matchVars
  PROVE  MatchIInv'
<1>1. CASE SecondPass
  BY <1>1, SecondPassStarts
<1>2. CASE Enter \/ OutOfNodes \/ Cancel \/ Pick \/ Skip \/ Return \/ Finish \/ UNCHANGED matchVars
  <2>1. InLists'
    BY <1>2, StepsOfAPass, SameListsKept DEF MatchIInv
  <2>2. InPlace' /\ Found' /\ Complete' /\ Ended'
    BY <1>2, InPlaceKept, FoundKept, CompleteKept, EndedKept
  <2>3. QED  BY <2>1, <2>2 DEF MatchIInv
<1>3. QED  BY <1>1, <1>2 DEF MatchNext

(* Among the candidates as among the items, what was found is right.         *)
LEMMA FoundAreRight == MatchIInv => AnswersAreRight
<1> SUFFICES ASSUME MatchIInv  PROVE AnswersAreRight
  OBVIOUS
<1>1. InLists /\ Asked /\ Listed /\ Drawn(items) /\ Found
  BY DEF MatchIInv, InLists
<1>2. ASSUME NEW i \in DOMAIN results
      PROVE  /\ results[i].ids \in Combinations(candidates)
             /\ results[i] = Answer(results[i].ids, candidates)
  <2>1. PICK R \in Tried : results[i] = Answer(R, items)
    BY <1>1 DEF Found
  <2>2. R \in Combinations(items) /\ R \subseteq Places
    BY <1>1, TriedAre
  <2>3. /\ IdsOf(R) \subseteq DOMAIN candidates
        /\ Cardinality(IdsOf(R)) = Cardinality(R)
        /\ SumOf(IdsOf(R), candidates) = SumOf(R, items)
        /\ Answer(R, items).ids = IdsOf(R)
        /\ Answer(IdsOf(R), candidates) = Answer(R, items)
    BY <1>1, <2>2, AnswerOfItems
  <2>4. IdsOf(R) \in Combinations(candidates)
    BY <2>2, <2>3 DEF Combinations
  <2>5. QED  BY <2>1, <2>3, <2>4
<1>3. QED
  BY <1>1, <1>2 DEF Found, AnswersAreRight

(* At the end, each combination has its canonical one among those tried, and *)
(* that one was gone through.                                                *)
LEMMA AllAreKept ==
  ASSUME MatchIInv, at = "done", budget > 0, NEW S \in Combinations(items)
  PROVE  \E R \in Tried : /\ Multiset(IdsOf(R)) = Multiset(IdsOf(S))
                          /\ ~Better(Answer(S, items), Answer(R, items))
                          /\ Keeps(results, Answer(R, items))
<1>1. InLists /\ Asked /\ Listed /\ Drawn(items) /\ Complete
  BY DEF MatchIInv, InLists
<1>2. PICK R \in Combinations(items) :
        /\ Canonical(R)
        /\ Multiset(IdsOf(R)) = Multiset(IdsOf(S))
        /\ ~Better(Answer(S, items), Answer(R, items))
  BY <1>1, ACanonicalOne
<1>3. R \in Tried
  BY <1>2 DEF Tried
<1>4. Gone(R)
  BY DEF Gone
<1>5. QED
  BY <1>1, <1>2, <1>3, <1>4 DEF Complete

(* When all has been gone through, what was kept is the best there is.       *)
LEMMA EndsWithTheBest == MatchIInv => NothingBetterIsMissed
<1> SUFFICES ASSUME MatchIInv, at = "done", budget > 0
             PROVE  /\ \A S \in Combinations(items) :
                         LET r == Answer(S, items)
                         IN \/ \E i \in DOMAIN results :
                                  Multiset(results[i].ids) = Multiset(r.ids) /\ ~Better(r, results[i])
                            \/ Len(results) = ask.limit /\ \A i \in DOMAIN results : ~Better(r, results[i])
                    /\ results = <<>> => Combinations(candidates) = {}
                    /\ \A i, j \in DOMAIN results : i < j => ~Better(results[j], results[i])
  BY DEF NothingBetterIsMissed
<1>1. /\ InLists /\ Asked /\ Listed /\ Drawn(items) /\ Ended
      /\ results \in Seq(Answers) /\ ask.limit \in Nat \ {0}
      /\ \A x \in Answers : Comparable(x)
  BY TriedAre DEF MatchIInv, InLists, Found
<1>2. ASSUME NEW S \in Combinations(items)
      PROVE  LET r == Answer(S, items)
             IN \/ \E i \in DOMAIN results :
                      Multiset(results[i].ids) = Multiset(r.ids) /\ ~Better(r, results[i])
                \/ Len(results) = ask.limit /\ \A i \in DOMAIN results : ~Better(r, results[i])
  <2> DEFINE r == Answer(S, items)
  <2>1. PICK R \in Tried : /\ Multiset(IdsOf(R)) = Multiset(IdsOf(S))
                           /\ ~Better(r, Answer(R, items))
                           /\ Keeps(results, Answer(R, items))
    BY AllAreKept
  <2> DEFINE x == Answer(R, items)
  <2>2. r \in Answers /\ x \in Answers /\ x.ids = IdsOf(R) /\ r.ids = IdsOf(S)
    BY <1>1, TriedAre DEF Answers, Answer, IdsOf
  <2>3. Comparable(r) /\ Comparable(x) /\ \A i \in DOMAIN results : Comparable(results[i])
    BY <1>1, <2>2
  <2>4. Multiset(x.ids) = Multiset(r.ids) /\ ~Better(r, x) /\ Keeps(results, x)
    BY <2>1, <2>2
  <2> HIDE DEF r, x
  <2>5. CASE \E i \in DOMAIN results : results[i] = x
    BY <2>4, <2>5 DEF r
  <2>6. CASE Len(results) = ask.limit /\ \A i \in DOMAIN results : ~Better(x, results[i])
    <3>1. \A i \in DOMAIN results : ~Better(r, results[i])
      BY <2>3, <2>4, <2>6, BetterHasLevels
    <3>2. QED  BY <2>6, <3>1 DEF r
  <2>7. QED  BY <2>4, <2>5, <2>6 DEF Keeps
<1>3. ASSUME results = <<>>
      PROVE  Combinations(candidates) = {}
  <2>1. items = candidates
    BY <1>1, <1>3 DEF Ended, FoundNothing, InLists
  <2>2. ASSUME NEW S \in Combinations(items)  PROVE FALSE
    <3>1. PICK R \in Tried : Keeps(results, Answer(R, items))  BY AllAreKept
    <3>2. Len(results) = 0 /\ DOMAIN results = {}  BY <1>3
    <3>3. QED  BY <1>1, <3>1, <3>2 DEF Keeps
  <2>3. QED  BY <2>1, <2>2
<1>4. QED  BY <1>1, <1>2, <1>3 DEF Ended

(* The search keeps its place, its answers and what it has gone through.     *)
LEMMA SearchInOrder == Match => []MatchIInv
<1>1. MatchInit => MatchIInv
  BY MatchInitHolds
<1>2. MatchIInv /\ [MatchNext]_matchVars => MatchIInv'
  BY MatchIInvKept
<1>3. QED  BY <1>1, <1>2, PTL DEF Match

(* However the search is cut short, its answers are combinations of allowed  *)
(* size within the tolerance, described as they are, no more than were asked *)
(* for and no two of the same amounts (dfs, consider and the sorting).       *)
THEOREM AnswersAreAlwaysRight == Match => []AnswersAreRight
BY SearchInOrder, FoundAreRight, PTL

(* A search that was neither cut short nor cancelled has missed nothing: what*)
(* it passes over, as too much, too little, or seen already, is no better than*)
(* an answer it has, and an empty list means that there is none.             *)
THEOREM NothingBetterIsEverMissed == Match => []NothingBetterIsMissed
BY SearchInOrder, EndsWithTheBest, PTL

----------------------------------------------------------------------------
(* The invariant of the books.                                               *)

\* A user who is gone has left nothing.
Owned ==
  ~owner => /\ open = {} /\ closed = {}
            /\ txn = <<>> /\ doc = <<>>
            /\ claim = [k \in Key |-> NoRequest]
\* Every balance is what its rows add up to, and every row is on an open account.
Balanced == \A a \in Account : balance[a] = SumOn(a, Rows)
OnOpen == \A i \in Rows : txn[i].on \in open
\* A prepared creation has an account that its request allows.
Resolved ==
  \A c \in Call :
    call[c].at = "ready" => call[c].req.account \in {call[c].account, Type(call[c].account)}
\* While the user is there, an answer is what its key stands for.
Answered ==
  owner => \A c \in Call :
    call[c].at = "answered" /\ call[c].key # NoKey
    => claim[call[c].key] = call[c].req /\ RowsOf(call[c].key) = {call[c].txn}
\* A personal expense is pending or paid back.
Awaited ==
  \A i \in Rows : Expense(i) /\ txn[i].on \in Personal => txn[i].reimb # "none"
\* A document that was uploaded was reported, and so was the row of every
\* toggle that found it fit to be paid back or settled.
Reported == \A i \in Rows : txn[i].uploaded => txn[i].reported
Toggling ==
  \A c \in Call : call[c].at = "toggle" =>
    /\ owner => call[c].row \in Rows
    /\ /\ call[c].row \in Rows
       /\ \/ call[c].mark = "reimb" /\ call[c].saw = "pending"
          \/ call[c].mark = "settled" /\ ~call[c].saw
       => txn[call[c].row].reported

Keyed == Resolved /\ OneBookingPerKey /\ Answered
Flow == Awaited /\ Reported /\ Toggling /\ FlowIsOrdered

IInv ==
  /\ TypeOK /\ Owned /\ Balanced /\ OnOpen
  /\ Keyed /\ ReimbursementsStayWhole /\ Flow

USE PersonalAreAccounts, RequestsName, NoKeyIsNoKey, BoundsAreNat

(* A request is not the absence of one, and a new row is a row.              *)
LEMMA RequestIsSome == NoRequest \notin Request
  BY DEF NoRequest

LEMMA RowType ==
  ASSUME NEW a \in Account, NEW e \in Int, NEW k \in Key \cup {NoKey},
         NEW m \in {"none", "pending", "reimbursed"}
  PROVE  Row(a, e, k, m) \in TxnRow
  BY DEF Row, TxnRow

LEMMA RowIs ==
  ASSUME NEW a, NEW e, NEW k, NEW m
  PROVE  /\ Row(a, e, k, m).on = a /\ Row(a, e, k, m).effect = e
         /\ Row(a, e, k, m).key = k /\ Row(a, e, k, m).reimb = m
         /\ Row(a, e, k, m).doc = 0
         /\ ~Row(a, e, k, m).uploaded /\ ~Row(a, e, k, m).reported /\ ~Row(a, e, k, m).settled
  BY DEF Row

(* A toggle changes its mark and nothing of what was booked; a report stays. *)
LEMMA FlipType ==
  ASSUME NEW w \in TxnRow, NEW mark \in {"reimb", "uploaded", "settled"}
  PROVE  /\ Flipped(w, mark) \in TxnRow
         /\ Flipped(w, mark).on = w.on /\ Flipped(w, mark).effect = w.effect
         /\ Flipped(w, mark).key = w.key /\ Flipped(w, mark).doc = w.doc
         /\ w.reported => Flipped(w, mark).reported
         /\ (w.uploaded => w.reported) =>
              (Flipped(w, mark).uploaded => Flipped(w, mark).reported)
         /\ mark # "reimb" => Flipped(w, mark).reimb = w.reimb
         /\ mark = "reimb" =>
              Flipped(w, mark).reimb = IF w.reimb = "pending" THEN "reimbursed" ELSE "pending"
         /\ mark # "settled" => Flipped(w, mark).settled = w.settled
         /\ mark = "settled" => Flipped(w, mark).settled = ~w.settled
<1>1. CASE mark = "reimb"
  BY <1>1 DEF Flipped, TxnRow
<1>2. CASE mark = "uploaded"
  BY <1>2 DEF Flipped, FlipUploaded, TxnRow
<1>3. CASE mark = "settled"
  BY <1>3 DEF Flipped, TxnRow
<1>4. QED  BY <1>1, <1>2, <1>3

(* What the type invariant says of the rows.                                 *)
LEMMA RowsAre ==
  ASSUME TypeOK
  PROVE  /\ Len(txn) \in Nat /\ Rows = 1 .. Len(txn) /\ Rows \subseteq 1 .. MaxTxn
         /\ IsFiniteSet(Rows)
         /\ \A i \in Rows : txn[i] \in TxnRow
<1>1. txn \in Seq(TxnRow) /\ Len(txn) <= MaxTxn
  BY DEF TypeOK
<1>2. Len(txn) \in Nat /\ txn \in [1 .. Len(txn) -> TxnRow] /\ Rows = 1 .. Len(txn)
  BY <1>1, LenProperties DEF Rows
<1>3. IsFiniteSet(1 .. Len(txn))
  BY <1>2, FS_Interval
<1>4. QED  BY <1>1, <1>2, <1>3

(* What a call knows at each point of its work.                              *)
LEMMA CallsAre ==
  ASSUME TypeOK, NEW c \in Call
  PROVE  /\ call[c].at \in {"idle", "asked", "ready", "answered", "toggle"}
         /\ call[c].at \in {"asked", "ready", "answered"} =>
              call[c].key \in Key \cup {NoKey} /\ call[c].req \in Request
         /\ call[c].at = "ready" => call[c].account \in Account
         /\ call[c].at = "answered" => call[c].txn \in Nat \ {0}
         /\ call[c].at = "toggle" =>
              /\ call[c].row \in Nat \ {0}
              /\ call[c].mark \in {"reimb", "uploaded", "settled"}
              /\ call[c].mark = "reimb" => call[c].saw \in {"pending", "reimbursed"}
              /\ call[c].mark # "reimb" => call[c].saw \in BOOLEAN
<1>1. call[c] \in CallStates
  BY DEF TypeOK
<1>2. QED  BY <1>1 DEF CallStates

(* A call that goes on leaves the others where they are.                     *)
LEMMA BecomeOnly ==
  ASSUME TypeOK, NEW c \in Call, NEW s, Become(c, s)
  PROVE  /\ call'[c] = s
         /\ \A d \in Call : d # c => call'[d] = call[d]
         /\ s \in CallStates => call' \in [Call -> CallStates]
  BY DEF Become, TypeOK

(* A creation adds a row after the others.                                   *)
LEMMA CreateAppends ==
  ASSUME TypeOK, NEW c \in Call, Create(c)
  PROVE  /\ call[c].account \in Account /\ call[c].req \in Request
         /\ call[c].key \in Key \cup {NoKey}
         /\ txn' \in Seq(TxnRow) /\ Len(txn') <= MaxTxn
         /\ Len(txn') = Len(txn) + 1 /\ Len(txn) \in Nat
         /\ Rows' = Rows \cup {Len(txn')} /\ Len(txn') \notin Rows
         /\ \A i \in Rows : txn'[i] = txn[i]
         /\ txn'[Len(txn')] =
              Row(call[c].account, call[c].req.effect, call[c].key,
                  InitialReimb(call[c].account, call[c].req.effect))
<1> DEFINE w == Row(call[c].account, call[c].req.effect, call[c].key,
                    InitialReimb(call[c].account, call[c].req.effect))
<1>1. /\ call[c].account \in Account /\ call[c].req \in Request
      /\ call[c].key \in Key \cup {NoKey}
  BY CallsAre DEF Create
<1>2. w \in TxnRow
  <2>1. call[c].req.effect \in Int  BY <1>1
  <2>2. InitialReimb(call[c].account, call[c].req.effect) \in {"none", "pending", "reimbursed"}
    BY DEF InitialReimb
  <2>3. QED  BY <1>1, <2>1, <2>2, RowType
<1>3. txn' = Append(txn, w) /\ Len(txn) < MaxTxn
  BY DEF Create
<1>4. txn \in Seq(TxnRow)
  BY DEF TypeOK
<1> HIDE DEF w
<1>5. /\ txn' \in Seq(TxnRow) /\ Len(txn') = Len(txn) + 1
      /\ \A i \in 1 .. Len(txn) : txn'[i] = txn[i]
      /\ txn'[Len(txn) + 1] = w
  BY <1>2, <1>3, <1>4, AppendProperties
<1>6. Len(txn) \in Nat /\ Rows = 1 .. Len(txn)
  BY RowsAre
<1>7. Rows' = 1 .. Len(txn')
  BY <1>5, LenProperties DEF Rows
<1>8. QED
  BY <1>1, <1>3, <1>5, <1>6, <1>7 DEF w

\* Rows may change, but nothing of what was booked does.
SameBookings ==
  /\ Rows' = Rows
  /\ \A i \in Rows : /\ txn'[i].on = txn[i].on
                     /\ txn'[i].effect = txn[i].effect
                     /\ txn'[i].key = txn[i].key

(* A toggle changes one row, and that in its mark.                           *)
LEMMA ToggleFlips ==
  ASSUME TypeOK, NEW c \in Call, FinishToggle(c)
  PROVE  /\ call[c].row \in Rows /\ call[c].mark \in {"reimb", "uploaded", "settled"}
         /\ txn' \in Seq(TxnRow) /\ Len(txn') = Len(txn)
         /\ SameBookings
         /\ \A i \in Rows : /\ txn'[i].doc = txn[i].doc
                            /\ txn[i].reported => txn'[i].reported
                            /\ i # call[c].row => txn'[i] = txn[i]
         /\ txn'[call[c].row] = Flipped(txn[call[c].row], call[c].mark)
<1> DEFINE r == call[c].row
           w == Flipped(txn[r], call[c].mark)
<1>1. r \in Rows /\ txn' = [txn EXCEPT ![r] = w] /\ call[c].mark \in {"reimb", "uploaded", "settled"}
  BY CallsAre DEF FinishToggle
<1>2. txn[r] \in TxnRow /\ r \in 1 .. Len(txn) /\ Rows = 1 .. Len(txn)
  BY <1>1, RowsAre
<1>3. w \in TxnRow /\ w.on = txn[r].on /\ w.effect = txn[r].effect
      /\ w.key = txn[r].key /\ w.doc = txn[r].doc /\ (txn[r].reported => w.reported)
  BY <1>1, <1>2, FlipType
<1>4. txn \in Seq(TxnRow)
  BY DEF TypeOK
<1> HIDE DEF w
<1>5. /\ txn' \in Seq(TxnRow) /\ Len(txn') = Len(txn)
      /\ \A i \in 1 .. Len(txn) : txn'[i] = IF i = r THEN w ELSE txn[i]
  BY <1>1, <1>2, <1>3, <1>4, ExceptSeq
<1>6. Rows' = Rows
  BY <1>2, <1>5, LenProperties DEF Rows
<1>7. QED
  BY <1>1, <1>2, <1>3, <1>5, <1>6 DEF w, SameBookings

(* A reimbursement marks its rows and leaves the others.                     *)
LEMMA ReimbursementMarks ==
  ASSUME TypeOK, NEW S \in SUBSET Rows, CreateReimbursement(S)
  PROVE  /\ txn' \in Seq(TxnRow) /\ Len(txn') = Len(txn)
         /\ SameBookings
         /\ Len(doc') = Len(doc) + 1 /\ Len(doc) \in Nat
         /\ \A i \in Rows \ S : txn'[i] = txn[i]
         /\ \A i \in S : /\ txn'[i].doc = Len(doc') /\ txn'[i].reimb = "reimbursed"
                         /\ txn'[i].uploaded = txn[i].uploaded
                         /\ txn'[i].reported = txn[i].reported
                         /\ txn'[i].settled = txn[i].settled
<1> DEFINE new(i) == IF i \in S THEN [txn[i] EXCEPT !.reimb = "reimbursed", !.doc = Len(doc')]
                     ELSE txn[i]
<1>1. Len(txn) \in Nat /\ Rows = 1 .. Len(txn) /\ \A i \in Rows : txn[i] \in TxnRow
  BY RowsAre
<1>2. Len(doc') = Len(doc) + 1 /\ Len(doc) \in Nat
  <2>1. doc \in Seq([items : SUBSET (1 .. MaxTxn), total : Nat])  BY DEF TypeOK
  <2>2. doc' = Append(doc, Document(S))  BY DEF CreateReimbursement
  <2>3. QED  BY <2>1, <2>2, LenProperties
<1>3. txn' = [i \in 1 .. Len(txn) |-> new(i)]
  BY <1>1 DEF CreateReimbursement, Marked
<1>4. ASSUME NEW i \in Rows
      PROVE  /\ new(i) \in TxnRow
             /\ new(i).on = txn[i].on /\ new(i).effect = txn[i].effect /\ new(i).key = txn[i].key
             /\ i \in S => /\ new(i).doc = Len(doc') /\ new(i).reimb = "reimbursed"
                           /\ new(i).uploaded = txn[i].uploaded
                           /\ new(i).reported = txn[i].reported
                           /\ new(i).settled = txn[i].settled
             /\ i \notin S => new(i) = txn[i]
  <2>1. txn[i] \in TxnRow /\ Len(doc') \in Nat  BY <1>1, <1>2
  <2>2. QED  BY <2>1 DEF TxnRow
<1> HIDE DEF new
<1>5. txn' \in Seq(TxnRow)
  <2>1. txn' \in [1 .. Len(txn) -> TxnRow]  BY <1>1, <1>3, <1>4
  <2>2. QED  BY <1>1, <2>1, SeqDef
<1>6. DOMAIN txn' = 1 .. Len(txn) /\ \A i \in Rows : txn'[i] = new(i)
  BY <1>1, <1>3
<1>7. Rows' = Rows /\ Len(txn') = Len(txn)
  <2>1. Rows' = 1 .. Len(txn)  BY <1>6 DEF Rows
  <2>2. Len(txn') \in Nat /\ DOMAIN txn' = 1 .. Len(txn')  BY <1>5, LenProperties
  <2>3. Len(txn') = Len(txn)  BY <1>1, <1>6, <2>2
  <2>4. QED  BY <1>1, <2>1, <2>3
<1>8. QED
  BY <1>1, <1>2, <1>4, <1>5, <1>6, <1>7 DEF SameBookings

(* The deletion of a user leaves no row and no reimbursement.                *)
LEMMA DeletionClears ==
  ASSUME DeleteUser  PROVE Rows' = {} /\ DOMAIN doc' = {}
<1>1. txn' = <<>> /\ doc' = <<>>
  BY DEF DeleteUser
<1>2. QED  BY <1>1 DEF Rows

----------------------------------------------------------------------------
(* Every action keeps the variables in their types.                          *)

\* A step that moves a call and touches no book.
Thinks(c) == UNCHANGED <<owner, books>> /\ call' \in [Call -> CallStates]
                                        /\ \A d \in Call : d # c => call'[d] = call[d]

LEMMA ThinkingIsTyped ==
  ASSUME TypeOK, NEW c, Thinks(c)  PROVE TypeOK'
  BY DEF TypeOK, Thinks, books

LEMMA StartCreateThinks ==
  ASSUME TypeOK, NEW c \in Call, NEW k \in Key \cup {NoKey}, NEW r \in Request,
         StartCreate(c, k, r)
  PROVE  Thinks(c) /\ call'[c].at = "asked"
<1>1. PICK e \in IF RowsOf(k) = {} \/ k = NoKey THEN {0} ELSE RowsOf(k) :
        Become(c, [at |-> "asked", key |-> k, req |-> r, expect |-> e])
  BY DEF StartCreate
<1>2. e \in Nat
  BY <1>1, RowsAre DEF RowsOf
<1>3. [at |-> "asked", key |-> k, req |-> r, expect |-> e] \in CallStates
  BY <1>2 DEF CallStates
<1>4. UNCHANGED <<owner, books>>
  BY DEF StartCreate
<1>5. QED  BY <1>1, <1>3, <1>4, BecomeOnly DEF Thinks

LEMMA PrepareThinks ==
  ASSUME TypeOK, NEW c \in Call, Prepare(c)
  PROVE  /\ Thinks(c) /\ call'[c].at = "ready"
         /\ call'[c].req.account \in {call'[c].account, Type(call'[c].account)}
<1>1. PICK a \in Account :
        /\ Resolves(call[c].req, a)
        /\ Become(c, [at |-> "ready", key |-> call[c].key, req |-> call[c].req, account |-> a])
  BY DEF Prepare
<1>2. call[c].key \in Key \cup {NoKey} /\ call[c].req \in Request
  BY CallsAre DEF Prepare
<1>3. [at |-> "ready", key |-> call[c].key, req |-> call[c].req, account |-> a] \in CallStates
  BY <1>2 DEF CallStates
<1>4. UNCHANGED <<owner, books>>
  BY DEF Prepare
<1>5. QED  BY <1>1, <1>3, <1>4, BecomeOnly DEF Thinks, Resolves

LEMMA ReplayThinks ==
  ASSUME TypeOK, NEW c \in Call, Replay(c)
  PROVE  /\ Thinks(c) /\ call'[c].at = "answered"
         /\ call'[c].key \in Key /\ call'[c].txn \in RowsOf(call'[c].key)
         /\ claim[call'[c].key] = call'[c].req
<1>1. PICK i \in RowsOf(call[c].key) :
        Become(c, [at |-> "answered", key |-> call[c].key, req |-> call[c].req, txn |-> i])
  BY DEF Replay
<1>2. call[c].key \in Key /\ call[c].req \in Request
  BY CallsAre DEF Replay
<1>3. i \in Nat \ {0}
  BY RowsAre DEF RowsOf
<1>4. [at |-> "answered", key |-> call[c].key, req |-> call[c].req, txn |-> i] \in CallStates
  BY <1>2, <1>3 DEF CallStates
<1>5. UNCHANGED <<owner, books>> /\ claim[call[c].key] = call[c].req
  BY DEF Replay, Claimed
<1>6. QED  BY <1>1, <1>2, <1>4, <1>5, BecomeOnly DEF Thinks

LEMMA FailThinks ==
  ASSUME TypeOK, NEW c \in Call, Fail(c)
  PROVE  Thinks(c) /\ call'[c].at = "idle"
<1>1. [at |-> "idle"] \in CallStates
  BY DEF CallStates
<1>2. QED  BY <1>1, BecomeOnly DEF Fail, Thinks

LEMMA StartToggleThinks ==
  ASSUME TypeOK, Awaited, NEW c \in Call, NEW i \in Rows,
         NEW mark \in {"reimb", "uploaded", "settled"}, StartToggle(c, i, mark)
  PROVE  /\ Thinks(c) /\ call'[c].at = "toggle" /\ call'[c].row = i
         /\ call'[c].mark = mark /\ call'[c].saw = txn[i][mark]
<1>1. Become(c, [at |-> "toggle", row |-> i, mark |-> mark, saw |-> txn[i][mark]])
      /\ UNCHANGED <<owner, books>> /\ MayToggle(i, mark)
  BY DEF StartToggle
<1>2. txn[i] \in TxnRow /\ i \in Nat \ {0}
  BY RowsAre
<1>3. [at |-> "toggle", row |-> i, mark |-> mark, saw |-> txn[i][mark]] \in CallStates
  <2>1. CASE mark = "reimb"
    <3>1. txn[i].reimb \in {"pending", "reimbursed"}
      BY <1>1, <1>2, <2>1 DEF MayToggle, Awaited, TxnRow
    <3>2. QED  BY <1>2, <2>1, <3>1 DEF CallStates
  <2>2. CASE mark \in {"uploaded", "settled"}
    <3>1. txn[i][mark] \in BOOLEAN
      BY <1>2, <2>2 DEF TxnRow
    <3>2. QED  BY <1>2, <2>2, <3>1 DEF CallStates
  <2>3. QED  BY <2>1, <2>2
<1>4. QED  BY <1>1, <1>3, BecomeOnly DEF Thinks

LEMMA CreateIsTyped ==
  ASSUME TypeOK, NEW c \in Call, Create(c)  PROVE TypeOK'
<1>1. txn' \in Seq(TxnRow) /\ Len(txn') <= MaxTxn /\ Len(txn') \in Nat \ {0}
      /\ call[c].account \in Account /\ call[c].req \in Request /\ call[c].key \in Key \cup {NoKey}
  BY CreateAppends
<1>2. balance' \in [Account -> Balances]
  <2>1. Post(call[c].account, call[c].req.effect)  BY DEF Create
  <2>2. QED  BY <1>1, <2>1 DEF Post, TypeOK
<1>3. claim' \in [Key -> Request \cup {NoRequest}]
  <2>1. Claim(call[c].key, call[c].req)  BY DEF Create
  <2>2. QED  BY <1>1, <2>1 DEF Claim, TypeOK
<1>4. call' \in [Call -> CallStates]
  <2>1. [at |-> "answered", key |-> call[c].key, req |-> call[c].req, txn |-> Len(txn')] \in CallStates
    BY <1>1 DEF CallStates
  <2>2. QED  BY <2>1, BecomeOnly DEF Create
<1>5. QED  BY <1>1, <1>2, <1>3, <1>4 DEF TypeOK, Create

LEMMA ToggleIsTyped ==
  ASSUME TypeOK, NEW c \in Call, FinishToggle(c)  PROVE TypeOK'
<1>1. txn' \in Seq(TxnRow) /\ Len(txn') = Len(txn)
  BY ToggleFlips
<1>2. call' \in [Call -> CallStates]
  <2>1. [at |-> "idle"] \in CallStates  BY DEF CallStates
  <2>2. QED  BY <2>1, BecomeOnly DEF FinishToggle
<1>3. QED  BY <1>1, <1>2 DEF TypeOK, FinishToggle

LEMMA ReimbursementIsTyped ==
  ASSUME TypeOK, NEW S \in SUBSET Rows, CreateReimbursement(S)  PROVE TypeOK'
<1>1. txn' \in Seq(TxnRow) /\ Len(txn') = Len(txn)
  BY ReimbursementMarks
<1>2. SumFunctionOnSet(Spent, S) \in Nat
  <2>1. IsFiniteSet(S)
    BY RowsAre, FS_Subset
  <2>2. ASSUME NEW i \in S  PROVE Spent[i] \in Nat
    <3>1. txn[i].effect \in Int /\ txn[i].effect < 0
      BY RowsAre DEF CreateReimbursement, Expense, TxnRow
    <3>2. QED  BY <3>1 DEF Spent
  <2>3. \A x, y \in Nat : x + y \in Nat  OBVIOUS
  <2> HIDE DEF Spent
  <2>4. QED  BY <2>1, <2>2, <2>3, SumType
<1>3. doc' \in Seq([items : SUBSET (1 .. MaxTxn), total : Nat])
  <2>1. Document(S) \in [items : SUBSET (1 .. MaxTxn), total : Nat]
    BY <1>2, RowsAre DEF Document
  <2>2. doc \in Seq([items : SUBSET (1 .. MaxTxn), total : Nat])  BY DEF TypeOK
  <2>3. doc' = Append(doc, Document(S))  BY DEF CreateReimbursement
  <2>4. QED  BY <2>1, <2>2, <2>3, AppendProperties
<1>4. QED  BY <1>1, <1>3 DEF TypeOK, CreateReimbursement, NotPosted

LEMMA AccountsAreTyped ==
  ASSUME TypeOK, NEW a \in Account, OpenAccount(a) \/ CloseAccount(a)  PROVE TypeOK'
  BY DEF TypeOK, OpenAccount, CloseAccount

LEMMA DeletionIsTyped ==
  ASSUME TypeOK, Balanced, DeleteUser  PROVE TypeOK' /\ balance' = [a \in Account |-> 0]
<1>1. balance' = [a \in Account |-> 0]
  <2>1. ASSUME NEW a \in Account  PROVE balance[a] - SumOn(a, Rows) = 0
    <3>1. balance[a] = SumOn(a, Rows) /\ balance[a] \in Balances  BY DEF Balanced, TypeOK
    <3>2. QED  BY <3>1 DEF Balances
  <2>2. QED  BY <2>1 DEF DeleteUser, Unpost
<1>2. balance' \in [Account -> Balances]
  <2>1. 0 \in Balances  BY DEF Balances
  <2>2. QED  BY <1>1, <2>1
<1>3. /\ txn' \in Seq(TxnRow) /\ Len(txn') <= MaxTxn
      /\ doc' \in Seq([items : SUBSET (1 .. MaxTxn), total : Nat])
  BY EmptySeq DEF DeleteUser
<1>4. claim' \in [Key -> Request \cup {NoRequest}]
  BY DEF DeleteUser
<1>5. open' \subseteq Account /\ closed' \subseteq Account \ open' /\ owner' \in BOOLEAN
      /\ call' \in [Call -> CallStates]
  BY DEF TypeOK, DeleteUser
<1>6. TypeOK'
  BY <1>2, <1>3, <1>4, <1>5 DEF TypeOK
<1>7. QED  BY <1>1, <1>6

LEMMA TypesKept == IInv /\ [Next]_vars => TypeOK'
<1> SUFFICES ASSUME IInv, [Next]_vars  PROVE TypeOK'
  OBVIOUS
<1>1. TypeOK /\ Awaited /\ Balanced
  BY DEF IInv, Flow
<1>2. ASSUME NEW c \in Call, NEW k \in Key \cup {NoKey}, NEW r \in Request, StartCreate(c, k, r)
      PROVE  TypeOK'
  BY <1>1, <1>2, StartCreateThinks, ThinkingIsTyped
<1>3. ASSUME NEW c \in Call, Prepare(c)  PROVE TypeOK'
  BY <1>1, <1>3, PrepareThinks, ThinkingIsTyped
<1>4. ASSUME NEW c \in Call, Create(c)  PROVE TypeOK'
  BY <1>1, <1>4, CreateIsTyped
<1>5. ASSUME NEW c \in Call, Replay(c)  PROVE TypeOK'
  BY <1>1, <1>5, ReplayThinks, ThinkingIsTyped
<1>6. ASSUME NEW c \in Call, Fail(c)  PROVE TypeOK'
  BY <1>1, <1>6, FailThinks, ThinkingIsTyped
<1>7. ASSUME NEW c \in Call, NEW i \in Rows, NEW mark \in {"reimb", "uploaded", "settled"},
             StartToggle(c, i, mark)
      PROVE  TypeOK'
  BY <1>1, <1>7, StartToggleThinks, ThinkingIsTyped
<1>8. ASSUME NEW c \in Call, FinishToggle(c)  PROVE TypeOK'
  BY <1>1, <1>8, ToggleIsTyped
<1>9. ASSUME NEW S \in SUBSET Rows, CreateReimbursement(S)  PROVE TypeOK'
  BY <1>1, <1>9, ReimbursementIsTyped
<1>10. ASSUME NEW a \in Account, OpenAccount(a) \/ CloseAccount(a)  PROVE TypeOK'
  BY <1>1, <1>10, AccountsAreTyped
<1>11. CASE DeleteUser
  BY <1>1, <1>11, DeletionIsTyped
<1>12. CASE UNCHANGED vars
  BY <1>1, <1>12 DEF TypeOK, vars, books
<1>13. QED
  BY <1>2, <1>3, <1>4, <1>5, <1>6, <1>7, <1>8, <1>9, <1>10, <1>11, <1>12 DEF Next

----------------------------------------------------------------------------
(* What holds of the books.                                                  *)

Quiet == UNCHANGED <<owner, books>>

(* Every step is quiet, or one of those that write.                          *)
LEMMA StepsThatWrite ==
  ASSUME [Next]_vars
  PROVE  \/ Quiet
         \/ \E c \in Call : Create(c) \/ FinishToggle(c)
         \/ \E S \in SUBSET Rows : CreateReimbursement(S)
         \/ \E a \in Account : OpenAccount(a) \/ CloseAccount(a)
         \/ DeleteUser
<1>1. CASE UNCHANGED vars
  BY <1>1 DEF vars, Quiet
<1>2. CASE Next
  BY <1>2 DEF Next, StartCreate, Prepare, Replay, Fail, StartToggle, Quiet
<1>3. QED  BY <1>1, <1>2

(* When nothing that was booked changes, neither does any sum over it.       *)
LEMMA SameBookingsSameSums ==
  ASSUME SameBookings
  PROVE  Spent' = Spent /\ \A a, S : SumOn(a, S)' = SumOn(a, S)
<1>1. \A a : EffectOn(a)' = EffectOn(a)
  BY DEF SameBookings, EffectOn
<1>2. Spent' = Spent
  BY DEF SameBookings, Spent
<1>3. QED  BY <1>1, <1>2 DEF SumOn

(* Where the rows stay, so does what was booked.                             *)
LEMMA SameRowsSameBookings == txn' = txn => SameBookings
  BY DEF SameBookings, Rows

(* A new row adds its effect to the sum of its account, and to no other.     *)
LEMMA CreateAddsUp ==
  ASSUME TypeOK, NEW c \in Call, Create(c), NEW a \in Account
  PROVE  SumOn(a, Rows)' =
           SumOn(a, Rows) + (IF a = call[c].account THEN call[c].req.effect ELSE 0)
<1> DEFINE n == Len(txn')
           f == EffectOn(a)
           g == EffectOn(a)'
           e == IF a = call[c].account THEN call[c].req.effect ELSE 0
<1>1. /\ Rows' = Rows \cup {n} /\ n \notin Rows
      /\ \A i \in Rows : txn'[i] = txn[i]
      /\ txn'[n].on = call[c].account /\ txn'[n].effect = call[c].req.effect
  BY CreateAppends, RowIs
<1>2. IsFiniteSet(Rows) /\ \A i \in Rows : txn[i] \in TxnRow
  BY RowsAre
<1>3. IsFiniteSet(Rows')
  BY <1>1, <1>2, FS_AddElement
<1>4. \A i \in Rows : g[i] = f[i]
  BY <1>1 DEF EffectOn
<1>5. g[n] = e
  BY <1>1 DEF EffectOn
<1>6. e \in Int
  BY CreateAppends
<1>7. \A i \in Rows : f[i] \in Int
  BY <1>2 DEF EffectOn, TxnRow
<1> HIDE DEF f, g, n, e
<1>8. \A i \in Rows' : g[i] \in Int
  BY <1>1, <1>4, <1>5, <1>6, <1>7
<1>9. SumFunctionOnSet(g, Rows') = g[n] + SumFunctionOnSet(g, Rows)
  <2>1. Rows' \ {n} = Rows /\ n \in Rows'  BY <1>1
  <2>2. QED  BY <1>3, <1>8, <2>1, SumWithout
<1>10. SumFunctionOnSet(g, Rows) = SumFunctionOnSet(f, Rows)
  BY <1>2, <1>4, SumAgrees
<1>11. SumFunctionOnSet(f, Rows) \in Int
  <2>1. \A x, y \in Int : x + y \in Int  OBVIOUS
  <2>2. QED  BY <1>2, <1>7, <2>1, SumType
<1>12. SumFunctionOnSet(g, Rows') = SumFunctionOnSet(f, Rows) + e
  BY <1>5, <1>6, <1>9, <1>10, <1>11
<1>13. QED
  BY <1>12 DEF SumOn, f, g, e

(* Every balance remains what its rows add up to.                            *)
LEMMA BalancedKept == IInv /\ [Next]_vars => Balanced'
<1> SUFFICES ASSUME IInv, [Next]_vars  PROVE Balanced'
  OBVIOUS
<1>1. TypeOK /\ Balanced
  BY DEF IInv
<1>2. ASSUME SameBookings, balance' = balance  PROVE Balanced'
  BY <1>1, <1>2, SameBookingsSameSums DEF Balanced, SameBookings
<1>3. CASE Quiet
  BY <1>2, <1>3, SameRowsSameBookings DEF Quiet, books
<1>4. ASSUME NEW c \in Call, Create(c)  PROVE Balanced'
  <2>1. ASSUME NEW a \in Account  PROVE balance'[a] = SumOn(a, Rows)'
    <3>1. call[c].account \in Account /\ call[c].req.effect \in Int
      BY <1>1, <1>4, CreateAppends
    <3>2. Post(call[c].account, call[c].req.effect)  BY <1>4 DEF Create
    <3>3. balance'[a] = balance[a] + (IF a = call[c].account THEN call[c].req.effect ELSE 0)
      <4>1. balance[a] \in Int  BY <1>1 DEF TypeOK, Balances
      <4>2. QED  BY <1>1, <3>1, <3>2, <4>1 DEF Post, TypeOK
    <3>4. balance[a] = SumOn(a, Rows)  BY <1>1 DEF Balanced
    <3>5. QED  BY <1>1, <1>4, <3>3, <3>4, CreateAddsUp
  <2>2. QED  BY <2>1 DEF Balanced
<1>5. ASSUME NEW c \in Call, FinishToggle(c)  PROVE Balanced'
  BY <1>1, <1>2, <1>5, ToggleFlips DEF FinishToggle
<1>6. ASSUME NEW S \in SUBSET Rows, CreateReimbursement(S)  PROVE Balanced'
  BY <1>1, <1>2, <1>6, ReimbursementMarks DEF CreateReimbursement, NotPosted
<1>7. ASSUME NEW a \in Account, OpenAccount(a) \/ CloseAccount(a)  PROVE Balanced'
  BY <1>2, <1>7, SameRowsSameBookings DEF OpenAccount, CloseAccount
<1>8. CASE DeleteUser
  <2>1. balance' = [a \in Account |-> 0]  BY <1>1, <1>8, DeletionIsTyped
  <2>2. Rows' = {}  BY <1>8, DeletionClears
  <2>3. ASSUME NEW a \in Account  PROVE SumOn(a, Rows)' = 0
    BY <2>2, SumEmpty DEF SumOn
  <2>4. QED  BY <2>1, <2>3 DEF Balanced
<1>9. QED
  BY <1>3, <1>4, <1>5, <1>6, <1>7, <1>8, StepsThatWrite

(* No row is on an account that is not open, and nothing outlives its user.  *)
LEMMA OnOpenKept == IInv /\ [Next]_vars => OnOpen' /\ Owned'
<1> SUFFICES ASSUME IInv, [Next]_vars  PROVE OnOpen' /\ Owned'
  OBVIOUS
<1>1. TypeOK /\ OnOpen /\ Owned
  BY DEF IInv
<1>2. CASE Quiet
  BY <1>1, <1>2 DEF Quiet, books, OnOpen, Owned, Rows
<1>3. ASSUME NEW c \in Call, Create(c)  PROVE OnOpen' /\ Owned'
  <2>1. owner' /\ open' = open /\ call[c].account \in open
    BY <1>3 DEF Create, AcceptsRows
  <2>2. /\ Rows' = Rows \cup {Len(txn')} /\ \A i \in Rows : txn'[i] = txn[i]
        /\ txn'[Len(txn')].on = call[c].account
    BY <1>1, <1>3, CreateAppends, RowIs
  <2>3. QED  BY <1>1, <2>1, <2>2 DEF OnOpen, Owned
<1>4. ASSUME NEW c \in Call, FinishToggle(c)  PROVE OnOpen' /\ Owned'
  <2>1. SameBookings /\ Rows # {}  BY <1>1, <1>4, ToggleFlips
  <2>2. owner /\ owner' = owner /\ open' = open
    BY <1>1, <1>4, <2>1 DEF FinishToggle, Owned, Rows
  <2>3. QED  BY <1>1, <2>1, <2>2 DEF OnOpen, Owned, SameBookings
<1>5. ASSUME NEW S \in SUBSET Rows, CreateReimbursement(S)  PROVE OnOpen' /\ Owned'
  <2>1. SameBookings /\ Rows # {}
    BY <1>1, <1>5, ReimbursementMarks DEF CreateReimbursement
  <2>2. owner /\ owner' = owner /\ open' = open
    BY <1>1, <1>5, <2>1 DEF CreateReimbursement, Owned, Rows
  <2>3. QED  BY <1>1, <2>1, <2>2 DEF OnOpen, Owned, SameBookings
<1>6. ASSUME NEW a \in Account, OpenAccount(a)  PROVE OnOpen' /\ Owned'
  BY <1>1, <1>6 DEF OpenAccount, OnOpen, Owned, Rows
<1>7. ASSUME NEW a \in Account, CloseAccount(a)  PROVE OnOpen' /\ Owned'
  BY <1>1, <1>7 DEF CloseAccount, HasHistory, OnOpen, Owned, Rows
<1>8. CASE DeleteUser
  BY <1>8, DeletionClears DEF DeleteUser, OnOpen, Owned
<1>9. QED
  BY <1>2, <1>3, <1>4, <1>5, <1>6, <1>7, <1>8, StepsThatWrite

----------------------------------------------------------------------------
(* Keys, and the answers that were given under them.                         *)

\* The rows of a key after a step.
NewRowsOf(k) == {i \in Rows' : txn'[i].key = k}

LEMMA NewRowsAreRows ==
  /\ \A k : RowsOf(k)' = NewRowsOf(k)
  /\ SameBookings => \A k : NewRowsOf(k) = RowsOf(k)
  BY DEF RowsOf, NewRowsOf, SameBookings

(* A taken key has one row; where rows and claims stay, it keeps it.         *)
LEMMA SameBookingsSameKeys ==
  ASSUME OneBookingPerKey, SameBookings, claim' = claim  PROVE OneBookingPerKey'
<1> SUFFICES ASSUME NEW k \in Key
             PROVE  (IF claim[k] = NoRequest THEN RowsOf(k) = {}
                     ELSE \E i \in Rows : /\ RowsOf(k) = {i}
                                          /\ txn[i].effect = claim[k].effect
                                          /\ claim[k].account \in {txn[i].on, Type(txn[i].on)})'
  BY DEF OneBookingPerKey
<1>1. NewRowsOf(k) = RowsOf(k)
  BY NewRowsAreRows
<1>2. QED
  BY <1>1, NewRowsAreRows DEF OneBookingPerKey, SameBookings

LEMMA CreateTakesKey ==
  ASSUME IInv, NEW c \in Call, Create(c)
  PROVE  /\ OneBookingPerKey'
         /\ call[c].key # NoKey =>
              /\ claim[call[c].key] = NoRequest /\ claim'[call[c].key] = call[c].req
              /\ NewRowsOf(call[c].key) = {Len(txn')}
         /\ \A k \in Key : k # call[c].key => claim'[k] = claim[k] /\ NewRowsOf(k) = RowsOf(k)
<1> DEFINE n == Len(txn')
<1>1. TypeOK /\ OneBookingPerKey /\ Resolved
  BY DEF IInv, Keyed
<1>2. /\ call[c].account \in Account /\ call[c].req \in Request /\ call[c].key \in Key \cup {NoKey}
      /\ Rows' = Rows \cup {n} /\ n \notin Rows
      /\ \A i \in Rows : txn'[i] = txn[i]
      /\ txn'[n].on = call[c].account /\ txn'[n].effect = call[c].req.effect
      /\ txn'[n].key = call[c].key
  BY <1>1, CreateAppends, RowIs
<1>3. Claim(call[c].key, call[c].req) /\ call[c].at = "ready"
  BY DEF Create
<1>4. \A k \in Key : k # call[c].key => claim'[k] = claim[k]
  BY <1>1, <1>3 DEF Claim, TypeOK
<1>5. call[c].key # NoKey =>
        claim[call[c].key] = NoRequest /\ claim'[call[c].key] = call[c].req
  BY <1>1, <1>2, <1>3 DEF Claim, TypeOK
<1>6. \A k \in Key : k # call[c].key => NewRowsOf(k) = RowsOf(k)
  BY <1>2 DEF RowsOf, NewRowsOf
<1>7. call[c].key # NoKey => NewRowsOf(call[c].key) = {n}
  <2> SUFFICES ASSUME call[c].key # NoKey  PROVE NewRowsOf(call[c].key) = {n}
    OBVIOUS
  <2>1. RowsOf(call[c].key) = {}
    BY <1>1, <1>2, <1>5 DEF OneBookingPerKey
  <2>2. QED  BY <1>2, <2>1 DEF RowsOf, NewRowsOf
<1>8. ASSUME NEW k \in Key
      PROVE  (IF claim[k] = NoRequest THEN RowsOf(k) = {}
              ELSE \E i \in Rows : /\ RowsOf(k) = {i}
                                   /\ txn[i].effect = claim[k].effect
                                   /\ claim[k].account \in {txn[i].on, Type(txn[i].on)})'
  <2>1. CASE k = call[c].key
    <3>1. k # NoKey  OBVIOUS
    <3>2. claim'[k] = call[c].req /\ NewRowsOf(k) = {n}
      BY <1>5, <1>7, <2>1, <3>1
    <3>3. call[c].req.account \in {call[c].account, Type(call[c].account)}
      BY <1>1, <1>3 DEF Resolved
    <3>4. claim'[k] # NoRequest
      BY <1>2, <3>2, RequestIsSome
    <3>5. QED  BY <1>2, <3>2, <3>3, <3>4, NewRowsAreRows DEF Type
  <2>2. CASE k # call[c].key
    <3>1. claim'[k] = claim[k] /\ NewRowsOf(k) = RowsOf(k)
      BY <1>4, <1>6, <2>2
    <3>2. CASE claim[k] = NoRequest
      BY <1>1, <3>1, <3>2, NewRowsAreRows DEF OneBookingPerKey
    <3>3. CASE claim[k] # NoRequest
      <4>1. PICK i \in Rows : /\ RowsOf(k) = {i}
                              /\ txn[i].effect = claim[k].effect
                              /\ claim[k].account \in {txn[i].on, Type(txn[i].on)}
        BY <1>1, <3>3 DEF OneBookingPerKey
      <4>2. i \in Rows' /\ txn'[i] = txn[i]
        BY <1>2, <4>1
      <4>3. QED  BY <3>1, <3>3, <4>1, <4>2, NewRowsAreRows DEF Type
    <3>4. QED  BY <3>2, <3>3
  <2>3. QED  BY <2>1, <2>2
<1>9. OneBookingPerKey'
  BY <1>8 DEF OneBookingPerKey
<1>10. QED  BY <1>4, <1>5, <1>6, <1>7, <1>9

(* A key and its one row come and go together.                               *)
LEMMA KeysKept == IInv /\ [Next]_vars => OneBookingPerKey'
<1> SUFFICES ASSUME IInv, [Next]_vars  PROVE OneBookingPerKey'
  OBVIOUS
<1>1. TypeOK /\ OneBookingPerKey
  BY DEF IInv, Keyed
<1>2. CASE Quiet
  BY <1>1, <1>2, SameRowsSameBookings, SameBookingsSameKeys DEF Quiet, books
<1>3. ASSUME NEW c \in Call, Create(c)  PROVE OneBookingPerKey'
  BY <1>3, CreateTakesKey
<1>4. ASSUME NEW c \in Call, FinishToggle(c)  PROVE OneBookingPerKey'
  BY <1>1, <1>4, ToggleFlips, SameBookingsSameKeys DEF FinishToggle
<1>5. ASSUME NEW S \in SUBSET Rows, CreateReimbursement(S)  PROVE OneBookingPerKey'
  BY <1>1, <1>5, ReimbursementMarks, SameBookingsSameKeys DEF CreateReimbursement
<1>6. ASSUME NEW a \in Account, OpenAccount(a) \/ CloseAccount(a)  PROVE OneBookingPerKey'
  BY <1>1, <1>6, SameRowsSameBookings, SameBookingsSameKeys DEF OpenAccount, CloseAccount
<1>7. CASE DeleteUser
  <2>1. \A k \in Key : claim'[k] = NoRequest  BY <1>7 DEF DeleteUser
  <2>2. \A k \in Key : NewRowsOf(k) = {}  BY <1>7, DeletionClears DEF NewRowsOf
  <2>3. QED  BY <2>1, <2>2, NewRowsAreRows DEF OneBookingPerKey
<1>8. QED
  BY <1>2, <1>3, <1>4, <1>5, <1>6, <1>7, StepsThatWrite

\* What the calls know of the keys.
CallsKnow == Resolved /\ Answered

(* A step that answers nobody keeps what was answered.                       *)
LEMMA SilentStepsKeepAnswers ==
  ASSUME CallsKnow, TypeOK,
         \A d \in Call :
           \/ call'[d] = call[d]
           \/ /\ call'[d].at # "answered"
              /\ call'[d].at = "ready" =>
                   call'[d].req.account \in {call'[d].account, Type(call'[d].account)},
         owner' => owner /\ claim' = claim /\ \A k \in Key : NewRowsOf(k) = RowsOf(k)
  PROVE  CallsKnow'
<1>1. Resolved'
  BY DEF CallsKnow, Resolved, Type
<1>2. ASSUME NEW d \in Call, call'[d].at = "answered"  PROVE call'[d] = call[d]
  BY <1>2
<1>3. Answered'
  <2> SUFFICES ASSUME owner', NEW d \in Call, call'[d].at = "answered", call'[d].key # NoKey
               PROVE  claim'[call'[d].key] = call'[d].req /\ NewRowsOf(call'[d].key) = {call'[d].txn}
    BY NewRowsAreRows DEF Answered
  <2>1. call'[d] = call[d] /\ call[d].key \in Key
    BY <1>2, CallsAre
  <2>2. claim[call[d].key] = call[d].req /\ RowsOf(call[d].key) = {call[d].txn}
    BY <2>1 DEF CallsKnow, Answered
  <2>3. QED  BY <2>1, <2>2
<1>4. QED  BY <1>1, <1>3 DEF CallsKnow

(* A step that answers one call with the row of its key keeps the answers.   *)
LEMMA AnswersMayBeAdded ==
  ASSUME CallsKnow, TypeOK, NEW c \in Call, \A d \in Call : d # c => call'[d] = call[d],
         owner, owner' = owner, call'[c].at = "answered",
         call'[c].key # NoKey => /\ claim'[call'[c].key] = call'[c].req
                                 /\ NewRowsOf(call'[c].key) = {call'[c].txn},
         \A d \in Call : d # c /\ call[d].at = "answered" /\ call[d].key # NoKey =>
           /\ claim'[call[d].key] = claim[call[d].key]
           /\ NewRowsOf(call[d].key) = RowsOf(call[d].key)
  PROVE  CallsKnow'
<1>1. Resolved'
  BY DEF CallsKnow, Resolved, Type
<1>2. ASSUME NEW d \in Call, call'[d].at = "answered", call'[d].key # NoKey
      PROVE  claim'[call'[d].key] = call'[d].req /\ NewRowsOf(call'[d].key) = {call'[d].txn}
  <2>1. CASE d = c
    BY <1>2, <2>1
  <2>2. CASE d # c
    <3>1. call'[d] = call[d]  BY <2>2
    <3>2. claim[call[d].key] = call[d].req /\ RowsOf(call[d].key) = {call[d].txn}
      BY <1>2, <3>1 DEF CallsKnow, Answered
    <3>3. QED  BY <1>2, <2>2, <3>1, <3>2
  <2>3. QED  BY <2>1, <2>2
<1>3. Answered'
  BY <1>2, NewRowsAreRows DEF Answered
<1>4. QED  BY <1>1, <1>3 DEF CallsKnow

LEMMA AnswersStay == IInv /\ [Next]_vars => CallsKnow'
<1> SUFFICES ASSUME IInv, [Next]_vars  PROVE CallsKnow'
  OBVIOUS
<1>1. TypeOK /\ CallsKnow /\ Awaited /\ OneBookingPerKey /\ Owned
  BY DEF IInv, Keyed, CallsKnow, Flow
<1>2. ASSUME NEW c \in Call, Thinks(c), call'[c].at # "answered",
             call'[c].at = "ready" =>
               call'[c].req.account \in {call'[c].account, Type(call'[c].account)}
      PROVE  CallsKnow'
  <2>1. owner' = owner /\ claim' = claim /\ \A k \in Key : NewRowsOf(k) = RowsOf(k)
    BY <1>2, SameRowsSameBookings, NewRowsAreRows DEF Thinks, books
  <2>2. \A d \in Call : d # c => call'[d] = call[d]
    BY <1>2 DEF Thinks
  <2>3. QED  BY <1>1, <1>2, <2>1, <2>2, SilentStepsKeepAnswers
<1>3. ASSUME NEW c \in Call, NEW k \in Key \cup {NoKey}, NEW r \in Request, StartCreate(c, k, r)
      PROVE  CallsKnow'
  BY <1>1, <1>2, <1>3, StartCreateThinks
<1>4. ASSUME NEW c \in Call, Prepare(c)  PROVE CallsKnow'
  BY <1>1, <1>2, <1>4, PrepareThinks
<1>5. ASSUME NEW c \in Call, Create(c)  PROVE CallsKnow'
  <2>1. owner /\ owner' = owner
    BY <1>5 DEF Create, AcceptsRows
  <2>2. Become(c, [at |-> "answered", key |-> call[c].key, req |-> call[c].req, txn |-> Len(txn')])
    BY <1>5 DEF Create
  <2>3. /\ call'[c].at = "answered" /\ call'[c].key = call[c].key
        /\ call'[c].req = call[c].req /\ call'[c].txn = Len(txn')
        /\ \A d \in Call : d # c => call'[d] = call[d]
    BY <1>1, <2>2, BecomeOnly
  <2>4. call[c].key \in Key \cup {NoKey}
    BY <1>1, <1>5, CreateAppends
  <2>5. /\ call[c].key # NoKey =>
             /\ claim[call[c].key] = NoRequest /\ claim'[call[c].key] = call[c].req
             /\ NewRowsOf(call[c].key) = {Len(txn')}
        /\ \A k \in Key : k # call[c].key => claim'[k] = claim[k] /\ NewRowsOf(k) = RowsOf(k)
    BY <1>5, CreateTakesKey
  <2>6. ASSUME NEW d \in Call, d # c, call[d].at = "answered", call[d].key # NoKey
        PROVE  /\ claim'[call[d].key] = claim[call[d].key]
               /\ NewRowsOf(call[d].key) = RowsOf(call[d].key)
    <3>1. call[d].key \in Key /\ call[d].req \in Request
      BY <1>1, <2>6, CallsAre
    <3>2. claim[call[d].key] = call[d].req
      BY <1>1, <2>1, <2>6 DEF CallsKnow, Answered
    <3>3. call[d].key # call[c].key
      BY <2>5, <2>6, <3>1, <3>2, RequestIsSome
    <3>4. QED  BY <2>5, <3>1, <3>3
  <2>7. call'[c].key # NoKey => /\ claim'[call'[c].key] = call'[c].req
                                /\ NewRowsOf(call'[c].key) = {call'[c].txn}
    BY <2>3, <2>5
  <2>8. QED  BY <1>1, <2>1, <2>3, <2>6, <2>7, AnswersMayBeAdded
<1>6. ASSUME NEW c \in Call, Replay(c)  PROVE CallsKnow'
  <2>1. /\ Thinks(c) /\ call'[c].at = "answered"
        /\ call'[c].key \in Key /\ call'[c].txn \in RowsOf(call'[c].key)
        /\ claim[call'[c].key] = call'[c].req
    BY <1>1, <1>6, ReplayThinks
  <2>2. owner' = owner /\ claim' = claim /\ \A k \in Key : NewRowsOf(k) = RowsOf(k)
    BY <2>1, SameRowsSameBookings, NewRowsAreRows DEF Thinks, books
  <2>3. owner
    BY <1>1, <2>1 DEF Owned, RowsOf, Rows
  <2>4. RowsOf(call'[c].key) = {call'[c].txn}
    BY <1>1, <2>1 DEF OneBookingPerKey
  <2>5. \A d \in Call : d # c => call'[d] = call[d]
    BY <2>1 DEF Thinks
  <2>6. /\ NewRowsOf(call'[c].key) = {call'[c].txn} /\ claim'[call'[c].key] = call'[c].req
        /\ \A d \in Call : d # c /\ call[d].at = "answered" /\ call[d].key # NoKey =>
             /\ claim'[call[d].key] = claim[call[d].key]
             /\ NewRowsOf(call[d].key) = RowsOf(call[d].key)
    <3>1. \A d \in Call : call[d].at = "answered" /\ call[d].key # NoKey => call[d].key \in Key
      BY <1>1, CallsAre
    <3>2. QED  BY <2>1, <2>2, <2>4, <3>1
  <2>7. QED  BY <1>1, <2>1, <2>2, <2>3, <2>5, <2>6, AnswersMayBeAdded
<1>7. ASSUME NEW c \in Call, Fail(c)  PROVE CallsKnow'
  BY <1>1, <1>2, <1>7, FailThinks
<1>8. ASSUME NEW c \in Call, NEW i \in Rows, NEW mark \in {"reimb", "uploaded", "settled"},
             StartToggle(c, i, mark)
      PROVE  CallsKnow'
  BY <1>1, <1>2, <1>8, StartToggleThinks
<1>9. ASSUME NEW c \in Call, FinishToggle(c)  PROVE CallsKnow'
  <2>1. SameBookings /\ owner' = owner /\ claim' = claim
    BY <1>1, <1>9, ToggleFlips DEF FinishToggle
  <2>2. call'[c].at = "idle" /\ \A d \in Call : d # c => call'[d] = call[d]
    BY <1>1, <1>9, BecomeOnly DEF FinishToggle
  <2>3. QED  BY <1>1, <2>1, <2>2, NewRowsAreRows, SilentStepsKeepAnswers
<1>10. ASSUME call' = call, owner' => owner /\ claim' = claim /\ SameBookings  PROVE CallsKnow'
  BY <1>1, <1>10, NewRowsAreRows, SilentStepsKeepAnswers
<1>11. ASSUME NEW S \in SUBSET Rows, CreateReimbursement(S)  PROVE CallsKnow'
  BY <1>1, <1>10, <1>11, ReimbursementMarks DEF CreateReimbursement
<1>12. ASSUME NEW a \in Account, OpenAccount(a) \/ CloseAccount(a)  PROVE CallsKnow'
  BY <1>10, <1>12, SameRowsSameBookings DEF OpenAccount, CloseAccount
<1>13. CASE DeleteUser
  BY <1>10, <1>13 DEF DeleteUser
<1>14. CASE UNCHANGED vars
  BY <1>10, <1>14, SameRowsSameBookings DEF vars, books
<1>15. QED
  BY <1>3, <1>4, <1>5, <1>6, <1>7, <1>8, <1>9, <1>11, <1>12, <1>13, <1>14 DEF Next

----------------------------------------------------------------------------
(* Reimbursements.                                                           *)

\* One document is whole.
Whole(d) ==
  /\ doc[d].items = {i \in Rows : txn[i].doc = d}
  /\ \A i \in doc[d].items : txn[i].reimb = "reimbursed"
  /\ doc[d].total = SumFunctionOnSet(Spent, doc[d].items)

LEMMA WholeIs ==
  ReimbursementsStayWhole <=>
    (\A d \in DOMAIN doc : Whole(d)) /\ \A i \in Rows : txn[i].doc \in 0 .. Len(doc)
  BY DEF ReimbursementsStayWhole, Whole

(* Where no document gains or loses a row, and no row of a document changes  *)
(* its mark, every document stays whole.                                     *)
LEMMA SameItemsSameDocuments ==
  ASSUME ReimbursementsStayWhole, SameBookings, doc' = doc,
         \A i \in Rows : /\ txn'[i].doc = txn[i].doc
                         /\ txn[i].doc # 0 => txn'[i].reimb = txn[i].reimb,
         TypeOK
  PROVE  ReimbursementsStayWhole'
<1>1. Spent' = Spent /\ Rows' = Rows
  BY SameBookingsSameSums DEF SameBookings
<1>2. ASSUME NEW d \in DOMAIN doc
      PROVE  /\ doc[d].items = {i \in Rows : txn'[i].doc = d}
             /\ \A i \in doc[d].items : txn'[i].reimb = "reimbursed"
             /\ doc[d].total = SumFunctionOnSet(Spent, doc[d].items)
  <2>1. d # 0
    BY LenProperties DEF TypeOK
  <2>2. Whole(d)
    BY WholeIs
  <2>3. \A i \in doc[d].items : i \in Rows /\ txn[i].doc = d
    BY <2>2 DEF Whole
  <2>4. \A i \in doc[d].items : txn'[i].reimb = "reimbursed"
    BY <2>1, <2>2, <2>3 DEF Whole
  <2>5. {i \in Rows : txn'[i].doc = d} = {i \in Rows : txn[i].doc = d}
    OBVIOUS
  <2>6. QED  BY <2>2, <2>4, <2>5 DEF Whole
<1>3. \A i \in Rows : txn'[i].doc \in 0 .. Len(doc)
  BY WholeIs
<1>4. \A d \in DOMAIN doc : Whole(d)'
  BY <1>1, <1>2 DEF Whole
<1>5. QED  BY <1>1, <1>3, <1>4, WholeIs DEF ReimbursementsStayWhole, Whole

LEMMA ReimbursementIsWhole ==
  ASSUME TypeOK, ReimbursementsStayWhole, NEW S \in SUBSET Rows, CreateReimbursement(S)
  PROVE  ReimbursementsStayWhole'
<1> DEFINE n == Len(doc')
<1>1. /\ SameBookings /\ n = Len(doc) + 1 /\ Len(doc) \in Nat
      /\ \A i \in Rows \ S : txn'[i] = txn[i]
      /\ \A i \in S : txn'[i].doc = n /\ txn'[i].reimb = "reimbursed"
  BY ReimbursementMarks
<1>2. Spent' = Spent /\ Rows' = Rows
  BY <1>1, SameBookingsSameSums DEF SameBookings
<1>3. /\ DOMAIN doc = 1 .. Len(doc) /\ DOMAIN doc' = 1 .. n
      /\ \A d \in DOMAIN doc : doc'[d] = doc[d]
      /\ doc'[n] = Document(S)
  <2>1. doc \in Seq([items : SUBSET (1 .. MaxTxn), total : Nat])  BY DEF TypeOK
  <2>2. TypeOK'  BY ReimbursementIsTyped
  <2>3. doc' \in Seq([items : SUBSET (1 .. MaxTxn), total : Nat])  BY <2>2 DEF TypeOK
  <2>4. doc' = Append(doc, Document(S))  BY DEF CreateReimbursement
  <2>5. QED  BY <1>1, <2>1, <2>3, <2>4, LenProperties
<1>4. \A i \in Rows : txn[i].doc \in 0 .. Len(doc)
  BY WholeIs
<1>5. \A d \in DOMAIN doc : S \cap doc[d].items = {}
  BY DEF CreateReimbursement
<1>6. ASSUME NEW d \in DOMAIN doc  PROVE Whole(d)'
  <2>1. Whole(d)  BY WholeIs
  <2>2. {i \in Rows : txn'[i].doc = d} = {i \in Rows : txn[i].doc = d}
    <3>1. ASSUME NEW i \in Rows  PROVE txn'[i].doc = d <=> txn[i].doc = d
      <4>1. CASE i \in S
        <5>1. txn'[i].doc # d  BY <1>1, <1>3, <4>1
        <5>2. txn[i].doc # d  BY <1>5, <2>1, <4>1 DEF Whole
        <5>3. QED  BY <5>1, <5>2
      <4>2. CASE i \notin S
        BY <1>1, <4>2
      <4>3. QED  BY <4>1, <4>2
    <3>2. QED  BY <3>1
  <2>3. \A i \in doc[d].items : txn'[i].reimb = "reimbursed"
    <3>1. \A i \in doc[d].items : i \in Rows \ S
      BY <1>5, <2>1 DEF Whole
    <3>2. QED  BY <1>1, <2>1, <3>1 DEF Whole
  <2>4. doc'[d] = doc[d]  BY <1>3
  <2>5. QED  BY <1>2, <2>1, <2>2, <2>3, <2>4 DEF Whole
<1>7. /\ doc'[n].items = {i \in Rows' : txn'[i].doc = n}
      /\ \A i \in doc'[n].items : txn'[i].reimb = "reimbursed"
      /\ doc'[n].total = SumFunctionOnSet(Spent', doc'[n].items)
  <2>1. {i \in Rows : txn'[i].doc = n} = S
    <3>1. ASSUME NEW i \in Rows  PROVE txn'[i].doc = n <=> i \in S
      <4>1. CASE i \in S  BY <1>1, <4>1
      <4>2. CASE i \notin S
        <5>1. txn'[i].doc \in 0 .. Len(doc)  BY <1>1, <1>4, <4>2
        <5>2. QED  BY <1>1, <4>2, <5>1
      <4>3. QED  BY <4>1, <4>2
    <3>2. QED  BY <3>1
  <2>2. doc'[n].items = S /\ doc'[n].total = SumFunctionOnSet(Spent, S)
    BY <1>3 DEF Document
  <2>3. QED  BY <1>1, <1>2, <2>1, <2>2
<1>8. \A i \in Rows' : txn'[i].doc \in 0 .. n
  <2>1. ASSUME NEW i \in Rows  PROVE txn'[i].doc \in 0 .. n
    <3>1. CASE i \in S  BY <1>1, <3>1
    <3>2. CASE i \notin S
      <4>1. txn'[i].doc \in 0 .. Len(doc)  BY <1>1, <1>4, <3>2
      <4>2. QED  BY <1>1, <4>1
    <3>3. QED  BY <3>1, <3>2
  <2>2. QED  BY <1>2, <2>1
<1>9. QED
  <2>1. \A d \in DOMAIN doc' : d \in DOMAIN doc \/ d = n
    BY <1>1, <1>3
  <2> HIDE DEF n
  <2>2. \A d \in DOMAIN doc' : /\ doc'[d].items = {i \in Rows' : txn'[i].doc = d}
                               /\ \A i \in doc'[d].items : txn'[i].reimb = "reimbursed"
                               /\ doc'[d].total = SumFunctionOnSet(Spent', doc'[d].items)
    BY <1>6, <1>7, <2>1 DEF Whole
  <2>3. QED  BY <1>8, <2>2 DEF ReimbursementsStayWhole, n

(* A new row is in no document.                                              *)
LEMMA CreateKeepsDocuments ==
  ASSUME TypeOK, ReimbursementsStayWhole, NEW c \in Call, Create(c)
  PROVE  ReimbursementsStayWhole'
<1> DEFINE n == Len(txn')
<1>1. /\ Rows' = Rows \cup {n} /\ n \notin Rows
      /\ \A i \in Rows : txn'[i] = txn[i]
      /\ txn'[n].doc = 0 /\ Len(doc) \in Nat /\ DOMAIN doc = 1 .. Len(doc)
  <2>1. Len(doc) \in Nat /\ DOMAIN doc = 1 .. Len(doc)
    BY LenProperties DEF TypeOK
  <2>2. QED  BY <2>1, CreateAppends, RowIs
<1>2. doc' = doc
  BY DEF Create
<1>3. ASSUME NEW d \in DOMAIN doc
      PROVE  /\ doc[d].items = {i \in Rows' : txn'[i].doc = d}
             /\ \A i \in doc[d].items : txn'[i].reimb = "reimbursed"
             /\ doc[d].total = SumFunctionOnSet(Spent', doc[d].items)
  <2>1. Whole(d) /\ d # 0  BY <1>1, WholeIs
  <2>2. doc[d].items \subseteq Rows  BY <2>1 DEF Whole
  <2>3. SumFunctionOnSet(Spent', doc[d].items) = SumFunctionOnSet(Spent, doc[d].items)
    <3>1. IsFiniteSet(doc[d].items)
      BY <2>2, RowsAre, FS_Subset
    <3>2. \A i \in doc[d].items : Spent'[i] = Spent[i]
      BY <1>1, <2>2 DEF Spent
    <3>3. QED  BY <3>1, <3>2, SumAgrees
  <2>4. {i \in Rows' : txn'[i].doc = d} = {i \in Rows : txn[i].doc = d}
    BY <1>1, <2>1
  <2>5. \A i \in doc[d].items : txn'[i].reimb = "reimbursed"
    BY <1>1, <2>1, <2>2 DEF Whole
  <2>6. QED  BY <2>1, <2>3, <2>4, <2>5 DEF Whole
<1>4. \A i \in Rows' : txn'[i].doc \in 0 .. Len(doc)
  BY <1>1, WholeIs
<1>5. QED  BY <1>2, <1>3, <1>4 DEF ReimbursementsStayWhole

LEMMA DocumentsKept == IInv /\ [Next]_vars => ReimbursementsStayWhole'
<1> SUFFICES ASSUME IInv, [Next]_vars  PROVE ReimbursementsStayWhole'
  OBVIOUS
<1>1. TypeOK /\ ReimbursementsStayWhole
  BY DEF IInv
<1>2. ASSUME txn' = txn, doc' = doc  PROVE ReimbursementsStayWhole'
  BY <1>1, <1>2, SameRowsSameBookings, SameItemsSameDocuments
<1>3. CASE Quiet
  BY <1>2, <1>3 DEF Quiet, books
<1>4. ASSUME NEW c \in Call, Create(c)  PROVE ReimbursementsStayWhole'
  BY <1>1, <1>4, CreateKeepsDocuments
<1>5. ASSUME NEW c \in Call, FinishToggle(c)  PROVE ReimbursementsStayWhole'
  <2>1. /\ SameBookings /\ call[c].row \in Rows /\ call[c].mark \in {"reimb", "uploaded", "settled"}
        /\ \A i \in Rows : /\ txn'[i].doc = txn[i].doc
                           /\ i # call[c].row => txn'[i] = txn[i]
        /\ txn'[call[c].row] = Flipped(txn[call[c].row], call[c].mark)
    BY <1>1, <1>5, ToggleFlips
  <2>2. call[c].mark = "reimb" => txn[call[c].row].doc = 0
    BY <1>5 DEF FinishToggle, StillAsRead
  <2>3. call[c].mark # "reimb" => txn'[call[c].row].reimb = txn[call[c].row].reimb
    BY <1>1, <2>1, RowsAre, FlipType
  <2>4. \A i \in Rows : txn[i].doc # 0 => txn'[i].reimb = txn[i].reimb
    BY <2>1, <2>2, <2>3
  <2>5. doc' = doc
    BY <1>5 DEF FinishToggle
  <2>6. QED  BY <1>1, <2>1, <2>4, <2>5, SameItemsSameDocuments
<1>6. ASSUME NEW S \in SUBSET Rows, CreateReimbursement(S)  PROVE ReimbursementsStayWhole'
  BY <1>1, <1>6, ReimbursementIsWhole
<1>7. ASSUME NEW a \in Account, OpenAccount(a) \/ CloseAccount(a)  PROVE ReimbursementsStayWhole'
  BY <1>2, <1>7 DEF OpenAccount, CloseAccount
<1>8. CASE DeleteUser
  BY <1>8, DeletionClears DEF ReimbursementsStayWhole
<1>9. QED
  BY <1>3, <1>4, <1>5, <1>6, <1>7, <1>8, StepsThatWrite

----------------------------------------------------------------------------
(* The marks.                                                                *)

(* Rows that no toggle touches keep what holds of their marks.               *)
LEMMA MarksKept == IInv /\ [Next]_vars => Awaited' /\ Reported' /\ FlowIsOrdered'
<1> SUFFICES ASSUME IInv, [Next]_vars  PROVE Awaited' /\ Reported' /\ FlowIsOrdered'
  OBVIOUS
<1>1. TypeOK /\ Awaited /\ Reported /\ FlowIsOrdered /\ Toggling
  BY DEF IInv, Flow
<1>2. CASE txn' = txn
  BY <1>1, <1>2 DEF Awaited, Reported, FlowIsOrdered, Rows, Expense
<1>3. ASSUME NEW c \in Call, Create(c)  PROVE Awaited' /\ Reported' /\ FlowIsOrdered'
  <2> DEFINE n == Len(txn')
  <2>1. /\ Rows' = Rows \cup {n} /\ \A i \in Rows : txn'[i] = txn[i]
        /\ txn'[n].on = call[c].account /\ txn'[n].effect = call[c].req.effect
        /\ txn'[n].reimb = InitialReimb(call[c].account, call[c].req.effect)
        /\ ~txn'[n].uploaded /\ ~txn'[n].settled
    BY <1>1, <1>3, CreateAppends, RowIs
  <2>2. /\ txn'[n].reimb # "reimbursed"
        /\ txn'[n].effect < 0 /\ txn'[n].on \in Personal => txn'[n].reimb # "none"
    BY <2>1 DEF InitialReimb
  <2> HIDE DEF n
  <2>3. QED  BY <1>1, <2>1, <2>2 DEF Awaited, Reported, FlowIsOrdered, Expense
<1>4. ASSUME NEW c \in Call, FinishToggle(c)  PROVE Awaited' /\ Reported' /\ FlowIsOrdered'
  <2> DEFINE r == call[c].row
             m == call[c].mark
  <2>1. /\ SameBookings /\ r \in Rows /\ m \in {"reimb", "uploaded", "settled"}
        /\ \A i \in Rows : /\ txn'[i].doc = txn[i].doc
                           /\ txn[i].reported => txn'[i].reported
                           /\ i # r => txn'[i] = txn[i]
        /\ txn'[r] = Flipped(txn[r], m)
    BY <1>1, <1>4, ToggleFlips
  <2>2. txn[r] \in TxnRow
    BY <1>1, <2>1, RowsAre
  <2>3. /\ (txn[r].uploaded => txn[r].reported) => (txn'[r].uploaded => txn'[r].reported)
        /\ m # "reimb" => txn'[r].reimb = txn[r].reimb
        /\ m = "reimb" =>
             txn'[r].reimb = IF txn[r].reimb = "pending" THEN "reimbursed" ELSE "pending"
        /\ m # "settled" => txn'[r].settled = txn[r].settled
        /\ m = "settled" => txn'[r].settled = ~txn[r].settled
    BY <2>1, <2>2, FlipType
  <2>4. m # "uploaded" => call[c].saw = txn[r][m]
    BY <1>4 DEF FinishToggle, StillAsRead
  <2>5. /\ m = "reimb" /\ txn[r].reimb = "pending" => txn[r].reported
        /\ m = "settled" /\ ~txn[r].settled => txn[r].reported
    <3>1. call[c].at = "toggle"  BY <1>4 DEF FinishToggle
    <3>2. CASE m = "reimb"  BY <1>1, <2>1, <2>4, <3>1, <3>2 DEF Toggling
    <3>3. CASE m = "settled"  BY <1>1, <2>1, <2>4, <3>1, <3>3 DEF Toggling
    <3>4. QED  BY <3>2, <3>3
  <2>6. /\ txn[r].uploaded => txn[r].reported
        /\ txn[r].reimb = "reimbursed" /\ txn[r].doc = 0 => txn[r].reported
        /\ txn[r].settled => txn[r].reported
    BY <1>1, <2>1 DEF Reported, FlowIsOrdered
  <2>7. /\ txn'[r].reimb = "reimbursed" /\ txn'[r].doc = 0 => txn'[r].reported
        /\ txn'[r].settled => txn'[r].reported
    <3> HIDE DEF r, m
    <3>1. CASE m = "reimb"  BY <2>1, <2>3, <2>5, <2>6, <3>1
    <3>2. CASE m = "uploaded"  BY <2>1, <2>3, <2>6, <3>2
    <3>3. CASE m = "settled"  BY <2>1, <2>3, <2>5, <2>6, <3>3
    <3>4. QED  BY <2>1, <3>1, <3>2, <3>3
  <2>8. Expense(r) /\ txn[r].on \in Personal => txn'[r].reimb # "none"
    BY <1>1, <2>1, <2>3 DEF Awaited
  <2>9. Rows' = Rows /\ txn'[r].effect = txn[r].effect /\ txn'[r].on = txn[r].on
    BY <2>1 DEF SameBookings
  <2> HIDE DEF r, m
  <2>10. Awaited'
    BY <1>1, <2>1, <2>8, <2>9 DEF Awaited, Expense
  <2>11. Reported' /\ FlowIsOrdered'
    BY <1>1, <2>1, <2>3, <2>6, <2>7, <2>9 DEF Reported, FlowIsOrdered
  <2>12. QED  BY <2>10, <2>11
<1>5. ASSUME NEW S \in SUBSET Rows, CreateReimbursement(S)
      PROVE  Awaited' /\ Reported' /\ FlowIsOrdered'
  <2>1. /\ SameBookings /\ Len(doc') # 0
        /\ \A i \in Rows \ S : txn'[i] = txn[i]
        /\ \A i \in S : /\ txn'[i].doc = Len(doc') /\ txn'[i].reimb = "reimbursed"
                        /\ txn'[i].uploaded = txn[i].uploaded
                        /\ txn'[i].reported = txn[i].reported
                        /\ txn'[i].settled = txn[i].settled
    BY <1>1, <1>5, ReimbursementMarks
  <2>2. QED  BY <1>1, <2>1 DEF SameBookings, Awaited, Reported, FlowIsOrdered, Expense
<1>6. CASE DeleteUser
  BY <1>6, DeletionClears DEF Awaited, Reported, FlowIsOrdered
<1>7. ASSUME NEW a \in Account, OpenAccount(a) \/ CloseAccount(a)  PROVE txn' = txn
  BY <1>7 DEF OpenAccount, CloseAccount
<1>8. QED
  BY <1>2, <1>3, <1>4, <1>5, <1>6, <1>7, StepsThatWrite DEF Quiet, books

(* What a toggle found reported stays reported until it is done.             *)
LEMMA TogglingKept == IInv /\ [Next]_vars => Toggling'
<1> SUFFICES ASSUME IInv, [Next]_vars  PROVE Toggling'
  OBVIOUS
<1>1. TypeOK /\ Awaited /\ Reported /\ Toggling
  BY DEF IInv, Flow
<1>2. ASSUME owner' => owner /\ Rows \subseteq Rows',
             \A c \in Call : call'[c].at = "toggle" =>
               /\ call'[c] = call[c]
               /\ call[c].row \in Rows' =>
                    call[c].row \in Rows /\ (txn[call[c].row].reported => txn'[call[c].row].reported)
      PROVE  Toggling'
  BY <1>1, <1>2 DEF Toggling
<1>3. ASSUME NEW c \in Call, Thinks(c), call'[c].at # "toggle"  PROVE Toggling'
  <2>1. Rows' = Rows /\ txn' = txn /\ owner' = owner  BY <1>3 DEF Thinks, books, Rows
  <2>2. \A d \in Call : call'[d].at = "toggle" => call'[d] = call[d]  BY <1>3 DEF Thinks
  <2>3. QED  BY <1>2, <2>1, <2>2
<1>4. ASSUME NEW c \in Call, NEW k \in Key \cup {NoKey}, NEW r \in Request, StartCreate(c, k, r)
      PROVE  Toggling'
  BY <1>1, <1>3, <1>4, StartCreateThinks
<1>5. ASSUME NEW c \in Call, Prepare(c)  PROVE Toggling'
  BY <1>1, <1>3, <1>5, PrepareThinks
<1>6. ASSUME NEW c \in Call, Replay(c)  PROVE Toggling'
  BY <1>1, <1>3, <1>6, ReplayThinks
<1>7. ASSUME NEW c \in Call, Fail(c)  PROVE Toggling'
  BY <1>1, <1>3, <1>7, FailThinks
<1>8. ASSUME NEW c \in Call, NEW i \in Rows, NEW mark \in {"reimb", "uploaded", "settled"},
             StartToggle(c, i, mark)
      PROVE  Toggling'
  <2>1. /\ Thinks(c) /\ call'[c].at = "toggle" /\ call'[c].row = i
        /\ call'[c].mark = mark /\ call'[c].saw = txn[i][mark]
    BY <1>1, <1>8, StartToggleThinks
  <2>2. Rows' = Rows /\ txn' = txn /\ owner' = owner /\ \A d \in Call : d # c => call'[d] = call[d]
    BY <2>1 DEF Thinks, books, Rows
  <2>3. /\ mark = "reimb" /\ txn[i].reimb = "pending" => txn[i].reported
        /\ mark = "settled" /\ ~txn[i].settled => txn[i].reported
    BY <1>1, <1>8 DEF StartToggle, MayToggle, Reported
  <2>4. QED  BY <1>1, <2>1, <2>2, <2>3 DEF Toggling
<1>9. ASSUME NEW c \in Call, Create(c)  PROVE Toggling'
  <2>1. /\ Rows' = Rows \cup {Len(txn')} /\ \A i \in Rows : txn'[i] = txn[i]
        /\ ~(Len(txn') \in Rows)
    BY <1>1, <1>9, CreateAppends
  <2>2. \A d \in Call : call'[d].at = "toggle" => call'[d] = call[d]
    BY <1>1, <1>9, BecomeOnly DEF Create
  <2>3. owner /\ \A d \in Call : call[d].at = "toggle" => call[d].row \in Rows
    BY <1>1, <1>9 DEF Create, AcceptsRows, Toggling
  <2>4. QED  BY <1>2, <2>1, <2>2, <2>3
<1>10. ASSUME NEW c \in Call, FinishToggle(c)  PROVE Toggling'
  <2>1. SameBookings /\ \A i \in Rows : txn[i].reported => txn'[i].reported
    BY <1>1, <1>10, ToggleFlips
  <2>2. \A d \in Call : call'[d].at = "toggle" => call'[d] = call[d]
    BY <1>1, <1>10, BecomeOnly DEF FinishToggle
  <2>3. owner' = owner  BY <1>10 DEF FinishToggle
  <2>4. QED  BY <1>2, <2>1, <2>2, <2>3 DEF SameBookings
<1>11. ASSUME NEW S \in SUBSET Rows, CreateReimbursement(S)  PROVE Toggling'
  <2>1. SameBookings /\ \A i \in Rows : txn[i].reported => txn'[i].reported
    BY <1>1, <1>11, ReimbursementMarks
  <2>2. call' = call /\ owner' = owner  BY <1>11 DEF CreateReimbursement
  <2>3. QED  BY <1>2, <2>1, <2>2 DEF SameBookings
<1>12. ASSUME txn' = txn, call' = call, owner' = owner  PROVE Toggling'
  BY <1>2, <1>12 DEF Rows
<1>13. ASSUME NEW a \in Account, OpenAccount(a) \/ CloseAccount(a)  PROVE Toggling'
  BY <1>12, <1>13 DEF OpenAccount, CloseAccount
<1>14. CASE DeleteUser
  BY <1>2, <1>14, DeletionClears DEF DeleteUser
<1>15. CASE UNCHANGED vars
  BY <1>12, <1>15 DEF vars, books
<1>16. QED
  BY <1>4, <1>5, <1>6, <1>7, <1>8, <1>9, <1>10, <1>11, <1>13, <1>14, <1>15 DEF Next

----------------------------------------------------------------------------
(* The theorems about the books.                                             *)

LEMMA InitHolds == Init => IInv
<1> SUFFICES ASSUME Init  PROVE IInv
  OBVIOUS
<1>1. Rows = {} /\ DOMAIN doc = {}
  BY DEF Init, Rows
<1>2. \A c \in Call : call[c].at = "idle" /\ call[c] = [at |-> "idle"]
  BY DEF Init
<1>3. TypeOK
  <2>1. 0 \in Balances  BY DEF Balances
  <2>2. balance \in [Account -> Balances]  BY <2>1 DEF Init
  <2>3. call \in [Call -> CallStates]
    <3>1. [at |-> "idle"] \in CallStates  BY DEF CallStates
    <3>2. QED  BY <3>1 DEF Init
  <2>4. /\ txn \in Seq(TxnRow) /\ Len(txn) <= MaxTxn
        /\ doc \in Seq([items : SUBSET (1 .. MaxTxn), total : Nat])
    BY EmptySeq DEF Init
  <2>5. QED  BY <2>2, <2>3, <2>4 DEF Init, TypeOK
<1>4. Balanced
  <2>1. \A a \in Account : SumOn(a, Rows) = 0  BY <1>1, SumEmpty DEF SumOn
  <2>2. QED  BY <2>1 DEF Init, Balanced
<1>5. Owned /\ OnOpen
  BY <1>1 DEF Init, Owned, OnOpen
<1>6. Keyed
  BY <1>1, <1>2 DEF Init, Keyed, Resolved, OneBookingPerKey, RowsOf, Answered
<1>7. ReimbursementsStayWhole
  BY <1>1 DEF ReimbursementsStayWhole
<1>8. Flow
  BY <1>1, <1>2 DEF Flow, Awaited, Reported, Toggling, FlowIsOrdered
<1>9. QED  BY <1>3, <1>4, <1>5, <1>6, <1>7, <1>8 DEF IInv

LEMMA IInvKept == IInv /\ [Next]_vars => IInv'
BY TypesKept, BalancedKept, OnOpenKept, KeysKept, AnswersStay, DocumentsKept, MarksKept, TogglingKept
   DEF IInv, Keyed, CallsKnow, Flow

LEMMA Invariance == Spec => []IInv
<1>1. QED  BY InitHolds, IInvKept, PTL DEF Spec

(* The variables keep their types; a balance never leaves its column.        *)
THEOREM BookkeepingTypes == Spec => []TypeOK
<1>1. IInv => TypeOK  BY DEF IInv
<1>2. QED  BY <1>1, Invariance, PTL

(* Whatever handlers do at the same time, the cached balance of an account   *)
(* is what its transactions add up to, fits its column, and no transaction   *)
(* is on an account that was closed.                                         *)
THEOREM BooksAlwaysBalance == Spec => []BooksBalance
<1>1. IInv => BooksBalance
  BY DEF IInv, TypeOK, Balanced, OnOpen, BooksBalance
<1>2. QED  BY <1>1, Invariance, PTL

(* However often a creation is sent under a key, and however many handlers   *)
(* work on it, the key is free and nothing is booked under it, or it is      *)
(* taken and one transaction is, the one its request asked for.              *)
THEOREM KeysBookOnce == Spec => []OneBookingPerKey
<1>1. IInv => OneBookingPerKey  BY DEF IInv, Keyed
<1>2. QED  BY <1>1, Invariance, PTL

(* The items of a reimbursement are the transactions that name it, all of    *)
(* them reimbursed, none in another one, and its total is their sum.         *)
THEOREM ReimbursementsAreWhole == Spec => []ReimbursementsStayWhole
<1>1. IInv => ReimbursementsStayWhole  BY DEF IInv
<1>2. QED  BY <1>1, Invariance, PTL

(* However toggles interleave, nothing is paid back one by one or settled    *)
(* that was not reported before.                                             *)
THEOREM FlowStaysOrdered == Spec => []FlowIsOrdered
<1>1. IInv => FlowIsOrdered  BY DEF IInv, Flow
<1>2. QED  BY <1>1, Invariance, PTL

----------------------------------------------------------------------------
(* The books keep the promise of IdempotentCreation.                         *)

\* No key, and no call that was told of one, changes what it stands for.
SamePromise == Stored' = Stored /\ Told' = Told /\ owner' = owner

(* Where bookings and claims stay, so does what the keys stand for.          *)
LEMMA SameBookingsSameStored ==
  ASSUME SameBookings, claim' = claim  PROVE Stored' = Stored
  BY NewRowsAreRows DEF Stored

(* What a call is told depends on its own state; without an answer, nothing.  *)
LEMMA WhatCallsAreTold ==
  ASSUME NEW c \in Call
  PROVE  /\ Told'[c] = Heard(call'[c])
         /\ call[c].at # "answered" => Told[c] = Promise!Nothing
         /\ call'[c].at # "answered" => Told'[c] = Promise!Nothing
         /\ call'[c] = call[c] => Told'[c] = Told[c]
  BY DEF Told, Heard, Promise!Nothing, Promise!Free

(* What one call is told changes nothing of what the others were.            *)
LEMMA OneIsTold ==
  ASSUME NEW c \in Call, NEW t, Told'[c] = t, \A d \in Call : d # c => Told'[d] = Told[d]
  PROVE  Told' = [Told EXCEPT ![c] = t]
  BY DEF Told

(* A step that answers nobody and books nothing is unseen, or the end of     *)
(* what its call was told.                                                   *)
LEMMA SilentStepsPromise ==
  ASSUME NEW c \in Call, call'[c].at # "answered", \A d \in Call : d # c => call'[d] = call[d],
         SameBookings, owner' = owner, claim' = claim
  PROVE  SamePromise \/ Promise!Forget(c)
<1>1. Stored' = Stored
  BY SameBookingsSameStored
<1>2. Told' = [Told EXCEPT ![c] = Promise!Nothing]
  BY WhatCallsAreTold, OneIsTold
<1>3. CASE Told[c] = Promise!Nothing
  <2>1. Told' = Told
    BY <1>2, <1>3 DEF Told
  <2>2. QED  BY <1>1, <2>1 DEF SamePromise
<1>4. CASE Told[c] # Promise!Nothing
  BY <1>1, <1>2, <1>4 DEF Promise!Forget
<1>5. QED  BY <1>3, <1>4

(* A creation under a key books it; one without a key is nobody's business.  *)
LEMMA CreatePromises ==
  ASSUME IInv, NEW c \in Call, Create(c)
  PROVE  SamePromise \/ \E k \in Key : Promise!Book(c, k)
<1> DEFINE n == Len(txn')
           k == call[c].key
           new == [asked |-> call[c].req, booked |-> {n}]
<1>1. TypeOK /\ OneBookingPerKey
  BY DEF IInv, Keyed
<1>2. owner /\ owner' = owner /\ call[c].at = "ready"
      /\ Become(c, [at |-> "answered", key |-> k, req |-> call[c].req, txn |-> n])
  BY DEF Create, AcceptsRows
<1>3. /\ call[c].req \in Request /\ k \in Key \cup {NoKey}
      /\ n \in 1 .. MaxTxn /\ n \notin Rows
  BY <1>1, CreateAppends
<1>4. /\ k # NoKey => claim[k] = NoRequest /\ claim'[k] = call[c].req /\ NewRowsOf(k) = {n}
      /\ \A j \in Key : j # k => claim'[j] = claim[j] /\ NewRowsOf(j) = RowsOf(j)
  BY CreateTakesKey
<1>5. call'[c] = [at |-> "answered", key |-> k, req |-> call[c].req, txn |-> n]
      /\ \A d \in Call : d # c => call'[d] = call[d]
  BY <1>1, <1>2, BecomeOnly
<1>6. Told[c] = Promise!Nothing
  BY <1>2, WhatCallsAreTold
<1>7. \A d \in Call : d # c => Told'[d] = Told[d]
  BY <1>5, WhatCallsAreTold
<1>8. CASE k = NoKey
  <2>1. Stored' = Stored
    BY <1>3, <1>4, <1>8, NewRowsAreRows DEF Stored
  <2>2. Told'[c] = Promise!Nothing
    BY <1>5, <1>8 DEF Told, Heard, Promise!Nothing, Promise!Free
  <2>3. Told' = Told
    BY <1>6, <1>7, <2>2 DEF Told
  <2>4. QED  BY <1>2, <2>1, <2>3 DEF SamePromise
<1>9. CASE k # NoKey
  <2>1. k \in Key /\ Stored[k] = Promise!Free
    <3>1. RowsOf(k) = {}
      BY <1>1, <1>3, <1>4, <1>9 DEF OneBookingPerKey
    <3>2. QED  BY <1>3, <1>4, <1>9, <3>1 DEF Stored, Promise!Free
  <2>2. new \in Promise!Entry
    BY <1>3 DEF Promise!Entry
  <2>3. \A j \in Key : Stored[j].booked \cap new.booked = {}
    BY <1>3 DEF Stored, RowsOf
  <2>4. Stored' = [Stored EXCEPT ![k] = new]
    BY <1>4, <1>9, <2>1, NewRowsAreRows DEF Stored
  <2>5. Told' = [Told EXCEPT ![c] = [key |-> k, of |-> new]]
    <3>1. Told'[c] = Heard(call'[c])
      BY WhatCallsAreTold
    <3>2. Heard(call'[c]) = [key |-> k, of |-> new]
      BY <1>5, <1>9 DEF Heard
    <3>3. QED  BY <1>7, <3>1, <3>2, OneIsTold
  <2>6. Promise!Book(c, k)
    <3>1. Stored'[k] = new
      BY <2>1, <2>4 DEF Stored
    <3>2. QED  BY <1>2, <1>6, <2>1, <2>2, <2>3, <2>4, <2>5, <3>1 DEF Promise!Book
  <2>7. QED  BY <2>1, <2>6
<1>10. QED  BY <1>8, <1>9

(* A replay repeats what its key stands for.                                 *)
LEMMA ReplayPromises ==
  ASSUME IInv, NEW c \in Call, Replay(c)
  PROVE  \E k \in Key : Promise!Repeat(c, k)
<1> DEFINE k == call'[c].key
<1>1. TypeOK /\ OneBookingPerKey
  BY DEF IInv, Keyed
<1>2. /\ Thinks(c) /\ call'[c].at = "answered"
      /\ k \in Key /\ call'[c].txn \in RowsOf(k) /\ claim[k] = call'[c].req
  BY <1>1, ReplayThinks
<1>3. RowsOf(k) = {call'[c].txn} /\ claim[k] # NoRequest
  BY <1>1, <1>2 DEF OneBookingPerKey
<1>4. Stored' = Stored /\ owner' = owner
  BY <1>2, SameRowsSameBookings, SameBookingsSameStored DEF Thinks, books
<1>5. Told[c] = Promise!Nothing
  BY WhatCallsAreTold DEF Replay
<1>6. Stored[k] # Promise!Free
  BY <1>2, <1>3 DEF Stored, Promise!Free
<1>7. Told' = [Told EXCEPT ![c] = [key |-> k, of |-> Stored[k]]]
  <2>1. Told'[c] = [key |-> k, of |-> Stored[k]]
    BY <1>2, <1>3 DEF Told, Heard, Stored
  <2>2. \A d \in Call : d # c => Told'[d] = Told[d]
    BY <1>2, WhatCallsAreTold DEF Thinks
  <2>3. QED  BY <2>1, <2>2, OneIsTold
<1>8. QED  BY <1>2, <1>4, <1>5, <1>6, <1>7 DEF Promise!Repeat

(* The end of a user frees the keys, for nobody.                             *)
LEMMA DeletionPromises ==
  ASSUME DeleteUser  PROVE Promise!End
<1>1. owner /\ owner' = FALSE /\ call' = call /\ claim' = [k \in Key |-> NoRequest]
  BY DEF DeleteUser
<1>2. \A k \in Key : NewRowsOf(k) = {}
  BY DeletionClears DEF NewRowsOf
<1>3. Stored' = [k \in Key |-> Promise!Free]
  BY <1>1, <1>2, NewRowsAreRows DEF Stored, Promise!Free
<1>4. Told' = Told
  BY <1>1 DEF Told
<1>5. QED  BY <1>1, <1>3, <1>4 DEF Promise!End

(* Every step keeps the promise.                                             *)
LEMMA StepsPromise ==
  ASSUME IInv, [Next]_vars  PROVE SamePromise \/ Promise!Next
<1>1. TypeOK /\ Awaited
  BY DEF IInv, Flow
<1>2. ASSUME NEW c \in Call, Thinks(c), call'[c].at # "answered"
      PROVE  SamePromise \/ Promise!Next
  BY <1>2, SameRowsSameBookings, SilentStepsPromise DEF Thinks, books, Promise!Next
<1>3. ASSUME NEW c \in Call, NEW k \in Key \cup {NoKey}, NEW r \in Request, StartCreate(c, k, r)
      PROVE  SamePromise \/ Promise!Next
  BY <1>1, <1>2, <1>3, StartCreateThinks
<1>4. ASSUME NEW c \in Call, Prepare(c)  PROVE SamePromise \/ Promise!Next
  BY <1>1, <1>2, <1>4, PrepareThinks
<1>5. ASSUME NEW c \in Call, Create(c)  PROVE SamePromise \/ Promise!Next
  BY <1>5, CreatePromises DEF Promise!Next
<1>6. ASSUME NEW c \in Call, Replay(c)  PROVE SamePromise \/ Promise!Next
  BY <1>6, ReplayPromises DEF Promise!Next
<1>7. ASSUME NEW c \in Call, Fail(c)  PROVE SamePromise \/ Promise!Next
  BY <1>1, <1>2, <1>7, FailThinks
<1>8. ASSUME NEW c \in Call, NEW i \in Rows, NEW mark \in {"reimb", "uploaded", "settled"},
             StartToggle(c, i, mark)
      PROVE  SamePromise \/ Promise!Next
  BY <1>1, <1>2, <1>8, StartToggleThinks
<1>9. ASSUME NEW c \in Call, FinishToggle(c)  PROVE SamePromise \/ Promise!Next
  <2>1. SameBookings /\ owner' = owner /\ claim' = claim
    BY <1>1, <1>9, ToggleFlips DEF FinishToggle
  <2>2. call'[c].at = "idle" /\ \A d \in Call : d # c => call'[d] = call[d]
    BY <1>1, <1>9, BecomeOnly DEF FinishToggle
  <2>3. QED  BY <2>1, <2>2, SilentStepsPromise DEF Promise!Next
<1>10. ASSUME call' = call, owner' = owner, claim' = claim, SameBookings  PROVE SamePromise
  BY <1>10, SameBookingsSameStored DEF SamePromise, Told
<1>11. ASSUME NEW S \in SUBSET Rows, CreateReimbursement(S)  PROVE SamePromise
  BY <1>1, <1>10, <1>11, ReimbursementMarks DEF CreateReimbursement
<1>12. ASSUME NEW a \in Account, OpenAccount(a) \/ CloseAccount(a)  PROVE SamePromise
  BY <1>10, <1>12, SameRowsSameBookings DEF OpenAccount, CloseAccount
<1>13. CASE DeleteUser
  BY <1>13, DeletionPromises DEF Promise!Next
<1>14. CASE UNCHANGED vars
  BY <1>10, <1>14, SameRowsSameBookings DEF vars, books
<1>15. QED
  BY <1>3, <1>4, <1>5, <1>6, <1>7, <1>8, <1>9, <1>11, <1>12, <1>13, <1>14 DEF Next

(* However many handlers, keys and users' ends there are, a creation under a *)
(* key books one transaction that is the key's alone, and everybody who is   *)
(* answered under the key asked for that transaction and is told of it.      *)
THEOREM BooksImplementIdempotence == Spec => ImplementsIdempotentCreation
<1>1. Init => Promise!Init
  <2> SUFFICES ASSUME Init  PROVE Promise!Init
    OBVIOUS
  <2>1. \A k \in Key : RowsOf(k) = {}
    BY DEF Init, RowsOf, Rows
  <2>2. Stored = [k \in Key |-> Promise!Free]
    BY <2>1 DEF Init, Stored, Promise!Free
  <2>3. Told = [c \in Call |-> Promise!Nothing]
    BY DEF Init, Told, Heard, Promise!Nothing, Promise!Free
  <2>4. QED  BY <2>2, <2>3 DEF Init, Promise!Init
<1>2. IInv /\ [Next]_vars => [Promise!Next]_<<Stored, Told, ~owner>>
  BY StepsPromise DEF SamePromise
<1>3. QED
  BY <1>1, <1>2, Invariance, PTL DEF Spec, ImplementsIdempotentCreation, Promise!Spec
=============================================================================

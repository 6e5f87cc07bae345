--------------------- MODULE CrossAccountRestoreProofs ---------------------
(***************************************************************************)
(* Proofs about CrossAccountRestore, for any number of sessions, any       *)
(* backups, any numbers of failures and crashes.                           *)
(*                                                                         *)
(* The first part is about the loops that import accounts and categories,  *)
(* which are folds; the second is the inductive invariant, the third the   *)
(* theorems.                                                               *)
(***************************************************************************)
EXTENDS CrossAccountRestore, FiniteSetTheorems, SequenceTheorems, WellFoundedInduction, TLAPS

----------------------------------------------------------------------------
(* Loops.                                                                    *)

\* The body of the loop over accounts, or of the one over categories.
Turn(kind, acc, x) ==
  IF kind = "account" THEN ImportAccount(acc, x) ELSE ImportCategory(acc, x)
\* Sets of places in a sequence.
Places(s) == \E n \in Nat : s \subseteq 1 .. n
Highest(s) == CHOOSE x \in s : \A y \in s : x >= y
\* g is the recursion of a fold over the sets of indices in D.
Turns(g, kind, base, seq, D) ==
  g = [s \in SUBSET D |->
         IF s = {} THEN base ELSE Turn(kind, g[s \ {Highest(s)}], seq[Highest(s)])]

(* Among sets of a finite domain one is smallest: an argument by induction   *)
(* over a set is made about the smallest set for which a statement fails.     *)
LEMMA Smallest ==
  ASSUME NEW T, IsFiniteSet(T), NEW B, B \subseteq SUBSET T, B # {}
  PROVE  \E s \in B : \A u \in B : u \subseteq s => u = s
<1>1. FiniteSubsetsOf(T) = SUBSET T
  BY FS_FiniteSubsetsOfFinite
<1>2. IsWellFoundedOn(StrictSubsetOrdering(T), SUBSET T)
  BY <1>1, FS_StrictSubsetOrderingWellFounded
<1>3. PICK s \in B : \A u \in B : ~(<<u, s>> \in StrictSubsetOrdering(T))
  BY <1>2, WFMin
<1>4. QED
  BY <1>3 DEF StrictSubsetOrdering

(* Among numbers one is least, and of finitely many one is highest.          *)
LEMMA Least ==
  ASSUME NEW N \in Nat, NEW B, B \subseteq 0 .. N, B # {}
  PROVE  \E k \in B : \A j \in B : k <= j
<1> DEFINE T == 0 .. N
           C == {0 .. k : k \in B}
<1>1. IsFiniteSet(T)
  BY FS_Interval
<1>2. C \subseteq SUBSET T /\ C # {}
  <2>1. \A k \in B : 0 .. k \subseteq T  OBVIOUS
  <2> HIDE DEF T
  <2>2. QED  BY <2>1
<1>3. PICK s \in C : \A u \in C : u \subseteq s => u = s
  <2> HIDE DEF C, T
  <2>1. QED  BY <1>1, <1>2, Smallest
<1>4. PICK k \in B : s = 0 .. k
  OBVIOUS
<1>5. ASSUME NEW j \in B, j < k  PROVE FALSE
  <2>1. j \in Nat /\ k \in Nat  OBVIOUS
  <2>2. 0 .. j \in C /\ 0 .. j \subseteq 0 .. k  BY <1>5, <2>1
  <2>3. 0 .. j = 0 .. k  BY <1>3, <1>4, <2>2
  <2>4. k \in 0 .. k /\ k \notin 0 .. j  BY <1>5, <2>1
  <2>5. QED  BY <2>3, <2>4
<1>6. QED
  <2>1. \A j \in B : j \in Nat  OBVIOUS
  <2>2. \A j \in B : ~(j < k)  BY <1>5
  <2>3. QED  BY <2>1, <2>2

(* Finitely many places have a highest.                                    *)
LEMMA HighestIsIn ==
  ASSUME NEW s, Places(s), s # {}
  PROVE  /\ Highest(s) \in s
         /\ \A y \in s : Highest(s) >= y
<1>0. PICK N \in Nat : s \subseteq 1 .. N
  BY DEF Places
<1> DEFINE B == {N - k : k \in s}
<1>1. B \subseteq 0 .. N /\ B # {}
  <2>1. \A k \in s : N - k \in 0 .. N  BY <1>0
  <2>2. QED  BY <2>1
<1>2. PICK m \in B : \A j \in B : m <= j
  <2> HIDE DEF B
  <2>1. QED  BY <1>1, Least
<1>3. PICK k \in s : m = N - k
  OBVIOUS
<1>4. \A y \in s : k >= y
  <2> TAKE y \in s
  <2> DEFINE z == N - y
  <2>1. m <= z
    <3>1. z \in B  OBVIOUS
    <3> HIDE DEF B, z
    <3>2. QED  BY <1>2, <3>1
  <2>2. y \in Nat /\ k \in Nat  BY <1>0
  <2>3. QED  BY <1>3, <2>1, <2>2
<1>5. QED  BY <1>4 DEF Highest

(* Places are finitely many, and some of them are places again.            *)
LEMMA PlacesOf ==
  ASSUME NEW s, Places(s)
  PROVE  IsFiniteSet(s) /\ \A t : t \subseteq s => Places(t)
<1>1. PICK N \in Nat : s \subseteq 1 .. N
  BY DEF Places
<1> DEFINE D == 1 .. N
<1>2. IsFiniteSet(D) /\ s \subseteq D
  BY <1>1, FS_Interval
<1>3. IsFiniteSet(s)
  <2> HIDE DEF D
  <2>1. QED  BY <1>2, FS_Subset
<1>4. QED  BY <1>1, <1>3 DEF Places

(* The recursion at the empty set, and at any other.                          *)
LEMMA TurnsAt ==
  ASSUME NEW kind, NEW base, NEW seq, NEW D, NEW g, Turns(g, kind, base, seq, D)
  PROVE  /\ g[{}] = base
         /\ \A s \in SUBSET D : s # {} =>
              g[s] = Turn(kind, g[s \ {Highest(s)}], seq[Highest(s)])
BY DEF Turns

(* The recursions over two domains agree on what the domains share.           *)
LEMMA TurnsAgree ==
  ASSUME NEW kind, NEW base, NEW seq, NEW D, NEW E, NEW g, NEW h,
         Turns(g, kind, base, seq, D), Turns(h, kind, base, seq, E),
         NEW T, T \subseteq D \cap E, Places(T)
  PROVE  g[T] = h[T]
<1> DEFINE B == {s \in SUBSET T : g[s] # h[s]}
<1>0. /\ g[{}] = base
      /\ \A s \in SUBSET D : s # {} =>
           g[s] = Turn(kind, g[s \ {Highest(s)}], seq[Highest(s)])
  BY DEF Turns
<1>a. /\ h[{}] = base
      /\ \A s \in SUBSET E : s # {} =>
           h[s] = Turn(kind, h[s \ {Highest(s)}], seq[Highest(s)])
  BY DEF Turns
<1>1. SUFFICES ASSUME B # {} PROVE FALSE
  OBVIOUS
<1>2. PICK s \in B : \A u \in B : u \subseteq s => u = s
  <2>1. B \subseteq SUBSET T  OBVIOUS
  <2>2. IsFiniteSet(T)  BY PlacesOf
  <2> HIDE DEF B
  <2>3. QED  BY <1>1, <2>1, <2>2, Smallest
<1>3. s # {}
  BY <1>0, <1>a
<1> DEFINE x == Highest(s)
           r == s \ {x}
<1>4. r \subseteq s /\ r # s /\ r \subseteq T /\ x \in s
  <2>1. x \in s  BY <1>3, PlacesOf, HighestIsIn
  <2>2. QED  BY <2>1
<1>5. g[r] = h[r]
  BY <1>2, <1>4
<1>6. g[s] = Turn(kind, g[r], seq[x]) /\ h[s] = Turn(kind, h[r], seq[x])
  <2>1. s \in SUBSET D /\ s \in SUBSET E  OBVIOUS
  <2>2. g[s] = Turn(kind, g[s \ {Highest(s)}], seq[Highest(s)])  BY <1>3, <2>1, <1>0
  <2>3. h[s] = Turn(kind, h[s \ {Highest(s)}], seq[Highest(s)])  BY <1>3, <2>1, <1>a
  <2>4. QED  BY <2>2, <2>3
<1>7. QED
  BY <1>2, <1>5, <1>6

(* The recursion has a solution.                                              *)
LEMMA TurnsExist ==
  ASSUME NEW kind, NEW base, NEW seq, NEW D, Places(D)
  PROVE  \E g : Turns(g, kind, base, seq, D)
<1> DEFINE Good(T) == \E g : Turns(g, kind, base, seq, T)
           B == {s \in SUBSET D : ~Good(s)}
<1>1. SUFFICES ASSUME B # {} PROVE FALSE
  OBVIOUS
<1>2. PICK T \in B : \A u \in B : u \subseteq T => u = T
  <2>1. B \subseteq SUBSET D  OBVIOUS
  <2>2. IsFiniteSet(D)  BY PlacesOf
  <2> HIDE DEF B
  <2>3. QED  BY <1>1, <2>1, <2>2, Smallest
<1> DEFINE Of(u) == CHOOSE g : Turns(g, kind, base, seq, u)
           Less(s) == s \ {Highest(s)}
           h == [s \in SUBSET T |->
                   IF s = {} THEN base ELSE Turn(kind, Of(Less(s))[Less(s)], seq[Highest(s)])]
<1>3. ASSUME NEW u, u \subseteq T, u # T  PROVE Turns(Of(u), kind, base, seq, u)
  <2>1. \E g : Turns(g, kind, base, seq, u)
    BY <1>2, <1>3
  <2>2. QED  BY <2>1
<1>4. \A s : s \subseteq T => Places(s)
  BY PlacesOf
<1>5. ASSUME NEW s, s \subseteq T, s # {}
      PROVE  Less(s) \subseteq T /\ Less(s) # T /\ Less(s) \subseteq s
  <2>1. Highest(s) \in s  BY <1>4, <1>5, HighestIsIn
  <2>2. QED  BY <2>1, <1>5
<1>6. ASSUME NEW s, s \subseteq T, s # {}
      PROVE  h[Less(s)] = Of(Less(s))[Less(s)]
  <2> DEFINE r == Less(s)
  <2>1. r \subseteq T /\ r # T
    BY <1>5, <1>6
  <2>2. Turns(Of(r), kind, base, seq, r)
    BY <1>3, <2>1
  <2>3. CASE r = {}
    <3>1. Of(r)[r] = base
      <4> DEFINE g == Of(r)
      <4> HIDE DEF Of, r, g
      <4>1. Turns(g, kind, base, seq, r)  BY <2>2 DEF g
      <4>2. g[{}] = base  BY <4>1, TurnsAt
      <4>3. QED  BY <4>2, <2>3 DEF g
    <3>2. QED  BY <3>1, <2>1, <2>3
  <2>4. CASE r # {}
    <3> DEFINE q == Less(r)
    <3>1. q \subseteq T /\ q # T /\ q \subseteq r
      <4> HIDE DEF r, Less
      <4>1. QED BY <2>4, <2>1, <1>5
    <3>2. Turns(Of(q), kind, base, seq, q)
      BY <1>3, <3>1
    <3>3. Of(r)[q] = Of(q)[q]
      <4> HIDE DEF Of, q, r
      <4>1. q \subseteq r \cap q /\ Places(q)  BY <3>1, <1>4
      <4>2. QED  BY <2>2, <3>2, <4>1, TurnsAgree
    <3>4. Of(r)[r] = Turn(kind, Of(r)[q], seq[Highest(r)])
      <4> DEFINE g == Of(r)
      <4> HIDE DEF Of, r, g
      <4>1. Turns(g, kind, base, seq, r)  BY <2>2 DEF g
      <4>2. \A w \in SUBSET r : w # {} =>
              g[w] = Turn(kind, g[w \ {Highest(w)}], seq[Highest(w)])
        BY <4>1 DEF Turns
      <4>4. g[r] = Turn(kind, g[r \ {Highest(r)}], seq[Highest(r)])  BY <2>4, <4>2
      <4>3. QED  BY <4>4 DEF g
    <3>5. h[r] = Turn(kind, Of(q)[q], seq[Highest(r)])
      <4> HIDE DEF Of, r, Less
      <4>2. QED  BY <2>4, <2>1
    <3>6. QED
      <4> HIDE DEF Of, h, q, r
      <4>1. h[r] = Of(r)[r]  BY <3>3, <3>4, <3>5
      <4>2. QED  BY <4>1 DEF r
  <2>5. QED  BY <2>3, <2>4
<1>7. Turns(h, kind, base, seq, T)
  <2> HIDE DEF Of
  <2>1. ASSUME NEW s \in SUBSET T
        PROVE (IF s = {} THEN base ELSE Turn(kind, Of(Less(s))[Less(s)], seq[Highest(s)]))
              = (IF s = {} THEN base ELSE Turn(kind, h[s \ {Highest(s)}], seq[Highest(s)]))
    <3>1. CASE s = {}  BY <3>1
    <3>2. CASE s # {}
      <4>1. h[Less(s)] = Of(Less(s))[Less(s)]
         BY <1>6, <3>2
      <4> HIDE DEF h
      <4>2. QED BY <3>2, <4>1
    <3>3. QED BY <3>1, <3>2
  <2> DEFINE k == h
  <2>2. k = [s \in SUBSET T |->
               IF s = {} THEN base ELSE Turn(kind, k[s \ {Highest(s)}], seq[Highest(s)])]
    BY <2>1
  <2>3. QED BY <2>2 DEF Turns
<1>8. QED  BY <1>2, <1>7

\* The turns of a loop, one after the other.
Run(run, kind, base, seq) ==
  /\ run[0] = base
  /\ \A k \in 1 .. Len(seq) : run[k] = Turn(kind, run[k - 1], seq[k])

(* A fold is what a loop has computed at its end.                            *)
LEMMA FoldRuns ==
  ASSUME NEW kind, NEW base, NEW seq, Len(seq) \in Nat, NEW g,
         Turns(g, kind, base, seq, 1 .. Len(seq))
  PROVE  \E run : Run(run, kind, base, seq) /\ run[Len(seq)] = g[1 .. Len(seq)]
<1> DEFINE N == Len(seq)
           run == [k \in 0 .. N |-> g[1 .. k]]
<1>1. run[0] = base
  <2>1. 1 .. 0 = {}  OBVIOUS
  <2>2. g[1 .. 0] = base  BY <2>1, TurnsAt
  <2>3. 0 \in 0 .. N  OBVIOUS
  <2>4. QED  BY <2>2, <2>3
<1>2. ASSUME NEW k \in 1 .. N  PROVE run[k] = Turn(kind, run[k - 1], seq[k])
  <2>1. k \in Nat /\ k \in 0 .. N /\ k - 1 \in 0 .. N /\ 1 .. k \subseteq 1 .. N
    OBVIOUS
  <2>2. k \in 1 .. k /\ 1 .. k # {} /\ (1 .. k) \ {k} = 1 .. k - 1
    <3> HIDE DEF N
    <3>a. \A j \in Nat : (1 <= j /\ j <= k /\ j # k) <=> (1 <= j /\ j <= k - 1)  BY <2>1
    <3>1. \A j : j \in (1 .. k) \ {k} <=> j \in 1 .. k - 1  BY <2>1, <3>a
    <3>2. QED  BY <2>1, <3>1
  <2>3. Highest(1 .. k) \in 1 .. k /\ Highest(1 .. k) >= k
    <3>1. Places(1 .. k)  BY <2>1 DEF Places
    <3>2. QED  BY <2>2, <3>1, HighestIsIn
  <2>4. Highest(1 .. k) = k
    BY <2>1, <2>3
  <2>5. g[1 .. k] = Turn(kind, g[(1 .. k) \ {k}], seq[k])
    <3>1. 1 .. k \in SUBSET (1 .. N)  BY <2>1
    <3>2. g[1 .. k] = Turn(kind, g[(1 .. k) \ {Highest(1 .. k)}], seq[Highest(1 .. k)])
      <4> DEFINE T == 1 .. k
                 D == 1 .. N
      <4>1. Turns(g, kind, base, seq, D) /\ T \in SUBSET D /\ T # {}  BY <3>1, <2>2
      <4> HIDE DEF T, D
      <4>2. g[T] = Turn(kind, g[T \ {Highest(T)}], seq[Highest(T)])  BY <4>1, TurnsAt
      <4>3. QED  BY <4>2 DEF T
    <3>3. QED  BY <3>2, <2>4
  <2>6. QED  BY <2>1, <2>2, <2>5
<1>3. run[N] = g[1 .. N]
  OBVIOUS
<1>4. Run(run, kind, base, seq)
  <2> HIDE DEF run
  <2>1. QED  BY <1>1, <1>2 DEF Run
<1>5. QED  BY <1>3, <1>4

(* The accounts are imported one after the other.                          *)
LEMMA AccountsFold ==
  ASSUME NEW base, NEW seq, DOMAIN seq = 1 .. Len(seq), Len(seq) \in Nat
  PROVE  \E run : Run(run, "account", base, seq)
                  /\ FoldLeft(ImportAccount, base, seq) = run[Len(seq)]
<1> DEFINE g == CHOOSE h : Turns(h, "account", base, seq, DOMAIN seq)
<1>1. FoldLeft(ImportAccount, base, seq) = g[DOMAIN seq]
  BY DEF FoldLeft, MapThenFoldSet, Turns, Turn, Highest, Max
<1>2. \E h : Turns(h, "account", base, seq, DOMAIN seq)
  <2>1. Places(DOMAIN seq)  BY DEF Places
  <2>2. QED  BY <2>1, TurnsExist
<1>3. Turns(g, "account", base, seq, DOMAIN seq)
  BY <1>2
<1> HIDE DEF g
<1>4. QED  BY <1>1, <1>3, FoldRuns

(* So are the categories.                                                  *)
LEMMA CategoriesFold ==
  ASSUME NEW base, NEW seq, DOMAIN seq = 1 .. Len(seq), Len(seq) \in Nat
  PROVE  \E run : Run(run, "category", base, seq)
                  /\ FoldLeft(ImportCategory, base, seq) = run[Len(seq)]
<1> DEFINE g == CHOOSE h : Turns(h, "category", base, seq, DOMAIN seq)
<1>1. FoldLeft(ImportCategory, base, seq) = g[DOMAIN seq]
  BY DEF FoldLeft, MapThenFoldSet, Turns, Turn, Highest, Max
<1>2. \E h : Turns(h, "category", base, seq, DOMAIN seq)
  <2>1. Places(DOMAIN seq)  BY DEF Places
  <2>2. QED  BY <2>1, TurnsExist
<1>3. Turns(g, "category", base, seq, DOMAIN seq)
  BY <1>2
<1> HIDE DEF g
<1>4. QED  BY <1>1, <1>3, FoldRuns

----------------------------------------------------------------------------
(* The accounts of a backup.                                                 *)

USE BoundsAreNat, NoSessionIsNone, LimitsArePositive

(* A recovered name is one nobody has, whatever the case of its letters.     *)
LEMMA RecoveredIsNew ==
  ASSUME NEW names, IsFiniteSet(names), NEW n \in AccountName
  PROVE  Small(Recovered(names, n)) \notin names
<1> DEFINE m == Cardinality(names)
           K == 1 .. m + 1
           with(k) == [n EXCEPT !.again = Append(@, k)]
           given(k) == Small(with(k)) \in names
           Free == {k \in K : ~given(k)}
           Is(k) == ~given(k) /\ \A j \in 1 .. k - 1 : given(j)
<1>1. m \in Nat
  BY FS_CardinalityType
<1>2. n.again \in Seq(Nat) /\ n = [word |-> n.word, again |-> n.again]
  BY DEF AccountName
<1>3. ASSUME NEW j \in Nat, NEW k \in Nat, Small(with(j)) = Small(with(k))  PROVE j = k
  <2>1. Small(with(j)).again = Append(n.again, j) /\ Small(with(k)).again = Append(n.again, k)
    BY <1>2 DEF Small
  <2>2. Append(n.again, j) = Append(n.again, k)
    BY <1>3, <2>1
  <2>3. QED  BY <1>2, <2>2, AppendProperties
<1>4. Free # {}
  <2>1. SUFFICES ASSUME \A k \in K : given(k)  PROVE FALSE
    OBVIOUS
  <2> DEFINE f == [k \in K |-> Small(with(k))]
  <2>2. f \in [K -> names]
    BY <2>1
  <2>3. IsFiniteSet(K) /\ Cardinality(K) = m + 1
    <3>1. 1 \in Int /\ m + 1 \in Int /\ ~(1 > m + 1) /\ (m + 1) - 1 + 1 = m + 1  BY <1>1
    <3> HIDE DEF m
    <3>2. QED  BY <3>1, FS_Interval
  <2>4. Cardinality(names) < Cardinality(K)
    BY <1>1, <2>3
  <2>5. \E x, y \in K : x # y /\ f[x] = f[y]
    <3> HIDE DEF f, K
    <3>1. QED  BY <2>2, <2>3, <2>4, FS_PigeonHole
  <2>6. PICK x \in K, y \in K : x # y /\ f[x] = f[y]
    BY <2>5
  <2>7. x \in Nat /\ y \in Nat /\ Small(with(x)) = Small(with(y))
    <3> HIDE DEF with
    <3>1. QED  BY <1>1, <2>6
  <2> HIDE DEF with
  <2>8. QED  BY <1>3, <2>6, <2>7
<1> HIDE DEF given
<1>5. PICK k \in Free : \A j \in Free : k <= j
  <2>1. Free \subseteq 0 .. m + 1 /\ m + 1 \in Nat
    BY <1>1
  <2> HIDE DEF Free, m
  <2>2. QED  BY <1>4, <2>1, Least
<1>6. Is(k)
  <2>1. k \in Nat /\ k <= m + 1
    BY <1>1
  <2>2. \A j \in 1 .. k - 1 : j \in K /\ ~(k <= j)
    BY <1>1, <2>1
  <2>3. QED  BY <1>5, <2>2
<1>7. Is(CHOOSE j \in K : Is(j))
  BY <1>6
<1>8. Recovered(names, n) = with(CHOOSE j \in K : Is(j))
  BY DEF Recovered, given
<1>9. QED
  <2> DEFINE c == CHOOSE j \in K : Is(j)
  <2>1. ~given(c)
    BY <1>7
  <2> HIDE DEF c
  <2>2. QED  BY <2>1, <1>8 DEF c, given

(* The name an account gets is one nobody has.                               *)
LEMMA TargetNameIsNew ==
  ASSUME NEW names, IsFiniteSet(names), NEW n \in AccountName
  PROVE  Small(TargetName(names, n)) \notin names
BY RecoveredIsNew DEF TargetName

(* A table with a row more, unless there is one with its id.                 *)
LEMMA IgnoringIs ==
  ASSUME NEW table, NEW id, NEW row
  PROVE  /\ DOMAIN Ignoring(table, id, row) = DOMAIN table \cup {id}
         /\ \A i \in DOMAIN table : Ignoring(table, id, row)[i] = table[i]
         /\ id \notin DOMAIN table => Ignoring(table, id, row)[id] = row
BY DEF Ignoring, With

(* Table, names and what of them a loop over accounts keeps.  The name of    *)
(* an account is known in the lower case of Go or in that of SQLite.         *)
AgreedDiffer(table) ==
  \A i, j \in DOMAIN table :
    /\ Agreed(table[i].name) /\ Agreed(table[j].name)
    /\ Small(table[i].name) = Small(table[j].name)
    => i = j
NamedBy(table, names) ==
  \A i \in DOMAIN table : Small(table[i].name) \in names \/ SqlSmall(table[i].name) \in names
Extends(table, base) ==
  DOMAIN base \subseteq DOMAIN table /\ \A i \in DOMAIN base : table[i] = base[i]
Accountlike(table) == \A i \in DOMAIN table : table[i] = [name |-> table[i].name, open |-> table[i].open]
AccountsGood(acc, base) ==
  /\ IsFiniteSet(DOMAIN acc.table) /\ IsFiniteSet(acc.names)
  /\ Accountlike(acc.table) /\ NamedBy(acc.table, acc.names)
  /\ AgreedDiffer(acc.table) /\ Extends(acc.table, base)

(* A turn keeps names apart, and the accounts that were there.             *)
LEMMA AccountTurn ==
  ASSUME NEW acc, NEW base, AccountsGood(acc, base), NEW a, a.name \in AccountName
  PROVE  AccountsGood(ImportAccount(acc, a), base)
<1> DEFINE name == TargetName(acc.names, a.name)
           row == [name |-> name, open |-> a.open]
           new == Ignoring(acc.table, a.id, row)
           next == ImportAccount(acc, a)
<1>1. Small(name) \notin acc.names
  BY TargetNameIsNew DEF AccountsGood
<1>2. next.table = new /\ next.names = acc.names \cup {Small(name)}
  BY DEF ImportAccount
<1> HIDE DEF name, next
<1>4. row.name = name /\ row = [name |-> row.name, open |-> row.open]
  OBVIOUS
<1> HIDE DEF row
<1>5. /\ DOMAIN new = DOMAIN acc.table \cup {a.id}
      /\ \A i \in DOMAIN acc.table : new[i] = acc.table[i]
      /\ a.id \notin DOMAIN acc.table => new[a.id] = row
  BY IgnoringIs
<1> HIDE DEF new
<1>3. IsFiniteSet(DOMAIN new) /\ IsFiniteSet(next.names)
  BY <1>2, <1>5, FS_AddElement DEF AccountsGood
<1>6. Accountlike(new) /\ NamedBy(new, acc.names \cup {Small(name)}) /\ Extends(new, base)
  <2>1. Accountlike(new)
    BY <1>4, <1>5 DEF AccountsGood, Accountlike
  <2>2. NamedBy(new, acc.names \cup {Small(name)}) /\ Extends(new, base)
    BY <1>4, <1>5 DEF AccountsGood, NamedBy, Extends
  <2>3. QED  BY <2>1, <2>2
<1>7. AgreedDiffer(new)
  <2> DEFINE old == DOMAIN acc.table
  <2>1. \A i \in old : new[i] = acc.table[i]
                       /\ (Agreed(new[i].name) => Small(new[i].name) \in acc.names)
    BY <1>5 DEF AccountsGood, NamedBy, Agreed
  <2>2. \A i, j \in old : /\ Agreed(new[i].name) /\ Agreed(new[j].name)
                          /\ Small(new[i].name) = Small(new[j].name)
                          => i = j
    BY <2>1 DEF AccountsGood, AgreedDiffer
  <2>3. CASE a.id \in old
    BY <1>5, <2>2, <2>3 DEF AgreedDiffer
  <2>4. CASE a.id \notin old
    <3>1. Small(new[a.id].name) \notin acc.names
      BY <1>1, <1>4, <1>5, <2>4
    <3>2. QED  BY <1>5, <2>1, <2>2, <3>1 DEF AgreedDiffer
  <2>5. QED  BY <2>3, <2>4
<1>8. QED  BY <1>2, <1>3, <1>6, <1>7 DEF AccountsGood, next

(* The loop over the accounts keeps what is there, and every name apart.     *)
LEMMA AccountsLoop ==
  ASSUME NEW base, NEW seq, DOMAIN seq = 1 .. Len(seq), Len(seq) \in Nat,
         AccountsGood(base, base.table), \A i \in DOMAIN seq : seq[i].name \in AccountName
  PROVE  AccountsGood(FoldLeft(ImportAccount, base, seq), base.table)
<1>1. PICK run : /\ Run(run, "account", base, seq)
                 /\ FoldLeft(ImportAccount, base, seq) = run[Len(seq)]
  BY AccountsFold
<1> DEFINE N == Len(seq)
           Bad == {k \in 0 .. N : ~AccountsGood(run[k], base.table)}
<1>2. Bad = {}
  <2>1. SUFFICES ASSUME Bad # {} PROVE FALSE
    OBVIOUS
  <2>2. PICK k \in Bad : \A j \in Bad : k <= j
    <3>1. Bad \subseteq 0 .. N /\ N \in Nat  OBVIOUS
    <3> HIDE DEF Bad, N
    <3>2. QED  BY <2>1, <3>1, Least
  <2>3. k # 0
    BY <1>1 DEF Run
  <2>4. k \in 1 .. N /\ k - 1 \in 0 .. N /\ ~(k <= k - 1)
    BY <2>3
  <2>5. AccountsGood(run[k - 1], base.table)
    BY <2>2, <2>4
  <2>6. run[k] = ImportAccount(run[k - 1], seq[k])
    BY <1>1, <2>4 DEF Run, Turn
  <2>7. AccountsGood(run[k], base.table)
    BY <2>4, <2>5, <2>6, AccountTurn
  <2>8. QED  BY <2>7
<1>3. QED  BY <1>1, <1>2

----------------------------------------------------------------------------
(* The categories of a backup.                                               *)

(* What holds when the categories at places done have had their turn.  pairs *)
(* are the names that a category of a backup may have, in lower case, with   *)
(* its id: a row the user has not had all along has one of them, and so has  *)
(* the row that stands for a category of the backup -- unless the category   *)
(* stands for itself, and may be none.                                       *)
Rowlike(table) == \A i \in DOMAIN table : table[i] = Named(table[i]) /\ table[i].name \in Word
Origin(table, pairs) ==
  \A i \in DOMAIN table : i \in DOMAIN HomeCategories \/ <<i, Lower[table[i].name]>> \in pairs
StandsFor(table, row, id, pairs) ==
  row = id \/ (row \in DOMAIN table /\ <<id, Lower[table[row].name]>> \in pairs)
CategoriesGood(acc, base, seq, done, pairs) ==
  /\ acc = [table |-> acc.table, named |-> acc.named, of |-> acc.of]
  /\ Rowlike(acc.table) /\ Origin(acc.table, pairs) /\ Extends(acc.table, base)
  /\ \A n \in DOMAIN acc.named :
       \/ /\ acc.named[n] \in DOMAIN acc.table
          /\ Lower[acc.table[acc.named[n]].name] = Lower[n]
       \/ \E j \in done : Lower[seq[j].name] = n
  /\ \A j \in done :
       seq[j].id \in DOMAIN acc.of /\ StandsFor(acc.table, acc.of[seq[j].id], seq[j].id, pairs)

Apart(seq) ==
  \A i, j \in DOMAIN seq :
    seq[i].id = seq[j].id \/ Lower[seq[i].name] = Lower[seq[j].name] => i = j

(* A turn for a name that is known leaves the table as it is.                *)
LEMMA KnownCategoryTurn ==
  ASSUME NEW acc, NEW base, NEW seq, NEW done, NEW pairs,
         CategoriesGood(acc, base, seq, done, pairs),
         Apart(seq), done \subseteq DOMAIN seq, NEW k \in DOMAIN seq, k \notin done,
         seq[k].name \in Word, <<seq[k].id, Lower[seq[k].name]>> \in pairs,
         Lower[seq[k].name] \in DOMAIN acc.named
  PROVE  CategoriesGood(ImportCategory(acc, seq[k]), base, seq, done \cup {k}, pairs)
<1> DEFINE id == seq[k].id
           name == Lower[seq[k].name]
           row == acc.named[name]
           of == With(acc.of, id, row)
           next == ImportCategory(acc, seq[k])
<1>1. next = [acc EXCEPT !.of = of]
  BY DEF ImportCategory
<1>2. acc = [table |-> acc.table, named |-> acc.named, of |-> acc.of]
  BY DEF CategoriesGood
<1>3. /\ next.table = acc.table /\ next.named = acc.named /\ next.of = of
      /\ next = [table |-> next.table, named |-> next.named, of |-> next.of]
  <2> HIDE DEF next, of
  <2>1. QED  BY <1>1, <1>2
<1>4. StandsFor(acc.table, row, id, pairs)
  <2>1. ~\E j \in done : Lower[seq[j].name] = name
    BY DEF Apart
  <2>2. row \in DOMAIN acc.table /\ Lower[acc.table[row].name] = Lower[name]
    BY <2>1 DEF CategoriesGood
  <2>3. Lower[name] = name
    BY LowerCases
  <2>4. QED  BY <2>2, <2>3 DEF StandsFor
<1>5. ASSUME NEW j \in done \cup {k}
      PROVE  seq[j].id \in DOMAIN of /\ StandsFor(acc.table, of[seq[j].id], seq[j].id, pairs)
  <2>1. /\ DOMAIN of = DOMAIN acc.of \cup {id} /\ of[id] = row
        /\ \A z \in DOMAIN acc.of : z # id => of[z] = acc.of[z]
    BY DEF With
  <2> HIDE DEF of, row
  <2>2. CASE j = k
    BY <2>1, <2>2, <1>4
  <2>3. CASE j # k
    <3>1. j \in done /\ seq[j].id # id
      BY <2>3 DEF Apart
    <3>2. QED  BY <2>1, <3>1 DEF CategoriesGood
  <2>4. QED  BY <2>2, <2>3
<1>6. QED
  <2> HIDE DEF next, of
  <2>1. \A n \in DOMAIN acc.named :
          \/ /\ acc.named[n] \in DOMAIN acc.table
             /\ Lower[acc.table[acc.named[n]].name] = Lower[n]
          \/ \E j \in done \cup {k} : Lower[seq[j].name] = n
    BY DEF CategoriesGood
  <2>2. QED  BY <2>1, <1>3, <1>5 DEF CategoriesGood, next

(* The table with a category more, unless its id or its name is there.       *)
LEMMA IgnoringCategoryIs ==
  ASSUME NEW table, NEW c
  PROVE  /\ DOMAIN table \subseteq DOMAIN IgnoringCategory(table, c)
         /\ DOMAIN IgnoringCategory(table, c) \subseteq DOMAIN table \cup {c.id}
         /\ \A i \in DOMAIN table : IgnoringCategory(table, c)[i] = table[i]
         /\ c.id \in DOMAIN IgnoringCategory(table, c) \ DOMAIN table =>
              IgnoringCategory(table, c)[c.id] = [name |-> c.name, parent |-> NoParent]
<1> DEFINE row == [name |-> c.name, parent |-> NoParent]
<1>1. CASE \E i \in DOMAIN table : table[i].name = c.name
  BY <1>1 DEF IgnoringCategory
<1>2. CASE ~\E i \in DOMAIN table : table[i].name = c.name
  <2>1. IgnoringCategory(table, c) = Ignoring(table, c.id, row)
    BY <1>2 DEF IgnoringCategory
  <2> HIDE DEF row
  <2>2. /\ DOMAIN Ignoring(table, c.id, row) = DOMAIN table \cup {c.id}
        /\ \A i \in DOMAIN table : Ignoring(table, c.id, row)[i] = table[i]
        /\ c.id \notin DOMAIN table => Ignoring(table, c.id, row)[c.id] = row
    BY IgnoringIs
  <2>3. QED  BY <2>1, <2>2 DEF row
<1>3. QED  BY <1>1, <1>2

(* A turn for a name that is not known adds a row, or finds one with its id, *)
(* or neither.                                                               *)
LEMMA NewCategoryTurn ==
  ASSUME NEW acc, NEW base, NEW seq, NEW done, NEW pairs,
         CategoriesGood(acc, base, seq, done, pairs),
         Apart(seq), done \subseteq DOMAIN seq, NEW k \in DOMAIN seq, k \notin done,
         seq[k].name \in Word, <<seq[k].id, Lower[seq[k].name]>> \in pairs,
         Lower[seq[k].name] \notin DOMAIN acc.named
  PROVE  CategoriesGood(ImportCategory(acc, seq[k]), base, seq, done \cup {k}, pairs)
<1> DEFINE id == seq[k].id
           name == Lower[seq[k].name]
           row == [name |-> seq[k].name, parent |-> NoParent]
           table == IgnoringCategory(acc.table, seq[k])
           named == With(acc.named, name, id)
           of == With(acc.of, id, id)
           next == ImportCategory(acc, seq[k])
<1>1. next = [table |-> table, named |-> named, of |-> of]
  BY DEF ImportCategory
<1>2. /\ DOMAIN acc.table \subseteq DOMAIN table /\ DOMAIN table \subseteq DOMAIN acc.table \cup {id}
      /\ \A i \in DOMAIN acc.table : table[i] = acc.table[i]
      /\ id \in DOMAIN table \ DOMAIN acc.table => table[id] = row
  BY IgnoringCategoryIs
<1>3. /\ DOMAIN named = DOMAIN acc.named \cup {name} /\ named[name] = id
      /\ \A n \in DOMAIN acc.named : n # name => named[n] = acc.named[n]
  BY DEF With
<1>4. /\ DOMAIN of = DOMAIN acc.of \cup {id} /\ of[id] = id
      /\ \A z \in DOMAIN acc.of : z # id => of[z] = acc.of[z]
  BY DEF With
<1>5. row = Named(row) /\ row.name = seq[k].name
  BY DEF Named
<1> HIDE DEF row, table, named, of
<1>6. Rowlike(table) /\ Origin(table, pairs) /\ Extends(table, base)
  <2>1. \A i \in DOMAIN table : i \in DOMAIN acc.table \/ (i = id /\ table[i] = row)
    BY <1>2
  <2>2. Rowlike(table)
    BY <1>2, <1>5, <2>1 DEF CategoriesGood, Rowlike
  <2>3. Origin(table, pairs)
    BY <1>2, <1>5, <2>1 DEF CategoriesGood, Origin
  <2>4. Extends(table, base)
    BY <1>2 DEF CategoriesGood, Extends
  <2>5. QED  BY <2>2, <2>3, <2>4
<1>7. ASSUME NEW n \in DOMAIN named
      PROVE  \/ /\ named[n] \in DOMAIN table
                /\ Lower[table[named[n]].name] = Lower[n]
             \/ \E j \in done \cup {k} : Lower[seq[j].name] = n
  <2>1. CASE n = name
    BY <2>1
  <2>2. CASE n # name
    <3>1. n \in DOMAIN acc.named /\ named[n] = acc.named[n]
      BY <1>3, <2>2
    <3>2. QED  BY <3>1, <1>2 DEF CategoriesGood
  <2>3. QED  BY <2>1, <2>2
<1>8. ASSUME NEW j \in done \cup {k}
      PROVE  seq[j].id \in DOMAIN of /\ StandsFor(table, of[seq[j].id], seq[j].id, pairs)
  <2>1. CASE j = k
    BY <1>4, <2>1 DEF StandsFor
  <2>2. CASE j # k
    <3>1. j \in done /\ seq[j].id # id
      BY <2>2 DEF Apart
    <3>2. of[seq[j].id] = acc.of[seq[j].id] /\ seq[j].id \in DOMAIN of
      BY <3>1, <1>4 DEF CategoriesGood
    <3>3. StandsFor(acc.table, acc.of[seq[j].id], seq[j].id, pairs)
      BY <3>1 DEF CategoriesGood
    <3>4. QED  BY <3>2, <3>3, <1>2 DEF StandsFor
  <2>3. QED  BY <2>1, <2>2
<1>9. /\ next.table = table /\ next.named = named /\ next.of = of
      /\ next = [table |-> next.table, named |-> next.named, of |-> next.of]
  <2> HIDE DEF next
  <2>1. QED  BY <1>1
<1>10. QED
  <2> HIDE DEF next
  <2>1. QED  BY <1>6, <1>7, <1>8, <1>9 DEF CategoriesGood, next

(* The loop over the categories of a backup.                                 *)
LEMMA CategoriesLoop ==
  ASSUME NEW base, NEW seq, DOMAIN seq = 1 .. Len(seq), Len(seq) \in Nat, NEW pairs,
         CategoriesGood(base, base.table, seq, {}, pairs), Apart(seq),
         \A i \in DOMAIN seq : seq[i].name \in Word /\ <<seq[i].id, Lower[seq[i].name]>> \in pairs
  PROVE  CategoriesGood(FoldLeft(ImportCategory, base, seq), base.table, seq, DOMAIN seq, pairs)
<1>1. PICK run : /\ Run(run, "category", base, seq)
                 /\ FoldLeft(ImportCategory, base, seq) = run[Len(seq)]
  BY CategoriesFold
<1> DEFINE N == Len(seq)
           Good(k) == CategoriesGood(run[k], base.table, seq, 1 .. k, pairs)
           Bad == {k \in 0 .. N : ~Good(k)}
<1>2. Bad = {}
  <2>1. SUFFICES ASSUME Bad # {} PROVE FALSE
    OBVIOUS
  <2>2. PICK k \in Bad : \A j \in Bad : k <= j
    <3>1. Bad \subseteq 0 .. N /\ N \in Nat  OBVIOUS
    <3> HIDE DEF Bad, N
    <3>2. QED  BY <2>1, <3>1, Least
  <2>3. k # 0
    <3>1. 1 .. 0 = {} /\ run[0] = base  BY <1>1 DEF Run
    <3>2. Good(0)  BY <3>1
    <3>3. QED  BY <3>2
  <2>4. k \in 1 .. N /\ k - 1 \in 0 .. N /\ ~(k <= k - 1) /\ k \in Nat
    BY <2>3
  <2>5. Good(k - 1)
    BY <2>2, <2>4
  <2>6. run[k] = ImportCategory(run[k - 1], seq[k])
    BY <1>1, <2>4 DEF Run, Turn
  <2>7. 1 .. k - 1 \subseteq DOMAIN seq /\ k \notin 1 .. k - 1 /\ k \in DOMAIN seq
    BY <2>4
  <2>8. 1 .. k = (1 .. k - 1) \cup {k}
    BY <2>4
  <2> DEFINE done == 1 .. k - 1
             acc == run[k - 1]
  <2>9. CategoriesGood(acc, base.table, seq, done, pairs)
    BY <2>5
  <2>10. done \subseteq DOMAIN seq /\ k \notin done
    BY <2>7
  <2> HIDE DEF done, acc
  <2>11. CategoriesGood(ImportCategory(acc, seq[k]), base.table, seq, done \cup {k}, pairs)
    BY <2>7, <2>9, <2>10, KnownCategoryTurn, NewCategoryTurn
  <2>12. CategoriesGood(run[k], base.table, seq, 1 .. k, pairs)
    BY <2>6, <2>8, <2>11 DEF done, acc
  <2>13. QED  BY <2>12
<1>3. Good(N)
  <2>1. N \in 0 .. N  OBVIOUS
  <2> HIDE DEF Good, N
  <2>2. QED  BY <1>2, <2>1
<1>4. QED  BY <1>1, <1>3

----------------------------------------------------------------------------
(* The inductive invariant.                                                  *)

\* A session that is being used has its files and a guess left; only the one
\* that is executed is executing.
Busy == {"sending", "offered", "verified", "executing"}
SessionFacts ==
  \A s \in Session :
    /\ at[s] \in {"new"} \cup Busy => tries[s] < MaxAttempts
    /\ at[s] \in Busy => s \in files
    /\ at[s] = "executing" => pc \in MergeLabel /\ s = op
    /\ told[s] # "nothing" => at[s] = "over"
    /\ s \in db.merged => at[s] \in {"executing", "over"}
Given == pc = "latched" => told[op] = "manual"
FilesHeld ==
  /\ crashes \in Nat
  /\ \/ crashes > 0 \/ \E s \in Session : told[s] = "manual"
     \/ \A s \in files : at[s] \notin {"new", "over"}

\* What the marker says, and what the journal holds at each step.
Artifacts ==
  /\ marker = "none" => journal = "none" /\ ~embedded
  /\ journal = "none" => fresh = {} /\ kept = {}
  /\ marker # "none" => op \in Session
Manifest == fresh = Taken \ objects /\ kept = Taken \cap objects
Covered == fresh \cup kept = Taken
Steps ==
  /\ pc \in {"serving", "preflight", "import", "begin"} => marker = "none"
  /\ pc \in {"begin", "snapshot", "bind", "prepare", "record", "attach"} => Taken # {}
  /\ pc \in {"snapshot", "bind", "prepare"} => marker = "preparing"
  /\ pc \in {"bind", "prepare", "record"} => Manifest
  /\ pc \in {"record", "attach"} => marker = "prepared" /\ Covered
  /\ pc \in {"check", "commit"} =>
       \/ marker = "none" /\ Taken = {}
       \/ marker = "prepared" /\ Taken # {} /\ Taken \subseteq objects /\ Covered
  /\ pc = "undo" => marker = "prepared"
  /\ pc = "resolve" => marker \in {"none", "preparing", "prepared"}
  /\ pc \in {"sync", "mark"} => marker = "prepared" /\ op \in db.ledger
  /\ pc \in {"clean", "unmark"} => marker \in {"committed", "rolled_back"}
  /\ pc = "unmark" => journal = "none"
  /\ pc \in {"replay", "settle"} => marker = "prepared" /\ op \notin db.ledger
  /\ pc = "sweep" => marker \in {"preparing", "rolled_back", "committed"}
  /\ pc = "commit" => Valid

\* A merge is in the database when the marker or the ledger says so.
Deciding == {"preflight", "import", "begin", "snapshot", "bind", "prepare", "record", "attach",
             "check", "commit", "undo", "resolve"}
Decided ==
  /\ pc \in Deciding => op \notin db.merged
  /\ marker \in {"preparing", "rolled_back"} => op \notin db.merged
  /\ marker = "prepared" /\ op \in db.merged => op \in db.ledger
  /\ marker = "committed" => op \in db.ledger

\* Rows and objects agree, unless the marker says that the manifest is needed.
Settled(X) == db.rows \subseteq X /\ X \subseteq db.rows \cup db.queue
FilesSettled ==
  /\ db.rows \cap db.queue = {}
  /\ IF marker = "prepared" /\ op \notin db.ledger
     THEN Settled(Reverted) /\ kept \subseteq objects
     ELSE Settled(objects)
  /\ pc \in {"resolve", "settle"} => Settled(objects)

\* The shape of the tables, and what the names in them come from.
Shape ==
  db = [accounts |-> db.accounts, categories |-> db.categories, txns |-> db.txns, rows |-> db.rows,
        moved |-> db.moved, queue |-> db.queue, ledger |-> db.ledger, merged |-> db.merged]
Pairs(h, S) == {<<c.id, Lower[c.name]>> : c \in UNION {ToSet(h[s].categories) : s \in S}}
CategoriesDiffer(table) ==
  \A i, j \in DOMAIN table : SqlLower[table[i].name] = SqlLower[table[j].name] => i = j
AccountsApart ==
  Accountlike(db.accounts) /\ IsFiniteSet(DOMAIN db.accounts) /\ AgreedDiffer(db.accounts)
CategoriesApart ==
  /\ Rowlike(db.categories) /\ Origin(db.categories, Pairs(holds, db.merged))
  /\ db.merged # {} => CategoriesDiffer(db.categories)
TxnsThere ==
  \A s \in db.merged : \A t \in holds[s].txns :
    (\E a \in ToSet(holds[s].accounts) : a.id = t.on) => \E u \in db.txns : u.id = t.id
Traced(u) ==
  /\ u.category \in DOMAIN db.categories
  /\ \E s \in db.merged : \E t \in holds[s].txns :
       t.id = u.id /\ <<t.category, Lower[db.categories[u.category].name]>> \in Pairs(holds, db.merged)
Tables == AccountsApart /\ CategoriesApart /\ TxnsThere /\ \A u \in db.txns : Traced(u)

\* The type invariant, by what it is about.
SessionTypes == SessionsOK /\ told \in [Session -> {"nothing", "failed", "restored", "manual"}]
Control ==
  /\ pc \in {"serving", "latched", "down"} \cup MergeLabel \cup RecoveryLabel
  /\ op \in Session \cup {NoSession} /\ (pc \in MergeLabel \cup {"latched"} => op # NoSession)
Keeping == db.moved \subseteq db.rows /\ db.ledger \subseteq db.merged /\ db.merged \subseteq Session
ArtifactTypes ==
  /\ marker \in {"none", "preparing", "prepared", "committed", "rolled_back"}
  /\ embedded \in BOOLEAN /\ journal \in {"none", "partial", "complete"}
  /\ fresh \cap kept = {}

SessionInv ==
  SessionTypes /\ SessionFacts /\ ExecutionIsCovered /\ AnswersHold /\ Given /\ FilesHeld
PhaseInv == Control /\ ArtifactTypes /\ Artifacts /\ Steps /\ Decided
FilesInv == Keeping /\ FilesSettled
TablesInv == Shape /\ Tables
IInv == SessionInv /\ PhaseInv /\ FilesInv /\ TablesInv

(* The type invariant is its four parts.                                   *)
LEMMA TypesAre == TypeOK <=> SessionTypes /\ Control /\ Keeping /\ ArtifactTypes
BY DEF TypeOK, SessionTypes, Control, Keeping, ArtifactTypes

(* What a merge imports, table by table.                                     *)
LEMMA ImportedIs ==
  /\ Imported.accounts = ImportAccounts /\ Imported.categories = ImportCategories
  /\ Imported.txns = ImportTransactions /\ Imported.rows = db.rows \cup Taken
  /\ Imported.moved = db.moved /\ Imported.queue = db.queue \ Taken
  /\ Imported.ledger = IF Taken = {} THEN db.ledger ELSE db.ledger \cup {op}
  /\ Imported.merged = db.merged \cup {op}
BY DEF Imported, CancelDeletions

----------------------------------------------------------------------------
(* Sessions.                                                                 *)

(* A step of a merge goes to the next one, or answers: and the answer is     *)
(* right.                                                                    *)
Answers(label, answer) ==
  /\ Finish(label, answer)
  /\ op' = IF label = "serving" THEN NoSession ELSE op
  /\ label = "latched" => answer = "manual"
  /\ answer = "failed" => op \notin db'.merged
  /\ answer = "restored" => op \in db'.merged
MergeMoves ==
  /\ pc \in MergeLabel /\ op \in Session
  /\ crashes' = crashes /\ faults' \in {faults, faults + 1}
  /\ db.merged \subseteq db'.merged /\ db'.merged \subseteq db.merged \cup {op}
  /\ \/ \E label \in MergeLabel : Goto(label)
     \/ \E label \in {"serving", "latched"}, answer \in {"failed", "restored", "manual"} :
          Answers(label, answer)

(* Every step of a merge is a move, or an answer that is right.            *)
LEMMA MergeSteps ==
  ASSUME IInv, Merge
  PROVE  MergeMoves
<1> USE DEF IInv, PhaseInv, FilesInv, TablesInv
<1>1. pc \in MergeLabel
  BY DEF Merge, Preflight, ImportRows, Begin, Snapshot, Bind, Prepare, Record, RestoreFiles,
         Check, Commit, EnsureDurable, MarkCommitted, UndoFiles, MarkRolledBack, CleanJournal,
         CleanMarker, MergeLabel
<1>2. op \in Session
  BY <1>1 DEF Control
<1>4. ASSUME db' = db, crashes' = crashes, faults' \in {faults, faults + 1},
             \/ \E label \in MergeLabel : Goto(label)
             \/ Latch
             \/ Answer("failed") /\ op \notin db.merged
      PROVE  MergeMoves
  BY <1>1, <1>2, <1>4 DEF MergeMoves, Latch, Answer, Answers
<1> DEFINE Counts == crashes' = crashes /\ faults' \in {faults, faults + 1}
<1>5. (Fine => Counts) /\ (Fault => Counts)
  BY DEF Fine, Fault, counts
<1>6. CASE Preflight
  BY <1>4, <1>5, <1>6 DEF Preflight, MergeLabel, Decided, Deciding
<1>7. CASE ImportRows
  BY <1>4, <1>5, <1>7 DEF ImportRows, MergeLabel, Decided, Deciding
<1>8. CASE Begin
  BY <1>4, <1>5, <1>8 DEF Begin, MergeLabel, Decided, Deciding
<1>9. CASE Snapshot
  BY <1>4, <1>5, <1>9 DEF Snapshot, MergeLabel
<1>10. CASE Bind
  BY <1>4, <1>5, <1>10 DEF Bind, MergeLabel
<1>11. CASE Prepare
  BY <1>4, <1>5, <1>11 DEF Prepare, MergeLabel
<1>12. CASE Record
  BY <1>4, <1>5, <1>12 DEF Record, MergeLabel
<1>13. CASE RestoreFiles
  BY <1>4, <1>5, <1>13 DEF RestoreFiles, MergeLabel
<1>14. CASE Check
  BY <1>4, <1>5, <1>14 DEF Check, MergeLabel, Decided, Deciding
<1>15. CASE Commit
  <2>1. Counts /\ db' \in {db, Imported}
    BY <1>5, <1>15 DEF Commit
  <2>2. db.merged \subseteq db'.merged /\ db'.merged \subseteq db.merged \cup {op}
    BY <2>1, ImportedIs
  <2>3. CASE Latch
    BY <1>1, <1>2, <2>1, <2>2, <2>3 DEF MergeMoves, Latch, Answers
  <2>4. CASE db' = Imported /\ Goto("sync")
    BY <1>1, <1>2, <2>1, <2>2, <2>4 DEF MergeMoves, MergeLabel
  <2>5. CASE db' = Imported /\ Answer("restored")
    <3>1. op \in db'.merged
      BY <2>5, ImportedIs
    <3>2. Answers("serving", "restored")
      BY <2>5, <3>1 DEF Answer, Answers
    <3>3. QED  BY <1>1, <1>2, <2>1, <2>2, <3>2 DEF MergeMoves
  <2>6. QED  BY <1>15, <2>3, <2>4, <2>5 DEF Commit
<1>16. CASE EnsureDurable
  BY <1>4, <1>5, <1>16 DEF EnsureDurable, MergeLabel
<1>17. CASE MarkCommitted
  BY <1>4, <1>5, <1>17 DEF MarkCommitted, MergeLabel
<1>18. CASE UndoFiles
  BY <1>4, <1>5, <1>18 DEF UndoFiles, MergeLabel
<1>19. CASE MarkRolledBack
  BY <1>4, <1>5, <1>19 DEF MarkRolledBack, MergeLabel
<1>20. CASE CleanJournal
  BY <1>4, <1>5, <1>20 DEF CleanJournal, MergeLabel
<1>21. CASE CleanMarker
  <2>1. Counts /\ db' = db
    BY <1>5, <1>21 DEF CleanMarker
  <2>2. op \in db.ledger => op \in db.merged
    BY DEF Keeping
  <2>3. op \notin db.ledger => op \notin db.merged
    BY <1>21 DEF CleanMarker, Steps, Decided
  <2>4. CASE Latch
    BY <1>4, <2>1, <2>4
  <2>5. CASE Answer(IF op \in db.ledger THEN "restored" ELSE "failed")
    <3>1. CASE op \in db.ledger
      <4>1. Answers("serving", "restored")
        BY <2>1, <2>2, <2>5, <3>1 DEF Answer, Answers
      <4>2. QED  BY <1>1, <1>2, <2>1, <4>1 DEF MergeMoves
    <3>2. CASE op \notin db.ledger
      BY <1>4, <2>1, <2>3, <2>5, <3>2
    <3>3. QED  BY <3>1, <3>2
  <2>6. QED  BY <1>21, <2>4, <2>5 DEF CleanMarker
<1>22. QED
  BY <1>6, <1>7, <1>8, <1>9, <1>10, <1>11, <1>12, <1>13, <1>14, <1>15, <1>16, <1>17, <1>18,
     <1>19, <1>20, <1>21 DEF Merge

(* A step of a merge that goes on leaves the sessions as they are.           *)
LEMMA GoingOn ==
  ASSUME IInv, MergeMoves, NEW label \in MergeLabel, Goto(label)
  PROVE  SessionInv'
<1> USE DEF IInv, SessionInv
<1>1. /\ pc \in MergeLabel /\ pc' \in MergeLabel /\ op \in Session
      /\ op' = op /\ told' = told /\ crashes' = crashes
      /\ at' = at /\ holds' = holds /\ tries' = tries /\ late' = late /\ files' = files
      /\ db.merged \subseteq db'.merged /\ db'.merged \subseteq db.merged \cup {op}
  BY DEF MergeMoves, Goto, sessions
<1>2. at[op] = "executing" /\ told[op] = "nothing"
  <2>1. at[op] = "executing"
    BY <1>1 DEF ExecutionIsCovered
  <2>2. QED  BY <1>1, <2>1 DEF SessionFacts
<1>3. SessionTypes'
  BY <1>1 DEF SessionTypes, SessionsOK
<1>4. SessionFacts'
  BY <1>1, <1>2 DEF SessionFacts
<1>5. ExecutionIsCovered'
  BY <1>1 DEF ExecutionIsCovered
<1>6. AnswersHold'
  BY <1>1, <1>2 DEF AnswersHold
<1>7. Given' /\ FilesHeld'
  BY <1>1 DEF Given, FilesHeld, MergeLabel
<1>8. QED  BY <1>3, <1>4, <1>5, <1>6, <1>7

(* An answer ends the session, and its files go.                             *)
LEMMA Answering ==
  ASSUME IInv, MergeMoves,
         NEW label \in {"serving", "latched"}, NEW answer \in {"failed", "restored", "manual"},
         Answers(label, answer)
  PROVE  SessionInv'
<1> USE DEF IInv, SessionInv
<1>1. /\ pc \in MergeLabel /\ pc' = label /\ op \in Session
      /\ op' = (IF label = "serving" THEN NoSession ELSE op)
      /\ told' = [told EXCEPT ![op] = answer] /\ crashes' = crashes
      /\ at' = [at EXCEPT ![op] = "over"] /\ holds' = holds /\ tries' = tries /\ late' = late
      /\ files' = files \ {op}
      /\ db.merged \subseteq db'.merged /\ db'.merged \subseteq db.merged \cup {op}
      /\ label = "latched" => answer = "manual"
      /\ answer = "failed" => op \notin db'.merged
      /\ answer = "restored" => op \in db'.merged
  BY DEF MergeMoves, Answers, Finish, EndExecution, To, RemoveFiles
<1>2. at[op] = "executing"
  BY <1>1 DEF ExecutionIsCovered
<1>3. /\ at'[op] = "over" /\ told'[op] = answer
      /\ \A s \in Session : s # op => at'[s] = at[s] /\ told'[s] = told[s]
  BY <1>1 DEF SessionTypes, SessionsOK
<1>4. told[op] = "nothing"
  BY <1>1, <1>2 DEF SessionFacts
<1>5. SessionTypes'
  BY <1>1 DEF SessionTypes, SessionsOK, Stages
<1>6. SessionFacts'
  <2> SUFFICES ASSUME NEW s \in Session
               PROVE  /\ at'[s] \in {"new"} \cup Busy => tries'[s] < MaxAttempts
                      /\ at'[s] \in Busy => s \in files'
                      /\ at'[s] = "executing" => pc' \in MergeLabel /\ s = op'
                      /\ told'[s] # "nothing" => at'[s] = "over"
                      /\ s \in db'.merged => at'[s] \in {"executing", "over"}
    BY DEF SessionFacts
  <2>1. CASE s = op
    BY <1>3, <2>1 DEF Busy
  <2>2. CASE s # op
    BY <1>1, <1>3, <2>2 DEF SessionFacts
  <2>3. QED  BY <2>1, <2>2
<1>7. ExecutionIsCovered'
  BY <1>1 DEF ExecutionIsCovered, MergeLabel
<1>8. AnswersHold'
  <2> SUFFICES ASSUME NEW s \in Session
               PROVE  /\ told'[s] = "restored" => s \in db'.merged
                      /\ told'[s] = "failed" => s \notin db'.merged
    BY DEF AnswersHold
  <2>1. CASE s = op
    BY <1>1, <1>3, <2>1
  <2>2. CASE s # op
    BY <1>1, <1>3, <2>2 DEF AnswersHold
  <2>3. QED  BY <2>1, <2>2
<1>9. Given'
  BY <1>1, <1>3 DEF Given
<1>10. FilesHeld'
  <2>1. CASE crashes > 0
    BY <1>1, <2>1 DEF FilesHeld
  <2>2. CASE \E s \in Session : told[s] = "manual"
    <3>1. PICK s \in Session : told[s] = "manual"
      BY <2>2
    <3>2. s # op /\ told'[s] = "manual"
      BY <1>3, <1>4, <3>1
    <3>3. QED  BY <1>1, <3>2 DEF FilesHeld
  <2>3. CASE \A s \in files : at[s] \notin {"new", "over"}
    <3>1. \A s \in files' : s \in Session /\ s # op /\ s \in files
      BY <1>1 DEF SessionTypes, SessionsOK
    <3>2. QED  BY <1>1, <1>3, <2>3, <3>1 DEF FilesHeld
  <2>4. QED  BY <2>1, <2>2, <2>3 DEF FilesHeld
<1>11. QED  BY <1>5, <1>6, <1>7, <1>8, <1>9, <1>10

(* What happens outside a merge and leaves the sessions alone.               *)
LEMMA SessionsRest ==
  ASSUME IInv, UNCHANGED <<sessions, told>>, db'.merged = db.merged, crashes' = crashes,
         \/ pc' = pc /\ op' = op
         \/ pc \notin MergeLabel /\ pc' \notin MergeLabel /\ pc' # "latched"
  PROVE  SessionInv'
<1> USE DEF IInv, SessionInv
<1>1. /\ told' = told
      /\ at' = at /\ holds' = holds /\ tries' = tries /\ late' = late /\ files' = files
  BY DEF sessions
<1>2. SessionTypes'
  BY <1>1 DEF SessionTypes, SessionsOK
<1>3. SessionFacts'
  BY <1>1 DEF SessionFacts
<1>4. ExecutionIsCovered'
  BY <1>1 DEF ExecutionIsCovered
<1>5. AnswersHold'
  BY <1>1 DEF AnswersHold
<1>6. Given' /\ FilesHeld'
  BY <1>1 DEF Given, FilesHeld
<1>7. QED  BY <1>2, <1>3, <1>4, <1>5, <1>6

(* Recovery leaves sessions and database alone.                            *)
LEMMA RecoverySteps ==
  ASSUME IInv, Recovery
  PROVE  /\ SessionInv'
         /\ pc \in RecoveryLabel \cup {"down"} /\ pc' \in RecoveryLabel \cup {"down", "serving"}
         /\ db' = db /\ holds' = holds
         /\ op' # op => pc = "decide" /\ marker = "none" /\ op' = NoSession /\ pc' = "serving"
<1> DEFINE Moves ==
             /\ pc \in RecoveryLabel \cup {"down"} /\ pc' \in RecoveryLabel \cup {"down", "serving"}
             /\ UNCHANGED <<sessions, told>> /\ db' = db /\ crashes' = crashes
             /\ op' # op => pc = "decide" /\ marker = "none" /\ op' = NoSession /\ pc' = "serving"
<1>1. Moves
  <2>1. CASE Start  BY <2>1 DEF Start, Goto, Fine, counts, sessions, RecoveryLabel
  <2>2. CASE Decide  BY <2>2 DEF Decide, Found, Goto, Fine, counts, sessions, RecoveryLabel
  <2>3. CASE Replay  BY <2>3 DEF Replay, Goto, Fine, Fault, counts, sessions, RecoveryLabel
  <2>4. CASE Settle  BY <2>4 DEF Settle, Goto, Fine, counts, sessions, RecoveryLabel
  <2>5. CASE Sweep  BY <2>5 DEF Sweep, Goto, Fine, counts, sessions, RecoveryLabel
  <2>6. QED  BY <2>1, <2>2, <2>3, <2>4, <2>5 DEF Recovery
<1>2. pc \notin MergeLabel /\ pc' \notin MergeLabel /\ pc' # "latched"
  BY <1>1 DEF RecoveryLabel, MergeLabel
<1>3. QED  BY <1>1, <1>2, SessionsRest DEF sessions

(* The process ends: every upload is over, and the files stay.               *)
LEMMA Stopping ==
  ASSUME IInv, Crash \/ Restart
  PROVE  SessionInv'
<1> USE DEF IInv, SessionInv
<1>1. /\ at' = [s \in Session |-> IF at[s] = "new" THEN "new" ELSE "over"]
      /\ holds' = holds /\ tries' = tries /\ late' = late /\ files' = files
      /\ told' = told /\ db' = db /\ pc' = "down"
  BY DEF Crash, Restart, Stop, ForgetSessions
<1>2. SessionTypes'
  BY <1>1 DEF SessionTypes, SessionsOK, Stages
<1>3. \A s \in Session : at'[s] = IF at[s] = "new" THEN "new" ELSE "over"
  BY <1>1
<1>4. SessionFacts'
  BY <1>1, <1>3 DEF SessionFacts, Busy
<1>5. ExecutionIsCovered' /\ Given'
  BY <1>1 DEF ExecutionIsCovered, Given, MergeLabel
<1>6. AnswersHold'
  BY <1>1 DEF AnswersHold
<1>7. FilesHeld'
  <2>1. CASE Crash
    BY <1>1, <2>1 DEF Crash, FilesHeld
  <2>2. CASE Restart
    <3>1. pc = "latched" /\ crashes' = crashes  BY <2>2 DEF Restart
    <3>2. op \in Session /\ told[op] = "manual"
      BY <3>1 DEF Given, PhaseInv, Control
    <3>3. QED  BY <1>1, <3>1, <3>2 DEF FilesHeld
  <2>3. QED  BY <2>1, <2>2
<1>8. QED  BY <1>2, <1>4, <1>5, <1>6, <1>7

(* A verified session is executed.                                           *)
LEMMA Executing ==
  ASSUME IInv, NEW s \in Session, Execute(s)
  PROVE  SessionInv'
<1> USE DEF IInv, SessionInv
<1>1. /\ pc = "serving" /\ pc' = "preflight" /\ op' = s
      /\ at[s] = "verified" /\ at' = [at EXCEPT ![s] = "executing"]
      /\ holds' = holds /\ tries' = tries /\ late' = late /\ files' = files
      /\ told' = told /\ db' = db /\ crashes' = crashes
  BY DEF Execute, Consume, To, counts
<1>2. /\ at'[s] = "executing"
      /\ \A x \in Session : x # s => at'[x] = at[x]
  BY <1>1 DEF SessionTypes, SessionsOK
<1>3. SessionTypes'
  BY <1>1 DEF SessionTypes, SessionsOK, Stages
<1>4. SessionFacts'
  <2> SUFFICES ASSUME NEW x \in Session
               PROVE  /\ at'[x] \in {"new"} \cup Busy => tries'[x] < MaxAttempts
                      /\ at'[x] \in Busy => x \in files'
                      /\ at'[x] = "executing" => pc' \in MergeLabel /\ x = op'
                      /\ told'[x] # "nothing" => at'[x] = "over"
                      /\ x \in db'.merged => at'[x] \in {"executing", "over"}
    BY DEF SessionFacts
  <2>1. CASE x = s
    BY <1>1, <1>2, <2>1 DEF SessionFacts, Busy, MergeLabel
  <2>2. CASE x # s
    BY <1>1, <1>2, <2>2 DEF SessionFacts, MergeLabel
  <2>3. QED  BY <2>1, <2>2
<1>5. ExecutionIsCovered'
  BY <1>1, <1>2 DEF ExecutionIsCovered, SessionFacts, Busy
<1>6. AnswersHold' /\ Given'
  BY <1>1 DEF AnswersHold, Given
<1>7. FilesHeld'
  <2>1. \A x \in files : x \in Session
    BY DEF SessionTypes, SessionsOK
  <2>2. QED  BY <1>1, <1>2, <2>1 DEF FilesHeld
<1>8. QED  BY <1>3, <1>4, <1>5, <1>6, <1>7

\* What the handlers and the clock do to the sessions.
Passes ==
  /\ UNCHANGED <<pc, op, told, db, holds, crashes>>
  /\ at' \in [Session -> Stages] /\ tries' \in [Session -> 0 .. MaxAttempts]
  /\ late' \subseteq Session /\ files' \subseteq Session
  /\ \A x \in Session :
       /\ at'[x] = "executing" <=> at[x] = "executing"
       /\ at[x] = "over" => at'[x] = "over"
       /\ at[x] = "executing" => tries'[x] = tries[x]
       /\ at'[x] \in {"new"} \cup Busy => tries'[x] < MaxAttempts
       /\ at'[x] \in Busy => x \in files'
  /\ (\A x \in files : at[x] \notin {"new", "over"})
     => \A x \in files' : at'[x] \notin {"new", "over"}

(* A handler or timer that serves one upload keeps what holds of it.       *)
LEMMA Passing ==
  ASSUME IInv, Passes
  PROVE  SessionInv'
<1> USE DEF IInv, SessionInv
<1>1. pc' = pc /\ op' = op /\ told' = told /\ db' = db /\ holds' = holds /\ crashes' = crashes
  BY DEF Passes
<1>2. SessionTypes'
  BY <1>1 DEF Passes, SessionTypes, SessionsOK
<1>3. SessionFacts'
  BY <1>1 DEF Passes, SessionFacts
<1>4. ExecutionIsCovered'
  <2> SUFFICES ASSUME pc \in MergeLabel
               PROVE  op \in files' /\ at'[op] = "executing" /\ tries'[op] < MaxAttempts
    BY <1>1 DEF ExecutionIsCovered
  <2>1. op \in Session /\ at[op] = "executing" /\ tries[op] < MaxAttempts
    BY DEF ExecutionIsCovered, SessionTypes, SessionsOK
  <2>2. QED  BY <2>1 DEF Passes, Busy
<1>5. AnswersHold' /\ Given'
  BY <1>1 DEF AnswersHold, Given
<1>6. FilesHeld'
  BY <1>1 DEF Passes, FilesHeld
<1>7. QED  BY <1>2, <1>3, <1>4, <1>5, <1>6

(* So do all the steps of handlers and timers.                             *)
LEMMA Visiting ==
  ASSUME IInv, Visit
  PROVE  SessionInv'
<1> USE DEF IInv, SessionInv
<1>1. PICK s \in Session : Handlers(s) \/ Clock(s)
  BY DEF Visit
<1>2. UNCHANGED <<pc, op, told, db, crashes>>
  BY DEF Visit, counts
<1>3. /\ at \in [Session -> Stages] /\ tries \in [Session -> 0 .. MaxAttempts]
      /\ late \subseteq Session /\ files \subseteq Session
      /\ \A x \in Session : /\ at[x] \in Stages /\ tries[x] \in 0 .. MaxAttempts
                            /\ at[x] \in {"new"} \cup Busy => tries[x] < MaxAttempts
                            /\ at[x] \in Busy => x \in files
  BY DEF SessionTypes, SessionsOK, SessionFacts
<1>4. ASSUME holds' = holds, tries' = tries, late' \subseteq Session,
             NEW stage \in Stages, at' = [at EXCEPT ![s] = stage],
             at[s] # "executing", stage # "executing", at[s] # "over",
             \/ files' = files /\ stage \notin {"new", "over"} /\ at[s] \in Busy
             \/ files' = files \ {s} /\ stage = "over"
      PROVE  Passes
  <2>1. /\ at'[s] = stage
        /\ \A x \in Session : x # s => at'[x] = at[x]
    BY <1>3, <1>4
  <2>2. at' \in [Session -> Stages]
    BY <1>3, <1>4
  <2>3. stage \in Busy => stage = at[s] \/ at[s] \in Busy
    BY <1>4 DEF Busy
  <2>4. (\A x \in files : at[x] \notin {"new", "over"})
        => \A x \in files' : at'[x] \notin {"new", "over"}
    <3> SUFFICES ASSUME \A x \in files : at[x] \notin {"new", "over"}, NEW x \in files'
                 PROVE  at'[x] \notin {"new", "over"}
      OBVIOUS
    <3>1. x \in files /\ x \in Session
      BY <1>3, <1>4
    <3>2. CASE x = s
      BY <1>4, <2>1, <3>1, <3>2 DEF Busy
    <3>3. CASE x # s
      BY <2>1, <3>1, <3>3
    <3>4. QED  BY <3>2, <3>3
  <2>5. QED  BY <1>2, <1>3, <1>4, <2>1, <2>2, <2>3, <2>4 DEF Passes, Busy
<1>5. CASE Upload(s)
  <2>1. PICK gone \in SUBSET Session :
          /\ at[s] = "new" /\ \A x \in gone : x # s => at[x] \in {"sending", "offered", "verified"}
          /\ at' = [x \in Session |-> IF x \in gone THEN "over"
                                      ELSE IF x = s THEN "sending" ELSE at[x]]
          /\ files' = (files \cup {s}) \ gone
          /\ UNCHANGED <<holds, tries, late>>
    <3>1. Expired \subseteq Session /\ \A x \in Expired : at[x] \in {"sending", "offered", "verified"}
      BY <1>3 DEF Expired, Unconsumed
    <3>2. Expired \in SUBSET Session /\ Expired \cup {s} \in SUBSET Session
      BY <3>1
    <3>3. QED  BY <1>5, <3>1, <3>2 DEF Upload
  <2>2. \A x \in Session : at'[x] = IF x \in gone THEN "over"
                                    ELSE IF x = s THEN "sending" ELSE at[x]
    BY <2>1
  <2>3. at' \in [Session -> Stages]
    BY <2>1, <1>3 DEF Stages
  <2>4. (\A x \in files : at[x] \notin {"new", "over"})
        => \A x \in files' : at'[x] \notin {"new", "over"}
    BY <1>3, <2>1, <2>2
  <2>5. Passes
    BY <1>2, <1>3, <2>1, <2>2, <2>3, <2>4 DEF Passes, Busy
  <2>6. QED  BY <2>5, Passing
<1>6. CASE Offer(s)
  BY <1>3, <1>4, <1>6, Passing DEF Offer, To, Stages, Busy
<1>7. CASE Withdraw(s)
  BY <1>3, <1>4, <1>7, Passing DEF Withdraw, To, RemoveFiles, Stages, Busy
<1>8. CASE Verify(s)
  BY <1>3, <1>4, <1>8, Passing DEF Verify, To, Stages, Busy
<1>9. CASE Guess(s)
  <2>1. /\ at[s] \in {"offered", "verified"} /\ tries' = [tries EXCEPT ![s] = @ + 1]
        /\ IF tries'[s] = MaxAttempts THEN at' = [at EXCEPT ![s] = "ending"] ELSE at' = at
        /\ UNCHANGED <<holds, late, files>>
    BY <1>9 DEF Guess, Exhausted, To
  <2>2. tries'[s] = tries[s] + 1 /\ \A x \in Session : x # s => tries'[x] = tries[x]
    BY <1>3, <2>1
  <2>3. tries[s] < MaxAttempts /\ tries[s] \in 0 .. MaxAttempts /\ MaxAttempts \in Nat
    BY <1>3, <2>1 DEF Busy
  <2>4. tries' \in [Session -> 0 .. MaxAttempts]
    <3>1. tries[s] + 1 \in 0 .. MaxAttempts  BY <2>3
    <3>2. QED  BY <1>3, <2>1, <3>1
  <2>5. tries'[s] = MaxAttempts \/ tries'[s] < MaxAttempts
    BY <2>2, <2>3
  <2>6. /\ at'[s] = (IF tries'[s] = MaxAttempts THEN "ending" ELSE at[s])
        /\ \A x \in Session : x # s => at'[x] = at[x]
        /\ at' \in [Session -> Stages]
    BY <1>3, <2>1 DEF Stages
  <2>7. (\A x \in files : at[x] \notin {"new", "over"})
        => \A x \in files' : at'[x] \notin {"new", "over"}
    BY <1>3, <2>1, <2>6
  <2>8. Passes
    BY <1>2, <1>3, <2>1, <2>2, <2>4, <2>5, <2>6, <2>7 DEF Passes, Busy
  <2>9. QED  BY <2>8, Passing
<1>10. CASE PassTime(s)
  <2>1. at' = [at EXCEPT ![s] = at[s]]
    BY <1>3, <1>10 DEF PassTime
  <2>2. Passes
    BY <1>2, <1>3, <1>10 DEF PassTime, Passes, Busy
  <2>3. QED  BY <2>2, Passing
<1>11. CASE Lapse(s)
  BY <1>3, <1>4, <1>11, Passing DEF Lapse, Unconsumed, To, Stages, Busy
<1>12. CASE Drop(s)
  BY <1>3, <1>4, <1>12, Passing DEF Drop, To, RemoveFiles, Stages, Busy
<1>13. QED
  BY <1>1, <1>5, <1>6, <1>7, <1>8, <1>9, <1>10, <1>11, <1>12 DEF Handlers, Clock

(* The user's other requests leave the sessions alone.                       *)
LEMMA UserSteps ==
  ASSUME IInv, User
  PROVE  /\ SessionInv' /\ pc \in {"serving", "preflight"}
         /\ UNCHANGED <<pc, op, told, holds, marker, embedded, journal, fresh, kept>>
         /\ db'.merged = db.merged /\ db'.ledger = db.ledger
<1>1. /\ pc \in {"serving", "preflight"}
      /\ UNCHANGED <<sessions, pc, op, told, crashes, marker, embedded, journal, fresh, kept>>
  BY DEF User, Writable, Elsewhere, artifacts, counts
<1>2. db'.merged = db.merged /\ db'.ledger = db.ledger
  <2>1. db = [accounts |-> db.accounts, categories |-> db.categories, txns |-> db.txns, rows |-> db.rows,
        moved |-> db.moved, queue |-> db.queue, ledger |-> db.ledger, merged |-> db.merged]
    BY DEF IInv, TablesInv, Shape
  <2>2. ASSUME NEW a, CloseAccount(a)
        PROVE  db'.merged = db.merged /\ db'.ledger = db.ledger
    BY <2>1, <2>2 DEF CloseAccount
  <2>3. ASSUME NEW a, DeleteAttachment(a) \/ MoveAttachment(a)
        PROVE  db'.merged = db.merged /\ db'.ledger = db.ledger
    BY <2>1, <2>3 DEF DeleteAttachment, MoveAttachment
  <2>4. ASSUME NEW a, DeleteObject(a) \/ CompleteDeletion(a)
        PROVE  db'.merged = db.merged /\ db'.ledger = db.ledger
    BY <2>1, <2>4 DEF DeleteObject, CompleteDeletion
  <2>5. QED  BY <2>2, <2>3, <2>4 DEF User
<1>3. QED  BY <1>1, <1>2, SessionsRest DEF sessions

(* Every step keeps what holds of sessions.                                *)
LEMMA SessionsKept ==
  ASSUME IInv, [Next]_vars
  PROVE  SessionInv'
<1>1. CASE Visit  BY <1>1, Visiting
<1>2. CASE User  BY <1>2, UserSteps
<1>3. CASE \E s \in Session : Execute(s)  BY <1>3, Executing
<1>4. CASE Merge
  BY <1>4, MergeSteps, GoingOn, Answering DEF MergeMoves
<1>5. CASE Recovery  BY <1>5, RecoverySteps
<1>6. CASE Crash \/ Restart  BY <1>6, Stopping
<1>7. CASE UNCHANGED vars
  BY <1>7, SessionsRest DEF vars, counts
<1>8. QED  BY <1>1, <1>2, <1>3, <1>4, <1>5, <1>6, <1>7 DEF Next

----------------------------------------------------------------------------
(* The phase a merge or a recovery is in.                                    *)

(* What an upload holds never changes.                                     *)
LEMMA HoldsStay ==
  ASSUME IInv, [Next]_vars
  PROVE  holds' = holds
<1>1. CASE Visit
  BY <1>1 DEF Visit, Handlers, Clock, Upload, Offer, Withdraw, Verify, Guess, PassTime, Lapse, Drop
<1>2. CASE User  BY <1>2, UserSteps
<1>3. CASE \E s \in Session : Execute(s)  BY <1>3 DEF Execute, Consume
<1>4. CASE Merge
  BY <1>4, MergeSteps DEF MergeMoves, Goto, sessions, Answers, Finish, EndExecution
<1>5. CASE Recovery  BY <1>5, RecoverySteps
<1>6. CASE Crash \/ Restart  BY <1>6 DEF Crash, Restart, Stop, ForgetSessions
<1>7. CASE UNCHANGED vars  BY <1>7 DEF vars, sessions
<1>8. QED  BY <1>1, <1>2, <1>3, <1>4, <1>5, <1>6, <1>7 DEF Next

(* Nor does what a merge takes from it, while its session is the one.      *)
LEMMA TakenStays ==
  ASSUME holds' = holds, op' = op, db'.moved = db.moved
  PROVE  Taken' = Taken
BY DEF Taken, Backed

(* Nor whether what it imports is valid, while the database is the same.   *)
LEMMA ValidStays ==
  ASSUME holds' = holds, op' = op, db' = db
  PROVE  Valid' = Valid
<1>1. Backed' = Backed /\ CategoriesByName' = CategoriesByName
  BY DEF Backed, CategoriesByName
<1>2. Categories' = Categories
  BY <1>1 DEF Categories
<1>3. ImportCategories' = ImportCategories
  BY <1>1, <1>2 DEF ImportCategories, ParentFixes, NewParent
<1>4. ImportTransactions' = ImportTransactions
  BY <1>1, <1>2 DEF ImportTransactions, NewTransactions
<1>5. QED  BY <1>3, <1>4 DEF Valid, CategoriesFound

(* A step to the next label of the same merge.                             *)
LEMMA GoesOn ==
  ASSUME NEW label, Goto(label), db' = db
  PROVE  pc' = label /\ op' = op /\ Taken' = Taken /\ Valid' = Valid
BY TakenStays, ValidStays DEF Goto, sessions

(* A merge whose transaction is open moves to the next step, or fails.       *)
LEMMA PhaseBeforeCommit ==
  ASSUME IInv, Preflight \/ ImportRows \/ Begin \/ Snapshot \/ Bind \/ Prepare \/ Record
               \/ RestoreFiles \/ Check
  PROVE  PhaseInv'
<1> USE DEF IInv, PhaseInv
<1>1. /\ db' = db /\ op \in Session /\ pc \in MergeLabel
      /\ marker \in {"none", "preparing", "prepared", "committed", "rolled_back"}
      /\ embedded \in BOOLEAN /\ journal \in {"none", "partial", "complete"}
      /\ fresh \cap kept = {}
  <2>1. pc \in MergeLabel
    BY DEF Preflight, ImportRows, Begin, Snapshot, Bind, Prepare, Record, RestoreFiles, Check,
           MergeLabel
  <2>2. db' = db
    BY DEF Preflight, ImportRows, Begin, Snapshot, Bind, Prepare, Record, RestoreFiles, Check
  <2>3. QED  BY <2>1, <2>2 DEF Control, ArtifactTypes
<1>2. ASSUME NEW label, Goto(label)
      PROVE  pc' = label /\ op' = op /\ Taken' = Taken /\ Valid' = Valid
  BY <1>1, <1>2, GoesOn
<1>3. ASSUME Answer("failed")
      PROVE  pc' = "serving" /\ op' = NoSession
  BY <1>3 DEF Answer, Finish
<1> USE <1>1, <1>2, <1>3
<1> USE DEF Control, ArtifactTypes, Artifacts, Steps, Decided, Deciding, MergeLabel, RecoveryLabel
<1>4. CASE Preflight  BY <1>4 DEF Preflight, artifacts
<1>5. CASE ImportRows  BY <1>5 DEF ImportRows, artifacts
<1>6. CASE Begin  BY <1>6 DEF Begin, Write, WriteFails
<1>7. CASE Snapshot  BY <1>7 DEF Snapshot, WriteManifest, Manifest
<1>8. CASE Bind
  <2>1. /\ pc = "bind" /\ marker = "preparing" /\ UNCHANGED <<objects, marker, journal, fresh, kept>>
        /\ embedded' \in BOOLEAN /\ op' = op /\ Taken' = Taken /\ pc' \in {"prepare", "resolve"}
    BY <1>8 DEF Bind
  <2>2. Steps'
    BY <2>1 DEF Manifest
  <2>3. Control' /\ ArtifactTypes' /\ Artifacts' /\ Decided'
    BY <2>1
  <2> HIDE DEF Control, ArtifactTypes, Artifacts, Steps, Decided
  <2>4. QED  BY <2>2, <2>3
<1>9. CASE Prepare  BY <1>9 DEF Prepare, Write, WriteFails, Manifest, Covered
<1>10. CASE Record  BY <1>10 DEF Record, artifacts, Covered
<1>11. CASE RestoreFiles  BY <1>11 DEF RestoreFiles, artifacts, Covered
<1>12. CASE Check  BY <1>12 DEF Check, artifacts, Covered
<1>13. QED  BY <1>4, <1>5, <1>6, <1>7, <1>8, <1>9, <1>10, <1>11, <1>12

(* The commit decides, and what comes after it cannot go back.               *)
LEMMA PhaseAfterCommit ==
  ASSUME IInv, Commit \/ EnsureDurable \/ MarkCommitted \/ UndoFiles \/ MarkRolledBack
               \/ CleanJournal \/ CleanMarker
  PROVE  PhaseInv'
<1> USE DEF IInv, PhaseInv
<1>1. /\ op \in Session /\ pc \in MergeLabel
      /\ marker \in {"none", "preparing", "prepared", "committed", "rolled_back"}
      /\ embedded \in BOOLEAN /\ journal \in {"none", "partial", "complete"}
      /\ fresh \cap kept = {}
  <2>1. pc \in MergeLabel
    BY DEF Commit, EnsureDurable, MarkCommitted, UndoFiles, MarkRolledBack, CleanJournal,
           CleanMarker, MergeLabel
  <2>2. QED  BY <2>1 DEF Control, ArtifactTypes
<1>2. ASSUME NEW label, Goto(label)
      PROVE  pc' = label /\ op' = op
  BY <1>2 DEF Goto
<1>3. ASSUME NEW answer, Answer(answer)
      PROVE  pc' = "serving" /\ op' = NoSession
  BY <1>3 DEF Answer, Finish
<1>4. ASSUME Latch
      PROVE  pc' = "latched" /\ op' = op
  BY <1>4 DEF Latch, Finish
<1>5. db.ledger \subseteq db.merged
  BY DEF FilesInv, Keeping
<1> USE <1>1, <1>2, <1>3, <1>4
<1> USE DEF Control, ArtifactTypes, Artifacts, Steps, Decided, Deciding, MergeLabel, RecoveryLabel
<1>6. CASE Commit
  <2>1. Taken # {} => op \in Imported.ledger
    BY ImportedIs
  <2>2. CASE marker = "none"
    BY <1>6, <2>2 DEF Commit, artifacts
  <2>3. CASE marker # "none"
    <3>1. pc = "commit" /\ marker = "prepared" /\ Taken # {}
      BY <1>6, <2>3 DEF Commit
    <3>2. db' = Imported => op \in db'.ledger
      BY <2>1, <3>1
    <3>3. QED  BY <1>6, <3>1, <3>2 DEF Commit, artifacts
  <2>4. QED  BY <2>2, <2>3
<1>7. CASE EnsureDurable  BY <1>7 DEF EnsureDurable, artifacts
<1>8. CASE MarkCommitted  BY <1>8 DEF MarkCommitted, Write, WriteFails
<1>9. CASE UndoFiles  BY <1>9 DEF UndoFiles, artifacts
<1>10. CASE MarkRolledBack  BY <1>10 DEF MarkRolledBack, Write, WriteFails
<1>11. CASE CleanJournal  BY <1>11 DEF CleanJournal, RemoveJournal
<1>12. CASE CleanMarker  BY <1>12 DEF CleanMarker, RemoveMarker
<1>13. QED  BY <1>6, <1>7, <1>8, <1>9, <1>10, <1>11, <1>12

(* Recovery, a crash, a restart, and what the user does.                     *)
LEMMA PhaseElsewhere ==
  ASSUME IInv, Recovery \/ Crash \/ Restart \/ User \/ Visit \/ UNCHANGED vars
               \/ \E s \in Session : Execute(s)
  PROVE  PhaseInv'
<1> USE DEF IInv, PhaseInv
<1>1. /\ marker \in {"none", "preparing", "prepared", "committed", "rolled_back"}
      /\ embedded \in BOOLEAN /\ journal \in {"none", "partial", "complete"}
      /\ fresh \cap kept = {} /\ op \in Session \cup {NoSession}
  BY DEF Control, ArtifactTypes
<1>2. ASSUME NEW label, Goto(label)
      PROVE  pc' = label /\ op' = op
  BY <1>2 DEF Goto
<1>3. db.ledger \subseteq db.merged /\ db.merged \subseteq Session
  BY DEF FilesInv, Keeping
<1> USE DEF Control, ArtifactTypes, Artifacts, Decided, Deciding, MergeLabel, RecoveryLabel
<1>4. CASE Start  BY <1>1, <1>2, <1>4 DEF Start, artifacts, Steps
<1>5. CASE Decide
  BY <1>1, <1>2, <1>3, <1>5 DEF Decide, Found, Recorded, Write, Steps
<1>6. CASE Replay  BY <1>1, <1>2, <1>6 DEF Replay, artifacts, Steps
<1>7. CASE Settle  BY <1>1, <1>2, <1>7 DEF Settle, Write, Steps
<1>8. CASE Sweep
  <2>1. /\ pc = "sweep" /\ marker \in {"preparing", "rolled_back", "committed"} /\ op' = op /\ db' = db
    BY <1>2, <1>8 DEF Sweep, Steps
  <2>2. CASE RemoveJournal /\ Goto("sweep") /\ UNCHANGED <<marker, embedded>>
    BY <1>1, <1>2, <2>1, <2>2 DEF RemoveJournal, Steps
  <2>3. CASE /\ journal = "none" /\ RemoveMarker /\ Goto("decide")
             /\ UNCHANGED <<journal, fresh, kept>>
    <3>1. /\ marker' = "none" /\ embedded' = FALSE /\ journal' = "none" /\ fresh' = {} /\ kept' = {}
          /\ pc' = "decide"
      BY <1>2, <2>3 DEF RemoveMarker
    <3>2. Steps'
      BY <3>1 DEF Steps
    <3>3. Control' /\ ArtifactTypes'
      BY <1>1, <2>1, <3>1
    <3>4. Artifacts' /\ Decided'
      BY <3>1
    <3> HIDE DEF Control, ArtifactTypes, Artifacts, Decided
    <3>5. QED  BY <3>2, <3>3, <3>4
  <2> HIDE DEF PhaseInv
  <2>4. QED  BY <1>8, <2>2, <2>3 DEF Sweep
<1>9. CASE Crash \/ Restart
  <2>1. /\ pc' = "down" /\ op' = (IF marker = "none" THEN NoSession ELSE op) /\ db' = db
        /\ UNCHANGED artifacts
    BY <1>9 DEF Crash, Restart, Stop
  <2>2. QED  BY <1>1, <1>3, <2>1 DEF artifacts, Steps
<1>10. CASE User
  <2>1. pc \in {"serving", "preflight"} /\ db'.merged = db.merged /\ db'.ledger = db.ledger
        /\ UNCHANGED <<pc, op, marker, embedded, journal, fresh, kept>>
    BY <1>10, UserSteps
  <2>2. QED  BY <1>1, <2>1 DEF Steps
<1>11. CASE Visit \/ UNCHANGED vars
  <2>1. UNCHANGED <<pc, op, db, objects, marker, embedded, journal, fresh, kept>>
    BY <1>11 DEF Visit, vars, artifacts
  <2>2. Taken' = Taken /\ Valid' = Valid
    BY <1>11, <2>1, HoldsStay, TakenStays, ValidStays DEF Next
  <2>3. Steps'
    BY <2>1, <2>2 DEF Steps, Manifest, Covered
  <2>4. QED  BY <1>1, <2>1, <2>3
<1>12. CASE \E s \in Session : Execute(s)
  <2>1. PICK s \in Session : Execute(s)
    BY <1>12
  <2>2. /\ pc = "serving" /\ pc' = "preflight" /\ op' = s /\ db' = db /\ UNCHANGED artifacts
        /\ at[s] = "verified"
    BY <2>1 DEF Execute, Consume
  <2>3. s \notin db.merged
    BY <2>2 DEF SessionInv, SessionFacts
  <2>4. QED  BY <1>1, <2>2, <2>3, NoSessionIsNone DEF artifacts, Steps
<1>13. QED
  BY <1>4, <1>5, <1>6, <1>7, <1>8, <1>9, <1>10, <1>11, <1>12 DEF Recovery

(* Every step keeps what holds of markers, journals and phases.            *)
LEMMA PhaseKept ==
  ASSUME IInv, [Next]_vars
  PROVE  PhaseInv'
BY PhaseBeforeCommit, PhaseAfterCommit, PhaseElsewhere DEF Next, Merge

----------------------------------------------------------------------------
(* Rows and objects.                                                         *)

(* When the marker does not ask for the manifest, rows and objects agree.    *)
LEMMA ObjectsSettled ==
  ASSUME IInv, marker # "prepared" \/ op \in db.ledger \/ pc \in {"resolve", "settle", "record"}
  PROVE  Settled(objects)
<1> USE DEF IInv, FilesInv, PhaseInv
<1>1. CASE pc = "record"
  <2>1. marker = "prepared" /\ Manifest
    BY <1>1 DEF Steps
  <2>2. Reverted = objects
    BY <2>1 DEF Manifest, Reverted
  <2>3. QED  BY <2>2 DEF FilesSettled
<1>2. CASE pc # "record"
  BY <1>2 DEF FilesSettled
<1>3. QED  BY <1>1, <1>2

(* A step that leaves rows and objects alone.                                *)
LEMMA FilesStand ==
  ASSUME IInv, db' = db, objects' = objects,
         \/ UNCHANGED <<marker, op, fresh, kept>> /\ pc' \notin {"resolve", "settle"}
         \/ UNCHANGED <<marker, op, fresh, kept>> /\ Settled(objects)
         \/ (marker' # "prepared" \/ op' \in db.ledger) /\ Settled(objects)
         \/ fresh' \cap objects = {} /\ kept' \subseteq objects /\ Settled(objects)
  PROVE  FilesInv'
<1> USE DEF IInv, FilesInv
<1>1. Keeping' /\ (db.rows \cap db.queue = {})'
  BY DEF Keeping, FilesSettled
<1>2. CASE UNCHANGED <<marker, op, fresh, kept>> /\ pc' \notin {"resolve", "settle"}
  BY <1>1, <1>2 DEF FilesSettled, Settled, Reverted
<1>3. CASE UNCHANGED <<marker, op, fresh, kept>> /\ Settled(objects)
  BY <1>1, <1>3 DEF FilesSettled, Settled, Reverted
<1>4. CASE (marker' # "prepared" \/ op' \in db.ledger) /\ Settled(objects)
  BY <1>1, <1>4 DEF FilesSettled, Settled
<1>5. CASE fresh' \cap objects = {} /\ kept' \subseteq objects /\ Settled(objects)
  <2>1. Reverted' = objects /\ Settled(objects)'
    BY <1>5 DEF Reverted, Settled
  <2>2. Settled(Reverted)'
    BY <1>5, <2>1 DEF Settled
  <2>3. QED  BY <1>1, <1>5, <2>1, <2>2 DEF FilesSettled
<1>6. QED  BY <1>2, <1>3, <1>4, <1>5

(* Steps of a merge that touch neither rows nor objects.                   *)
LEMMA FilesInMerge ==
  ASSUME IInv, Preflight \/ ImportRows \/ Begin \/ Snapshot \/ Bind \/ Prepare \/ Record
               \/ Check \/ EnsureDurable \/ MarkCommitted \/ MarkRolledBack \/ CleanJournal
               \/ CleanMarker
  PROVE  FilesInv'
<1>1. Steps
  BY DEF IInv, PhaseInv
<1>2. db' = db /\ objects' = objects
  BY DEF Preflight, ImportRows, Begin, Snapshot, Bind, Prepare, Record, Check, EnsureDurable,
         MarkCommitted, MarkRolledBack, CleanJournal, CleanMarker
<1>3. ASSUME NEW label, Goto(label)  PROVE pc' = label /\ op' = op
  BY <1>3 DEF Goto
<1>4. ASSUME Latch  PROVE pc' = "latched" /\ op' = op
  BY <1>4 DEF Latch, Finish
<1>5. CASE Preflight
  BY <1>1, <1>2, <1>5, ObjectsSettled, FilesStand DEF Preflight, artifacts, Steps
<1>6. CASE ImportRows
  BY <1>1, <1>2, <1>6, ObjectsSettled, FilesStand DEF ImportRows, artifacts, Steps
<1>7. CASE Begin
  BY <1>1, <1>2, <1>7, ObjectsSettled, FilesStand DEF Begin, Write, WriteFails, Steps
<1>8. CASE Snapshot
  BY <1>1, <1>2, <1>8, ObjectsSettled, FilesStand DEF Snapshot, Steps
<1>9. CASE Bind
  BY <1>1, <1>2, <1>9, ObjectsSettled, FilesStand DEF Bind, Steps
<1>10. CASE Prepare
  <2>1. marker = "preparing" /\ Manifest /\ fresh' = fresh /\ kept' = kept
    BY <1>1, <1>10 DEF Prepare, Steps
  <2>2. fresh' \cap objects = {} /\ kept' \subseteq objects
    BY <2>1 DEF Manifest
  <2>3. QED  BY <1>2, <2>1, <2>2, ObjectsSettled, FilesStand
<1>11. CASE Record
  BY <1>2, <1>3, <1>11, ObjectsSettled, FilesStand DEF Record, artifacts
<1>12. CASE Check
  <2>1. CASE Answer("failed") /\ marker = "none"
    BY <1>2, <1>12, <2>1, ObjectsSettled, FilesStand DEF Check, artifacts
  <2>2. CASE Goto("commit") \/ Goto("undo")
    BY <1>2, <1>3, <1>12, <2>2, FilesStand DEF Check, artifacts
  <2>3. QED  BY <1>12, <2>1, <2>2 DEF Check
<1>13. CASE EnsureDurable
  BY <1>2, <1>3, <1>4, <1>13, FilesStand DEF EnsureDurable, artifacts
<1>14. CASE MarkCommitted
  <2>1. op \in db.ledger /\ op' = op
    BY <1>1, <1>3, <1>4, <1>14 DEF MarkCommitted, Steps
  <2>2. QED  BY <1>2, <2>1, ObjectsSettled, FilesStand
<1>15. CASE MarkRolledBack
  <2>1. pc = "resolve" /\ fresh' = fresh /\ kept' = kept /\ op' = op
        /\ (marker' = marker \/ marker' = "rolled_back")
    BY <1>3, <1>4, <1>15 DEF MarkRolledBack, Write, WriteFails
  <2>2. QED  BY <1>2, <2>1, ObjectsSettled, FilesStand
<1>16. CASE CleanJournal
  BY <1>1, <1>2, <1>16, ObjectsSettled, FilesStand DEF CleanJournal, Steps
<1>17. CASE CleanMarker
  BY <1>1, <1>2, <1>17, ObjectsSettled, FilesStand DEF CleanMarker, RemoveMarker, Steps
<1>18. QED
  BY <1>5, <1>6, <1>7, <1>8, <1>9, <1>10, <1>11, <1>12, <1>13, <1>14, <1>15, <1>16, <1>17

(* Objects are overwritten, and put back: what would be put back stays the   *)
(* same.                                                                     *)
LEMMA FilesMove ==
  ASSUME IInv, RestoreFiles \/ UndoFiles \/ Replay
  PROVE  FilesInv'
<1> USE DEF IInv, FilesInv, PhaseInv
<1>1. /\ marker = "prepared" /\ op \notin db.ledger /\ Settled(Reverted) /\ kept \subseteq objects
      /\ fresh \cap kept = {} /\ db.rows \cap db.queue = {}
  <2>1. marker = "prepared" /\ op \notin db.ledger
    BY DEF RestoreFiles, UndoFiles, Replay, Steps, Decided, Deciding, Keeping
  <2>2. QED  BY <2>1 DEF FilesSettled, ArtifactTypes
<1>2. db' = db /\ UNCHANGED <<marker, fresh, kept, op>>
  BY DEF RestoreFiles, UndoFiles, Replay, artifacts, Goto, Latch, Finish
<1>3. Reverted' = Reverted /\ kept \subseteq objects'
  <2>1. CASE objects' = objects
    BY <1>1, <1>2, <2>1 DEF Reverted
  <2>2. CASE \E a \in Taken \ objects : objects' = objects \cup {a} /\ Covered
    BY <1>1, <1>2, <2>2 DEF Reverted, Covered
  <2>3. CASE objects' = Reverted
    BY <1>1, <1>2, <2>3 DEF Reverted
  <2>4. CASE objects' \in PartlyReverted
    BY <1>1, <1>2, <2>4 DEF Reverted, PartlyReverted
  <2>5. QED  BY <2>1, <2>2, <2>3, <2>4 DEF RestoreFiles, UndoFiles, Replay, Steps
<1>4. pc' \in {"resolve", "settle"} => objects' = Reverted
  BY DEF RestoreFiles, UndoFiles, Replay, Goto, Latch, Finish
<1>5. Keeping'
  BY <1>2 DEF Keeping
<1>6. Settled(Reverted)' /\ (pc' \in {"resolve", "settle"} => Settled(objects)')
  BY <1>1, <1>2, <1>3, <1>4 DEF Settled
<1>7. QED  BY <1>1, <1>2, <1>3, <1>5, <1>6 DEF FilesSettled

(* The transaction commits: its attachments have their objects, and no       *)
(* tombstone.                                                                *)
LEMMA FilesCommit ==
  ASSUME IInv, Commit
  PROVE  FilesInv'
<1> USE DEF IInv, FilesInv, PhaseInv
<1>1. /\ objects' = objects /\ UNCHANGED <<marker, fresh, kept>> /\ pc = "commit"
      /\ pc' \notin {"resolve", "settle"} /\ op \in Session
      /\ op' = op \/ marker = "none"
  BY DEF Commit, artifacts, Goto, Latch, Answer, Finish, Control, MergeLabel
<1>2. \/ marker = "none" /\ Taken = {}
      \/ marker = "prepared" /\ Taken # {} /\ Taken \subseteq objects /\ Covered
  BY <1>1 DEF Steps
<1>3. op \notin db.merged /\ op \notin db.ledger
  BY <1>1 DEF Decided, Deciding, Keeping
<1>4. CASE db' = db /\ op' = op
  BY <1>1, <1>4, FilesStand
<1>5. CASE db' = Imported
  <2>1. /\ db'.rows = db.rows \cup Taken /\ db'.queue = db.queue \ Taken
        /\ db'.moved = db.moved /\ db'.merged = db.merged \cup {op}
        /\ db'.ledger = IF Taken = {} THEN db.ledger ELSE db.ledger \cup {op}
    BY <1>5, ImportedIs
  <2>2. Keeping'
    BY <1>1, <2>1 DEF Keeping
  <2>3. db'.rows \cap db'.queue = {}
    BY <2>1 DEF FilesSettled
  <2>4. db'.rows \subseteq objects /\ objects \subseteq db'.rows \cup db'.queue
    <3>1. CASE Taken = {}
      <4>1. Settled(objects)
        BY <1>2, <3>1, ObjectsSettled
      <4>2. QED  BY <2>1, <3>1, <4>1 DEF Settled
    <3>2. CASE Taken # {}
      <4>1. Settled(Reverted) /\ kept \subseteq objects /\ Taken \subseteq objects /\ Covered
        BY <1>2, <1>3, <3>2 DEF FilesSettled
      <4>2. QED  BY <2>1, <4>1 DEF Settled, Reverted, Covered
    <3>3. QED  BY <3>1, <3>2
  <2>5. marker' # "prepared" \/ op' \in db'.ledger
    BY <1>1, <1>2, <2>1
  <2>6. QED  BY <1>1, <2>2, <2>3, <2>4, <2>5 DEF FilesSettled, Settled
<1>6. QED  BY <1>4, <1>5 DEF Commit, Latch

(* What the user deletes goes by way of the queue.                           *)
LEMMA FilesOfUser ==
  ASSUME IInv, User
  PROVE  FilesInv'
<1> USE DEF IInv, FilesInv, PhaseInv, TablesInv
<1>1. /\ pc \in {"serving", "preflight"} /\ UNCHANGED <<pc, op, marker, embedded, journal, fresh, kept>>
      /\ db'.merged = db.merged /\ db'.ledger = db.ledger
  BY UserSteps
<1>2. marker = "none"
  BY <1>1 DEF Steps
<1>3. /\ db.rows \subseteq objects /\ objects \subseteq db.rows \cup db.queue
      /\ db.rows \cap db.queue = {} /\ db.moved \subseteq db.rows
  BY <1>2 DEF FilesSettled, Settled, Keeping
<1>4. ASSUME /\ db'.rows \subseteq objects' /\ objects' \subseteq db'.rows \cup db'.queue
             /\ db'.rows \cap db'.queue = {} /\ db'.moved \subseteq db'.rows
      PROVE  FilesInv'
  BY <1>1, <1>2, <1>4 DEF FilesSettled, Settled, Keeping
<1>5. db = [accounts |-> db.accounts, categories |-> db.categories, txns |-> db.txns, rows |-> db.rows,
        moved |-> db.moved, queue |-> db.queue, ledger |-> db.ledger, merged |-> db.merged]
  BY DEF Shape
<1>6. ASSUME NEW a, CloseAccount(a)  PROVE FilesInv'
  <2>1. db'.rows = db.rows /\ db'.queue = db.queue /\ db'.moved = db.moved /\ objects' = objects
    BY <1>5, <1>6 DEF CloseAccount
  <2>2. QED  BY <1>3, <1>4, <2>1
<1>7. ASSUME NEW a, DeleteAttachment(a)  PROVE FilesInv'
  <2>1. /\ db'.rows = db.rows \ {a} /\ db'.queue = db.queue \cup {a} /\ db'.moved = db.moved \ {a}
        /\ objects' = objects
    BY <1>5, <1>7 DEF DeleteAttachment
  <2>2. QED  BY <1>3, <1>4, <2>1
<1>8. ASSUME NEW a, MoveAttachment(a)  PROVE FilesInv'
  <2>1. /\ db'.rows = db.rows /\ db'.queue = db.queue /\ db'.moved = db.moved \cup {a}
        /\ objects' = objects /\ a \in db.rows
    BY <1>5, <1>8 DEF MoveAttachment
  <2>2. QED  BY <1>3, <1>4, <2>1
<1>9. ASSUME NEW a, DeleteObject(a)  PROVE FilesInv'
  <2>1. db' = db /\ objects' = objects \ {a} /\ a \in db.queue
    BY <1>9 DEF DeleteObject
  <2>2. QED  BY <1>3, <1>4, <2>1
<1>10. ASSUME NEW a, CompleteDeletion(a)  PROVE FilesInv'
  <2>1. /\ db'.rows = db.rows /\ db'.queue = db.queue \ {a} /\ db'.moved = db.moved
        /\ objects' = objects /\ a \notin objects
    BY <1>5, <1>10 DEF CompleteDeletion
  <2>2. QED  BY <1>3, <1>4, <2>1
<1>11. QED
  BY <1>6, <1>7, <1>8, <1>9, <1>10 DEF User

(* Every step keeps rows and objects in agreement.                         *)
LEMMA FilesKept ==
  ASSUME IInv, [Next]_vars
  PROVE  FilesInv'
<1>1. Steps
  BY DEF IInv, PhaseInv
<1>2. CASE Visit
  <2>1. UNCHANGED <<pc, op, db, objects, marker, fresh, kept>>
    BY <1>2 DEF Visit, artifacts
  <2>2. pc \in {"resolve", "settle"} => Settled(objects)
    BY DEF IInv, FilesInv, FilesSettled
  <2>3. QED  BY <2>1, <2>2, FilesStand
<1>3. CASE User  BY <1>3, FilesOfUser
<1>4. CASE \E s \in Session : Execute(s)
  BY <1>1, <1>4, ObjectsSettled, FilesStand DEF Execute, artifacts, Steps
<1>5. CASE Merge
  BY <1>5, FilesInMerge, FilesMove, FilesCommit DEF Merge
<1>6. CASE Recovery
  <2>1. CASE Start  BY <2>1, FilesStand DEF Start, artifacts, Goto
  <2>2. CASE Decide
    <3>1. /\ db' = db /\ objects' = objects /\ fresh' = fresh /\ kept' = kept
          /\ pc' \notin {"resolve", "settle"}
      BY <2>2 DEF Decide, Goto
    <3>2. \/ marker = "none" /\ marker' = "none"
          \/ op' = op /\ marker' = marker
          \/ op' = op /\ op \in db.ledger
      BY <2>2 DEF Decide, Found, Recorded, Goto
    <3>3. QED  BY <3>1, <3>2, ObjectsSettled, FilesStand
  <2>3. CASE Replay  BY <2>3, FilesMove
  <2>4. CASE Settle
    BY <2>4, ObjectsSettled, FilesStand DEF Settle, Write
  <2>5. CASE Sweep
    BY <1>1, <2>5, ObjectsSettled, FilesStand DEF Sweep, RemoveMarker, Steps
  <2>6. QED  BY <1>6, <2>1, <2>2, <2>3, <2>4, <2>5 DEF Recovery
<1>7. CASE Crash \/ Restart
  <2>1. /\ pc' = "down" /\ op' = (IF marker = "none" THEN NoSession ELSE op) /\ db' = db
        /\ objects' = objects /\ UNCHANGED artifacts
    BY <1>7 DEF Crash, Restart, Stop
  <2>2. QED  BY <2>1, ObjectsSettled, FilesStand DEF artifacts
<1>8. CASE UNCHANGED vars
  <2>1. UNCHANGED <<pc, op, db, objects, marker, fresh, kept>>
    BY <1>8 DEF vars, artifacts
  <2>2. pc \in {"resolve", "settle"} => Settled(objects)
    BY DEF IInv, FilesInv, FilesSettled
  <2>3. QED  BY <2>1, <2>2, FilesStand
<1>9. QED  BY <1>2, <1>3, <1>4, <1>5, <1>6, <1>7, <1>8 DEF Next

----------------------------------------------------------------------------
(* The tables.                                                               *)

(* The backup that is merged is one of Backup, and what its keys say.        *)
LEMMA BackupIs ==
  ASSUME IInv, op \in Session
  PROVE  /\ DOMAIN Backed.accounts = 1 .. Len(Backed.accounts) /\ Len(Backed.accounts) \in Nat
         /\ \A i \in DOMAIN Backed.accounts : Backed.accounts[i].name \in AccountName
         /\ DOMAIN Backed.categories = 1 .. Len(Backed.categories) /\ Len(Backed.categories) \in Nat
         /\ \A i \in DOMAIN Backed.categories : Backed.categories[i].name \in Word
         /\ Apart(Backed.categories)
         /\ \A i \in DOMAIN Backed.categories : Backed.categories[i].id \notin DOMAIN HomeCategories
         /\ \A t \in Backed.txns :
              /\ t = [id |-> t.id, on |-> t.on, category |-> t.category]
              /\ \E i \in DOMAIN Backed.categories : Backed.categories[i].id = t.category
<1>1. Backed \in Backup
  BY DEF IInv, SessionInv, SessionTypes, SessionsOK, Backed
<1> DEFINE b == Backed
<1> HIDE DEF b
<1>2. b \in Backup
  BY <1>1 DEF b
<1>3. /\ b.accounts \in Seq(ToSet(b.accounts)) /\ b.categories \in Seq(ToSet(b.categories))
      /\ \A i \in DOMAIN b.accounts : b.accounts[i].name \in AccountName
      /\ \A i \in DOMAIN b.categories : b.categories[i].name \in Word
      /\ \A i, j \in DOMAIN b.categories :
           \/ b.categories[i].id = b.categories[j].id
           \/ Lower[b.categories[i].name] = Lower[b.categories[j].name]
           => i = j
      /\ \A c \in ToSet(b.categories) : c.id \notin DOMAIN HomeCategories
      /\ \A t \in b.txns : /\ t = [id |-> t.id, on |-> t.on, category |-> t.category]
                           /\ \E c \in ToSet(b.categories) : c.id = t.category
  BY <1>2, BackupsAreDatabases DEF Table
<1>4. /\ DOMAIN b.accounts = 1 .. Len(b.accounts) /\ Len(b.accounts) \in Nat
      /\ DOMAIN b.categories = 1 .. Len(b.categories) /\ Len(b.categories) \in Nat
  BY <1>3, LenProperties
<1>5. Apart(b.categories)
  BY <1>3 DEF Apart
<1>6. /\ \A i \in DOMAIN b.categories : b.categories[i].id \notin DOMAIN HomeCategories
      /\ \A t \in b.txns :
              /\ t = [id |-> t.id, on |-> t.on, category |-> t.category]
              /\ \E i \in DOMAIN b.categories : b.categories[i].id = t.category
  BY <1>3 DEF ToSet
<1>7. QED  BY <1>3, <1>4, <1>5, <1>6 DEF b

(* The names the user's accounts have are finitely many.                     *)
LEMMA AccountNamesAreFinite ==
  ASSUME IsFiniteSet(DOMAIN db.accounts)
  PROVE  IsFiniteSet(AccountNames)
<1> DEFINE f == [i \in DOMAIN db.accounts |-> SqlSmall(db.accounts[i].name)]
<1>1. AccountNames = {f[i] : i \in DOMAIN db.accounts}
  BY DEF AccountNames
<1>2. f \in [DOMAIN db.accounts -> AccountNames]
  BY <1>1
<1> HIDE DEF f
<1>3. f \in Surjection(DOMAIN db.accounts, AccountNames)
  BY <1>1, <1>2 DEF Surjection
<1>4. QED  BY <1>3, FS_Surjection

(* Merged accounts join the others under names of their own.                 *)
LEMMA AccountsImported ==
  ASSUME IInv, op \in Session
  PROVE  /\ Accountlike(ImportAccounts) /\ AgreedDiffer(ImportAccounts)
         /\ Extends(ImportAccounts, db.accounts)
         /\ IsFiniteSet(DOMAIN ImportAccounts)
<1> DEFINE base == [table |-> db.accounts, names |-> AccountNames]
           seq == Backed.accounts
           end == FoldLeft(ImportAccount, base, seq)
<1>1. /\ DOMAIN seq = 1 .. Len(seq) /\ Len(seq) \in Nat
      /\ \A i \in DOMAIN seq : seq[i].name \in AccountName
  BY BackupIs
<1>2. base.table = db.accounts /\ base.names = AccountNames
  OBVIOUS
<1>3. AccountsApart /\ IsFiniteSet(AccountNames)
  BY AccountNamesAreFinite DEF IInv, TablesInv, Tables, AccountsApart
<1>4. AccountsGood(base, base.table)
  <2> HIDE DEF base
  <2>1. QED  BY <1>2, <1>3 DEF AccountsGood, AccountsApart, NamedBy, Extends, AccountNames
<1>5. AccountsGood(end, base.table)
  <2> HIDE DEF base, seq
  <2>1. QED  BY <1>1, <1>4, AccountsLoop
<1>6. ImportAccounts = end.table
  BY DEF ImportAccounts
<1> HIDE DEF end
<1>7. QED  BY <1>2, <1>5, <1>6 DEF AccountsGood

\* The pairs a merge may draw from.
Drawn == Pairs(holds, db.merged \cup {op})

(* Names drawn before can be drawn, and those of the backup.               *)
LEMMA DrawnAre ==
  /\ Pairs(holds, db.merged) \subseteq Drawn
  /\ \A i \in DOMAIN Backed.categories :
       <<Backed.categories[i].id, Lower[Backed.categories[i].name]>> \in Drawn
<1>1. Pairs(holds, db.merged) \subseteq Drawn
  BY DEF Drawn, Pairs
<1>2. \A i \in DOMAIN Backed.categories : Backed.categories[i] \in ToSet(holds[op].categories)
  BY DEF Backed, ToSet
<1>3. QED  BY <1>1, <1>2 DEF Drawn, Pairs

(* What the loop over the categories of the backup has made.               *)
LEMMA CategoriesOfLoop ==
  ASSUME IInv, op \in Session
  PROVE  CategoriesGood(Categories, db.categories, Backed.categories,
                        DOMAIN Backed.categories, Drawn)
<1> DEFINE base == [table |-> db.categories, named |-> CategoriesByName, of |-> <<>>]
           seq == Backed.categories
<1>1. /\ DOMAIN seq = 1 .. Len(seq) /\ Len(seq) \in Nat /\ Apart(seq)
      /\ \A i \in DOMAIN seq : seq[i].name \in Word
  BY BackupIs
<1>2. /\ base.table = db.categories /\ base.named = CategoriesByName
      /\ base = [table |-> base.table, named |-> base.named, of |-> base.of]
  OBVIOUS
<1>3. CategoriesApart
  BY DEF IInv, TablesInv, Tables
<1>4. Origin(db.categories, Drawn)
  BY <1>3, DrawnAre DEF CategoriesApart, Origin
<1>5. \A n \in DOMAIN CategoriesByName :
        /\ CategoriesByName[n] \in DOMAIN db.categories
        /\ Lower[db.categories[CategoriesByName[n]].name] = Lower[n]
  <2>1. \A n \in DOMAIN CategoriesByName :
          /\ CategoriesByName[n] \in DOMAIN db.categories
          /\ SqlLower[db.categories[CategoriesByName[n]].name] = n
    BY DEF CategoriesByName
  <2>2. \A i \in DOMAIN db.categories : db.categories[i].name \in Word
    BY <1>3 DEF CategoriesApart, Rowlike
  <2>3. QED  BY <2>1, <2>2, LowerCases
<1>6. CategoriesGood(base, base.table, seq, {}, Drawn)
  <2> HIDE DEF base, seq
  <2>1. QED  BY <1>2, <1>3, <1>4, <1>5 DEF CategoriesGood, CategoriesApart, Extends
<1>7. \A i \in DOMAIN seq : <<seq[i].id, Lower[seq[i].name]>> \in Drawn
  BY DrawnAre
<1>8. Categories = FoldLeft(ImportCategory, base, seq)
  BY DEF Categories
<1>9. CategoriesGood(FoldLeft(ImportCategory, base, seq), base.table, seq, DOMAIN seq, Drawn)
  <2> HIDE DEF base, seq
  <2>1. QED  BY <1>1, <1>6, <1>7, CategoriesLoop
<1>10. QED
  <2> HIDE DEF base, seq
  <2>1. CategoriesGood(Categories, db.categories, seq, DOMAIN seq, Drawn)
    BY <1>2, <1>8, <1>9
  <2>2. QED  BY <2>1 DEF seq

(* A category may get another parent, and keeps its name.                    *)
LEMMA CategoriesImported ==
  ASSUME IInv, op \in Session
  PROVE  /\ DOMAIN ImportCategories = DOMAIN Categories.table
         /\ \A i \in DOMAIN Categories.table : ImportCategories[i].name = Categories.table[i].name
         /\ Rowlike(ImportCategories) /\ Origin(ImportCategories, Drawn)
<1> DEFINE table == Categories.table
           R == ImportCategories
<1>1. Rowlike(table) /\ Origin(table, Drawn)
  BY CategoriesOfLoop DEF CategoriesGood
<1>2. \A i \in DOMAIN table : table[i] = [name |-> table[i].name, parent |-> table[i].parent]
  BY <1>1 DEF Rowlike, Named
<1>3. DOMAIN R = DOMAIN table
  BY DEF ImportCategories
<1>4. \A i \in DOMAIN table : R[i] = table[i] \/ \E p : R[i] = [table[i] EXCEPT !.parent = p]
  BY DEF ImportCategories
<1> HIDE DEF table, R
<1>5. \A i \in DOMAIN table : R[i].name = table[i].name /\ R[i] = Named(R[i])
  BY <1>2, <1>4 DEF Named
<1>6. Rowlike(R) /\ Origin(R, Drawn)
  BY <1>1, <1>3, <1>5 DEF Rowlike, Origin
<1>7. QED  BY <1>3, <1>5, <1>6 DEF table, R

(* If the import is valid, transactions are added in a category the user has, *)
(* whose name the category of the transaction has in a backup; those that are *)
(* there stay.                                                                *)
LEMMA TransactionsImported ==
  ASSUME IInv, op \in Session
  PROVE  /\ db.txns \subseteq ImportTransactions
         /\ \A t \in Backed.txns : (\E a \in ToSet(Backed.accounts) : a.id = t.on)
              => \E u \in ImportTransactions : u.id = t.id
         /\ Valid => \A u \in ImportTransactions \ db.txns :
              /\ u.category \in DOMAIN ImportCategories
              /\ \E t \in Backed.txns :
                   /\ t.id = u.id
                   /\ <<t.category, Lower[ImportCategories[u.category].name]>> \in Drawn
<1> DEFINE of == Categories.of
           New(t) == [t EXCEPT !.category = of[@]]
<1>1. ImportTransactions = db.txns \cup {New(t) : t \in NewTransactions}
  BY DEF ImportTransactions
<1>2. ASSUME NEW t \in Backed.txns
      PROVE  New(t).id = t.id /\ New(t).category = of[t.category]
  <2>1. t = [id |-> t.id, on |-> t.on, category |-> t.category]
    BY BackupIs
  <2> HIDE DEF of
  <2>2. QED  BY <2>1
<1>3. ASSUME NEW t \in Backed.txns, of[t.category] \in DOMAIN ImportCategories
      PROVE  <<t.category, Lower[ImportCategories[of[t.category]].name]>> \in Drawn
  <2>1. PICK i \in DOMAIN Backed.categories : Backed.categories[i].id = t.category
    BY BackupIs
  <2>2. StandsFor(Categories.table, of[t.category], t.category, Drawn)
    BY <2>1, CategoriesOfLoop DEF CategoriesGood
  <2>3. /\ DOMAIN ImportCategories = DOMAIN Categories.table
        /\ ImportCategories[of[t.category]].name = Categories.table[of[t.category]].name
        /\ Origin(ImportCategories, Drawn)
    BY <1>3, CategoriesImported
  <2>4. t.category \notin DOMAIN HomeCategories
    BY <2>1, BackupIs
  <2>5. QED  BY <1>3, <2>2, <2>3, <2>4 DEF StandsFor, Origin
<1> HIDE DEF New, of
<1>4. ASSUME NEW t \in Backed.txns, \E a \in ToSet(Backed.accounts) : a.id = t.on
      PROVE  \E u \in ImportTransactions : u.id = t.id
  <2>1. CASE t \in NewTransactions
    BY <1>1, <1>2, <2>1
  <2>2. CASE t \notin NewTransactions
    BY <1>1, <1>4, <2>2 DEF NewTransactions
  <2>3. QED  BY <2>1, <2>2
<1>5. ASSUME Valid, NEW u \in ImportTransactions \ db.txns
      PROVE  /\ u.category \in DOMAIN ImportCategories
             /\ \E t \in Backed.txns :
                  /\ t.id = u.id
                  /\ <<t.category, Lower[ImportCategories[u.category].name]>> \in Drawn
  <2>1. PICK t \in NewTransactions : u = New(t)
    BY <1>1
  <2>2. u.category \in DOMAIN ImportCategories
    BY <1>5 DEF Valid, CategoriesFound
  <2>3. t \in Backed.txns
    BY DEF NewTransactions
  <2>4. QED  BY <1>2, <1>3, <2>1, <2>2, <2>3
<1>6. QED  BY <1>1, <1>4, <1>5

(* What is in the tables stays, whatever else changes.                        *)
LEMMA TablesStand ==
  ASSUME IInv, holds' = holds, db'.merged = db.merged, db'.txns = db.txns,
         db'.categories = db.categories, Shape', AccountsApart'
  PROVE  TablesInv'
<1> USE DEF IInv, TablesInv, Tables
<1>1. CategoriesApart'
  BY DEF CategoriesApart
<1>2. TxnsThere'
  BY DEF TxnsThere
<1>3. ASSUME NEW u \in db.txns  PROVE Traced(u)'
  BY DEF Traced
<1>4. QED  BY <1>1, <1>2, <1>3

(* The tables a merge commits.                                                *)
LEMMA TablesCommit ==
  ASSUME IInv, op \in Session, holds' = holds, db' = Imported, Valid
  PROVE  TablesInv'
<1> USE DEF IInv, TablesInv, Tables
<1>1. /\ db'.accounts = ImportAccounts /\ db'.categories = ImportCategories
      /\ db'.txns = ImportTransactions /\ db'.merged = db.merged \cup {op}
  BY ImportedIs
<1>2. Shape'
  BY DEF Shape, Imported
<1>3. AccountsApart'
  BY <1>1, AccountsImported DEF AccountsApart
<1>4. Pairs(holds', db'.merged) = Drawn
  BY <1>1 DEF Drawn
<1>5. CategoriesApart'
  <2>1. CategoriesDiffer(ImportCategories)
    BY DEF Valid, CategoriesDiffer
  <2>2. QED  BY <1>1, <1>4, <2>1, CategoriesImported DEF CategoriesApart
<1>6. TxnsThere'
  <2> SUFFICES ASSUME NEW s \in db'.merged, NEW t \in holds[s].txns,
                      \E a \in ToSet(holds[s].accounts) : a.id = t.on
               PROVE  \E u \in db'.txns : u.id = t.id
    BY DEF TxnsThere
  <2>1. CASE s = op
    BY <1>1, <2>1, TransactionsImported DEF Backed
  <2>2. CASE s # op
    BY <1>1, <2>2, TransactionsImported DEF TxnsThere
  <2>3. QED  BY <2>1, <2>2
<1>7. ASSUME NEW u \in db'.txns
      PROVE  /\ u.category \in DOMAIN ImportCategories
             /\ \E s \in db'.merged : \E t \in holds[s].txns :
                  /\ t.id = u.id
                  /\ <<t.category, Lower[ImportCategories[u.category].name]>> \in Drawn
  <2>1. CASE u \in db.txns
    <3>1. Traced(u)
      BY <2>1
    <3>2. /\ u.category \in DOMAIN ImportCategories
          /\ ImportCategories[u.category].name = db.categories[u.category].name
      BY <3>1, CategoriesOfLoop, CategoriesImported DEF Traced, CategoriesGood, Extends
    <3>3. Pairs(holds, db.merged) \subseteq Drawn
      BY DrawnAre
    <3>4. QED  BY <1>1, <3>1, <3>2, <3>3 DEF Traced
  <2>2. CASE u \notin db.txns
    <3>1. op \in db'.merged
      BY <1>1
    <3>2. QED  BY <1>1, <2>2, <3>1, TransactionsImported DEF Backed
  <2>3. QED  BY <2>1, <2>2
<1>8. ASSUME NEW u \in db'.txns  PROVE Traced(u)'
  BY <1>1, <1>4, <1>7 DEF Traced
<1>9. QED  BY <1>2, <1>3, <1>5, <1>6, <1>8

(* What the user does leaves names, categories and transactions as they are.  *)
LEMMA TablesOfUser ==
  ASSUME IInv, User
  PROVE  TablesInv'
<1> USE DEF IInv, TablesInv, Tables
<1> DEFINE Kept == /\ db'.merged = db.merged /\ db'.txns = db.txns
                   /\ db'.categories = db.categories /\ Shape'
<1>1. holds' = holds
  BY UserSteps
<1>2. db = [accounts |-> db.accounts, categories |-> db.categories, txns |-> db.txns, rows |-> db.rows,
        moved |-> db.moved, queue |-> db.queue, ledger |-> db.ledger, merged |-> db.merged]
  BY DEF Shape
<1>3. ASSUME Kept, db'.accounts = db.accounts  PROVE TablesInv'
  <2>1. AccountsApart'
    BY <1>3 DEF AccountsApart
  <2>2. QED  BY <1>1, <1>3, <2>1, TablesStand
<1>4. ASSUME db' = db  PROVE TablesInv'
  <2>1. Kept /\ db'.accounts = db.accounts
    BY <1>4 DEF Shape
  <2>2. QED  BY <1>3, <2>1
<1>5. ASSUME NEW a, a \in DOMAIN db.accounts, CloseAccount(a)  PROVE TablesInv'
  <2> DEFINE acc == [db.accounts EXCEPT ![a].open = FALSE]
  <2>1. db' = [db EXCEPT !.accounts = acc]
    BY <1>5 DEF CloseAccount
  <2>2. /\ \A i \in DOMAIN db.accounts :
             db.accounts[i] = [name |-> db.accounts[i].name, open |-> db.accounts[i].open]
        /\ DOMAIN acc = DOMAIN db.accounts
        /\ \A i \in DOMAIN acc : acc[i] = IF i = a THEN [db.accounts[a] EXCEPT !.open = FALSE]
                                               ELSE db.accounts[i]
    BY DEF AccountsApart, Accountlike
  <2> HIDE DEF acc
  <2>3. Kept /\ db'.accounts = acc
    BY <1>2, <2>1 DEF Shape
  <2>4. \A i \in DOMAIN acc : acc[i].name = db.accounts[i].name
                              /\ acc[i] = [name |-> acc[i].name, open |-> acc[i].open]
    BY <2>2
  <2>5. Accountlike(acc) /\ AgreedDiffer(acc)
    BY <2>2, <2>4 DEF AccountsApart, Accountlike, AgreedDiffer
  <2>7. AccountsApart'
    BY <2>2, <2>3, <2>5 DEF AccountsApart
  <2>8. QED  BY <1>1, <2>3, <2>7, TablesStand
<1>6. ASSUME NEW a, DeleteAttachment(a)  PROVE TablesInv'
  <2>1. Kept /\ db'.accounts = db.accounts
    <3>1. db' = [db EXCEPT !.rows = @ \ {a}, !.moved = @ \ {a}, !.queue = @ \cup {a}]
      BY <1>6 DEF DeleteAttachment
    <3>2. db' = [accounts |-> db.accounts, categories |-> db.categories, txns |-> db.txns,
                 rows |-> db.rows \ {a}, moved |-> db.moved \ {a}, queue |-> db.queue \cup {a},
                 ledger |-> db.ledger, merged |-> db.merged]
      BY <1>2, <3>1
    <3>3. QED  BY <3>2 DEF Shape
  <2>2. QED  BY <1>3, <2>1
<1>7. ASSUME NEW a, MoveAttachment(a)  PROVE TablesInv'
  <2>1. Kept /\ db'.accounts = db.accounts
    BY <1>2, <1>7 DEF MoveAttachment, Shape
  <2>2. QED  BY <1>3, <2>1
<1>8. ASSUME NEW a, DeleteObject(a)  PROVE TablesInv'
  BY <1>4, <1>8 DEF DeleteObject
<1>9. ASSUME NEW a, CompleteDeletion(a)  PROVE TablesInv'
  <2>1. Kept /\ db'.accounts = db.accounts
    BY <1>2, <1>9 DEF CompleteDeletion, Shape
  <2>2. QED  BY <1>3, <2>1
<1>10. QED
  BY <1>5, <1>6, <1>7, <1>8, <1>9 DEF User

(* Every step: only a commit and the user change the database.                *)
LEMMA OthersLeaveDb ==
  ASSUME IInv, [Next]_vars, ~User, ~Commit
  PROVE  db' = db
<1>1. CASE Visit  BY <1>1 DEF Visit
<1>2. CASE \E s \in Session : Execute(s)  BY <1>2 DEF Execute
<1>3. CASE Merge
  BY <1>3 DEF Merge, Preflight, ImportRows, Begin, Snapshot, Bind, Prepare, Record, RestoreFiles,
              Check, EnsureDurable, MarkCommitted, UndoFiles, MarkRolledBack, CleanJournal,
              CleanMarker
<1>4. CASE Recovery  BY <1>4, RecoverySteps
<1>5. CASE Crash \/ Restart  BY <1>5 DEF Crash, Restart, Stop
<1>6. CASE UNCHANGED vars  BY <1>6 DEF vars
<1>7. QED  BY <1>1, <1>2, <1>3, <1>4, <1>5, <1>6 DEF Next

(* Every step keeps the tables.                                            *)
LEMMA TablesKept ==
  ASSUME IInv, [Next]_vars
  PROVE  TablesInv'
<1>1. holds' = holds
  BY HoldsStay
<1>2. ASSUME db' = db  PROVE TablesInv'
  <2>1. Shape' /\ AccountsApart' /\ db'.merged = db.merged /\ db'.txns = db.txns
        /\ db'.categories = db.categories
    BY <1>2 DEF IInv, TablesInv, Tables, Shape, AccountsApart
  <2>2. QED  BY <1>1, <2>1, TablesStand
<1>3. CASE User  BY <1>3, TablesOfUser
<1>4. CASE Commit
  <2>1. op \in Session
    BY <1>4 DEF Commit, IInv, PhaseInv, Control, MergeLabel
  <2>2. (db' = db \/ db' = Imported) /\ Valid
    BY <1>4 DEF Commit, IInv, PhaseInv, Steps
  <2>3. QED  BY <1>1, <1>2, <2>1, <2>2, TablesCommit
<1>5. QED  BY <1>2, <1>3, <1>4, OthersLeaveDb

----------------------------------------------------------------------------
(* The inductive invariant is an invariant.                                  *)

(* Init is the serving server of a user whose names are apart.               *)
LEMMA InitiallyHolds == Init => IInv
<1> SUFFICES ASSUME Init PROVE IInv
  OBVIOUS
<1> USE DEF Init, InitSessions
<1>1. /\ db.accounts = [a \in {Home} |-> [name |-> HomeName, open |-> TRUE]]
      /\ db.categories = HomeCategories /\ db.txns = {} /\ db.rows = {} /\ db.moved = {}
      /\ db.queue = {} /\ db.ledger = {} /\ db.merged = {} /\ Shape
  BY DEF Shape
<1>2. SessionInv
  <2>1. SessionTypes
    BY DEF SessionTypes, SessionsOK, Stages
  <2>2. SessionFacts
    BY <1>1 DEF SessionFacts, Busy
  <2>3. ExecutionIsCovered /\ AnswersHold /\ Given /\ FilesHeld
    BY DEF ExecutionIsCovered, AnswersHold, Given, FilesHeld, MergeLabel
  <2>4. QED  BY <2>1, <2>2, <2>3 DEF SessionInv
<1>3. PhaseInv
  <2>1. Control /\ ArtifactTypes /\ Artifacts
    BY DEF Control, ArtifactTypes, Artifacts, MergeLabel
  <2>2. Steps /\ Decided
    BY <1>1 DEF Steps, Decided, Deciding
  <2>3. QED  BY <2>1, <2>2 DEF PhaseInv
<1>4. FilesInv
  BY <1>1 DEF FilesInv, Keeping, FilesSettled, Settled
<1>5. AccountsApart
  <2>1. DOMAIN db.accounts = {Home}
    BY <1>1
  <2>2. IsFiniteSet(DOMAIN db.accounts)
    BY <2>1, FS_Singleton
  <2>3. Accountlike(db.accounts) /\ AgreedDiffer(db.accounts)
    BY <1>1 DEF Accountlike, AgreedDiffer
  <2>4. QED  BY <2>2, <2>3 DEF AccountsApart
<1>6. CategoriesApart
  BY <1>1, HomeIsAUsers DEF CategoriesApart, Rowlike, Origin
<1>7. TablesInv
  BY <1>1, <1>5, <1>6 DEF TablesInv, Tables, TxnsThere
<1>8. QED  BY <1>2, <1>3, <1>4, <1>7 DEF IInv

(* Every step keeps the inductive invariant.                               *)
LEMMA Inductive ==
  ASSUME IInv, [Next]_vars
  PROVE  IInv'
<1>1. SessionInv' /\ PhaseInv' /\ FilesInv' /\ TablesInv'
  BY SessionsKept, PhaseKept, FilesKept, TablesKept
<1>2. QED  BY <1>1 DEF IInv

(* It holds always.                                                        *)
LEMMA Invariance == Spec => []IInv
<1>1. IInv /\ [Next]_vars => IInv'
  BY Inductive
<1>2. QED  BY InitiallyHolds, <1>1, PTL DEF Spec

----------------------------------------------------------------------------
(* The theorems.                                                             *)

(* The variables have the types their code gives them; what the user has     *)
(* moved is attached, and what the ledger records has been merged.           *)
THEOREM RestoreTypes == Spec => []TypeOK
<1>1. IInv => TypeOK
  BY TypesAre DEF IInv, SessionInv, PhaseInv, FilesInv
<1>2. QED  BY Invariance, <1>1, PTL

(* A session that is executed keeps its archive until the handler returns,   *)
(* whatever timers, late codes and other uploads do in the meantime.         *)
THEOREM ExecutionsAreCovered == Spec => []ExecutionIsCovered
<1>1. IInv => ExecutionIsCovered
  BY DEF IInv, SessionInv
<1>2. QED  BY Invariance, <1>1, PTL

(* What a client has been told about its restore stays true, also when the   *)
(* commit has reported an error or the process has crashed since.            *)
THEOREM AnswersStayTrue == Spec => []AnswersHold
<1>1. IInv => AnswersHold
  BY DEF IInv, SessionInv
<1>2. QED  BY Invariance, <1>1, PTL

(* Whenever writers are admitted, attachment rows, objects in storage and    *)
(* queued deletions fit: rollback, recovery and commit leave no half merge.  *)
THEOREM RowsAndObjectsStayTogether == Spec => []RowsAndObjectsAgree
<1>1. IInv => RowsAndObjectsAgree
  <2> SUFFICES ASSUME IInv, Writable PROVE RowsAndObjectsAgree
    BY DEF RowsAndObjectsAgree
  <2>1. marker = "none"
    BY DEF IInv, PhaseInv, Steps, Writable
  <2>2. Settled(objects) /\ db.rows \cap db.queue = {}
    BY <2>1, ObjectsSettled DEF IInv, FilesInv, FilesSettled
  <2>3. QED  BY <2>2 DEF RowsAndObjectsAgree, Settled
<1>2. QED  BY Invariance, <1>1, PTL

(* Whenever writers are admitted, marker and journal are gone, and so are    *)
(* the files of uploads nobody can use, unless a crash or an answer that     *)
(* asks for the operator has left them.                                      *)
THEOREM NothingIsLeft == Spec => []NothingLeftBehind
<1>1. IInv => NothingLeftBehind
  <2> SUFFICES ASSUME IInv, Writable PROVE NothingLeftBehind
    BY DEF NothingLeftBehind
  <2>1. marker = "none" /\ journal = "none"
    BY DEF IInv, PhaseInv, Steps, Artifacts, Writable
  <2>2. ASSUME \A s \in files : at[s] \notin {"new", "over"}
        PROVE  files \subseteq Listed \cup {op}
    <3> SUFFICES ASSUME NEW s \in files PROVE s \in Listed \cup {op}
      OBVIOUS
    <3>1. s \in Session /\ at[s] \in Stages
      BY DEF IInv, SessionInv, SessionTypes, SessionsOK
    <3>2. CASE at[s] = "executing"
      BY <3>1, <3>2 DEF IInv, SessionInv, SessionFacts
    <3>3. CASE at[s] # "executing"
      BY <2>2, <3>1, <3>3 DEF Listed, Unconsumed, Stages
    <3>4. QED  BY <3>2, <3>3
  <2>3. crashes > 0 \/ (\E s \in Session : told[s] = "manual") \/ files \subseteq Listed \cup {op}
    BY <2>2 DEF IInv, SessionInv, FilesHeld
  <2>4. QED  BY <2>1, <2>3 DEF NothingLeftBehind
<1>2. QED  BY Invariance, <1>1, PTL

(* Whatever backups are merged, in whatever order and however often: two     *)
(* accounts of one name, whatever its case, have a name of whose lower case  *)
(* SQLite and Go think differently; no two categories have one name, but for *)
(* letters beyond ASCII, once a merge has been committed; every transaction  *)
(* of a merged backup whose account is in it is there; and each is in a      *)
(* category of a name that its own category has, but for case, in a merged   *)
(* backup.                                                                   *)
THEOREM NamesAreApart == Spec => []NamesStayApart
<1>1. IInv => NamesStayApart
  <2> SUFFICES ASSUME IInv PROVE NamesStayApart
    OBVIOUS
  <2>1. AccountsApart /\ CategoriesApart /\ TxnsThere /\ \A u \in db.txns : Traced(u)
    BY DEF IInv, TablesInv, Tables
  <2>2. AccountsStayApart
    BY <2>1 DEF AccountsStayApart, AccountsApart, AgreedDiffer
  <2>3. CategoriesStayApart
    BY <2>1 DEF CategoriesStayApart, CategoriesApart, CategoriesDiffer
  <2>4. ASSUME NEW u \in db.txns
        PROVE  /\ u.category \in DOMAIN db.categories
               /\ \E s, r \in db.merged : \E t \in holds[s].txns, c \in ToSet(holds[r].categories) :
                    /\ t.id = u.id /\ c.id = t.category
                    /\ Lower[c.name] = Lower[db.categories[u.category].name]
    <3> DEFINE name == Lower[db.categories[u.category].name]
    <3>1. Traced(u)
      BY <2>1
    <3>2. PICK s \in db.merged : \E t \in holds[s].txns :
            t.id = u.id /\ <<t.category, name>> \in Pairs(holds, db.merged)
      BY <3>1 DEF Traced
    <3>3. PICK t \in holds[s].txns :
            t.id = u.id /\ <<t.category, name>> \in Pairs(holds, db.merged)
      BY <3>2
    <3>4. PICK r \in db.merged : \E c \in ToSet(holds[r].categories) :
            <<t.category, name>> = <<c.id, Lower[c.name]>>
      BY <3>3 DEF Pairs
    <3>5. PICK c \in ToSet(holds[r].categories) : c.id = t.category /\ Lower[c.name] = name
      BY <3>4
    <3>6. QED  BY <3>1, <3>3, <3>5 DEF Traced
  <2>5. QED  BY <2>1, <2>2, <2>3, <2>4 DEF NamesStayApart, TxnsThere
<1>2. QED  BY Invariance, <1>1, PTL

(* A commit adds rows and takes none away: accounts stay as they are, also   *)
(* closed ones, categories keep their names, attachments stay where the user *)
(* has moved them, and a deletion is called off only for a row that is back. *)
THEOREM MergesAddOnly == Spec => MergesOnlyAdd
<1> DEFINE Adds ==
             /\ \A a \in DOMAIN db.accounts : db'.accounts[a] = db.accounts[a]
             /\ \A c \in DOMAIN db.categories : db'.categories[c].name = db.categories[c].name
             /\ db.txns \subseteq db'.txns /\ db.rows \subseteq db'.rows
             /\ db.queue \subseteq db'.queue \cup db'.rows
<1>1. ASSUME IInv, [Next]_vars, pc = "commit"  PROVE Adds
  <2>1. op \in Session
    BY <1>1 DEF IInv, PhaseInv, Control, MergeLabel
  <2>2. db' = db \/ db' = Imported
    <3>1. ~User
      BY <1>1 DEF User, Writable
    <3>2. CASE Commit
      BY <3>2 DEF Commit
    <3>3. QED  BY <1>1, <3>1, <3>2, OthersLeaveDb
  <2>3. CASE db' = db
    BY <2>3
  <2>4. CASE db' = Imported
    <3>1. /\ db'.accounts = ImportAccounts /\ db'.categories = ImportCategories
          /\ db'.txns = ImportTransactions /\ db'.rows = db.rows \cup Taken
          /\ db'.queue = db.queue \ Taken
      BY <2>4, ImportedIs
    <3>2. \A a \in DOMAIN db.accounts : db'.accounts[a] = db.accounts[a]
      BY <1>1, <2>1, <3>1, AccountsImported DEF Extends
    <3>3. \A c \in DOMAIN db.categories : db'.categories[c].name = db.categories[c].name
      <4>1. Extends(Categories.table, db.categories)
        BY <1>1, <2>1, CategoriesOfLoop DEF CategoriesGood
      <4>2. \A c \in DOMAIN Categories.table : ImportCategories[c].name = Categories.table[c].name
        BY <1>1, <2>1, CategoriesImported
      <4>3. QED  BY <3>1, <4>1, <4>2 DEF Extends
    <3>4. db.txns \subseteq db'.txns
      BY <1>1, <2>1, <3>1, TransactionsImported
    <3>5. db.rows \subseteq db'.rows /\ db.queue \subseteq db'.queue \cup db'.rows
      BY <3>1
    <3>6. QED  BY <3>2, <3>3, <3>4, <3>5
  <2>5. QED  BY <2>2, <2>3, <2>4
<1>2. IInv /\ [Next]_vars => [pc = "commit" => Adds]_vars
  BY <1>1
<1>3. QED  BY Invariance, <1>2, PTL DEF Spec, MergesOnlyAdd
=============================================================================

--------------------------- MODULE AltosFatProofs ---------------------------
(***************************************************************************)
(* The file system on a card of any size, with any directory, days and     *)
(* names.                                                                  *)
(***************************************************************************)
EXTENDS AltosFat, FiniteSetTheorems, WellFoundedInduction, TLAPS

-----------------------------------------------------------------------------
(* Sets of numbers, and the recursions of the model unfolded.              *)
LEMMA Least ==
  ASSUME NEW S \in SUBSET Nat, S # {}
  PROVE  \E x \in S : \A y \in S : x <= y
<1>1. PICK x \in S : \A y \in S : ~(<<y, x>> \in OpToRel(<, Nat))
  BY NatLessThanWellFounded, WFMin
<1>2. ASSUME NEW y \in S, y < x PROVE FALSE
  <2>1. <<y, x>> \in OpToRel(<, Nat)
    BY <1>2 DEF OpToRel
  <2> QED
    BY <1>1, <2>1
<1> QED
  BY <1>2

(* The least number of a set that has one.                                 *)
LEMMA MinIs ==
  ASSUME NEW S \in SUBSET Nat, S # {}
  PROVE  Min(S) \in S /\ \A x \in S : Min(S) <= x
BY Least DEF Min

(* Induction over the naturals for a set.                                  *)
LEMMA NatSet ==
  ASSUME NEW P \in SUBSET Nat, 0 \in P, \A n \in P : n + 1 \in P
  PROVE  P = Nat
<1> SUFFICES ASSUME Nat \ P # {} PROVE FALSE
  OBVIOUS
<1>1. PICK x \in Nat \ P : \A y \in Nat \ P : x <= y
  BY Least
<1>2. x - 1 \in Nat /\ x = (x - 1) + 1
  BY <1>1
<1>3. x - 1 \in P
  BY <1>1, <1>2
<1> QED
  BY <1>1, <1>2, <1>3

(* The body of the recursion of a fold, and its solutions up to n.         *)
Folded(f, puts, base, s) ==
  IF s = {} THEN base ELSE Changed(f[s \ {Max(s)}], puts[Max(s)])

Folds(f, puts, base, n) == f = [s \in SUBSET (1 .. n) |-> Folded(f, puts, base, s)]

(* The greatest number of a set, when it is the bound.                     *)
LEMMA MaxIs ==
  ASSUME NEW n \in Nat, NEW s \in SUBSET (1 .. n), n \in s
  PROVE  Max(s) = n
<1>1. \A x \in s : x \in 1 .. n /\ n >= x
  OBVIOUS
<1>2. \A m \in s : m >= n => m = n
  BY <1>1
<1> QED
  BY <1>1, <1>2 DEF Max

(* The greatest number of a set is in it.                                  *)
LEMMA MaxIn ==
  ASSUME NEW n \in Nat, NEW s \in SUBSET (1 .. n), s # {}
  PROVE  Max(s) \in s
<1> DEFINE T == {n - x : x \in s}
<1>1. T \in SUBSET Nat /\ T # {}
  <2>1. \A x \in s : x \in 1 .. n /\ n - x \in Nat
    OBVIOUS
  <2> QED
    BY <2>1
<1>2. PICK t \in T : \A y \in T : t <= y
  BY <1>1, Least
<1>3. PICK m \in s : t = n - m
  OBVIOUS
<1>4. \A x \in s : m >= x
  <2> TAKE x \in s
  <2>1. n - x \in T
    OBVIOUS
  <2> QED
    BY <1>2, <1>3, <2>1
<1> QED
  BY <1>4 DEF Max

(* The recursion by which FoldLeft is defined has a solution.              *)
LEMMA FoldsExist ==
  ASSUME NEW puts, NEW base, NEW n \in Nat
  PROVE  \E f : Folds(f, puts, base, n)
<1> DEFINE P == {k \in Nat : \E f : Folds(f, puts, base, k)}
<1>1. 0 \in P
  <2> DEFINE f == [s \in SUBSET (1 .. 0) |-> base]
  <2>1. SUBSET (1 .. 0) = {{}}
    OBVIOUS
  <2>2. f = [s \in SUBSET (1 .. 0) |-> Folded(f, puts, base, s)]
    BY <2>1 DEF Folded
  <2> QED
    BY <2>2 DEF Folds
<1>2. ASSUME NEW k \in P PROVE k + 1 \in P
  <2>1. PICK f : Folds(f, puts, base, k)
    BY <1>2
  <2> DEFINE g == [s \in SUBSET (1 .. k+1) |->
                     IF k + 1 \in s THEN Changed(f[s \ {k + 1}], puts[k + 1])
                     ELSE f[s]]
  <2>2. ASSUME NEW s \in SUBSET (1 .. k+1) PROVE g[s] = Folded(g, puts, base, s)
    <3>1. CASE k + 1 \in s
      <4>1. s # {} /\ Max(s) = k + 1
        BY <3>1, MaxIs
      <4>2. s \ {k + 1} \in SUBSET (1 .. k+1) /\ k + 1 \notin s \ {k + 1}
        OBVIOUS
      <4>3. g[s \ {k + 1}] = f[s \ {k + 1}]
        BY <4>2
      <4>4. g[s] = Changed(f[s \ {k + 1}], puts[k + 1])
        BY <3>1
      <4> HIDE DEF g
      <4> QED
        BY <4>1, <4>3, <4>4 DEF Folded
    <3>2. CASE k + 1 \notin s
      <4>1. s \in SUBSET (1 .. k)
        BY <3>2
      <4>2. g[s] = f[s]
        BY <3>2
      <4>3. f[s] = Folded(f, puts, base, s)
        BY <2>1, <4>1 DEF Folds
      <4>4. \A x : g[s \ {x}] = f[s \ {x}]
        BY <3>2
      <4> HIDE DEF g
      <4> QED
        BY <4>2, <4>3, <4>4 DEF Folded
    <3> QED
      BY <3>1, <3>2
  <2> HIDE DEF g
  <2>3. g = [s \in SUBSET (1 .. k+1) |-> g[s]]
    BY DEF g
  <2>4. g = [s \in SUBSET (1 .. k+1) |-> Folded(g, puts, base, s)]
    BY <2>2, <2>3
  <2>5. Folds(g, puts, base, k+1)
    BY <2>4 DEF Folds
  <2> QED
    BY <2>5
<1>3. P = Nat
  <2> HIDE DEF P
  <2>1. P \in SUBSET Nat
    BY DEF P
  <2> QED
    BY <1>1, <1>2, <2>1, NatSet
<1> QED
  BY <1>3

(* The cache after each of some changes.                                   *)
Follows(after, puts, base) ==
  /\ after = [k \in 0 .. Len(puts) |-> after[k]]
  /\ after[0] = base
  /\ \A k \in 1 .. Len(puts) : after[k] = Changed(after[k - 1], puts[k])

(* FoldLeft makes the changes one after the other.                         *)
LEMMA FoldFollows ==
  ASSUME NEW S, NEW puts \in Seq(S), NEW base
  PROVE  \E after : Follows(after, puts, base)
                    /\ FoldLeft(Changed, base, puts) = after[Len(puts)]
<1> DEFINE n == Len(puts)
           iter == CHOOSE f : f = [s \in SUBSET DOMAIN puts |->
                     IF s = {} THEN base
                     ELSE Changed(f[s \ {Max(s)}], puts[Max(s)])]
           after == [k \in 0 .. n |-> iter[1 .. k]]
<1>1. n \in Nat /\ DOMAIN puts = 1 .. n
  OBVIOUS
<1>2. FoldLeft(Changed, base, puts) = iter[DOMAIN puts]
  BY DEF FoldLeft, MapThenFoldSet
<1>3. \E f : f = [s \in SUBSET DOMAIN puts |->
                    IF s = {} THEN base
                    ELSE Changed(f[s \ {Max(s)}], puts[Max(s)])]
  <2>1. PICK f : Folds(f, puts, base, n)
    BY <1>1, FoldsExist
  <2> QED
    BY <1>1, <2>1 DEF Folds, Folded
<1>4. iter = [s \in SUBSET DOMAIN puts |->
                IF s = {} THEN base
                ELSE Changed(iter[s \ {Max(s)}], puts[Max(s)])]
  BY <1>3
<1> HIDE DEF iter
<1>5. after[0] = base
  <2>1. 1 .. 0 = {} /\ {} \in SUBSET DOMAIN puts
    OBVIOUS
  <2>2. iter[{}] = base
    BY <1>4, <2>1
  <2> QED
    BY <1>1, <2>1, <2>2
<1>6. ASSUME NEW k \in 1 .. n PROVE after[k] = Changed(after[k - 1], puts[k])
  <2>1. 1 .. k \in SUBSET (1 .. k) /\ k \in 1 .. k /\ k \in Nat
        /\ 1 .. k \in SUBSET DOMAIN puts /\ 1 .. k # {}
    <3>1. k \in Nat /\ k \in 1 .. k
      BY <1>1
    <3>2. \A x \in 1 .. k : x \in 1 .. n
      BY <1>1
    <3> QED
      BY <1>1, <3>1, <3>2
  <2>2. Max(1 .. k) = k
    BY <2>1, MaxIs
  <2>3. (1 .. k) \ {k} = 1 .. k - 1
    BY <2>1
  <2>4. iter[1 .. k] = Changed(iter[1 .. k - 1], puts[k])
    BY <1>4, <2>1, <2>2, <2>3
  <2> QED
    BY <1>1, <2>4
<1>7. after = [k \in 0 .. n |-> after[k]] /\ after[n] = iter[DOMAIN puts]
  BY <1>1
<1> HIDE DEF after
<1>8. Follows(after, puts, base)
  BY <1>5, <1>6, <1>7 DEF Follows
<1> QED
  BY <1>2, <1>7, <1>8

(* What is in two sequences put together.                                  *)
LEMMA ConcatSet ==
  ASSUME NEW S, NEW a \in Seq(S), NEW b \in Seq(S)
  PROVE  /\ a \o b \in Seq(S)
         /\ \A x : x \in ToSet(a \o b) <=> x \in ToSet(a) \/ x \in ToSet(b)
<1> DEFINE n == Len(a)
           m == Len(b)
<1>1. /\ n \in Nat /\ m \in Nat /\ DOMAIN a = 1 .. n /\ DOMAIN b = 1 .. m
      /\ a \o b \in Seq(S) /\ DOMAIN (a \o b) = 1 .. n + m
      /\ \A i \in 1 .. n : (a \o b)[i] = a[i]
      /\ \A i \in n + 1 .. n + m : (a \o b)[i] = b[i - n]
  OBVIOUS
<1> HIDE DEF n, m
<1>2. ASSUME NEW i \in 1 .. m
      PROVE  i + n \in n + 1 .. n + m /\ (a \o b)[i + n] = b[i]
  <2>1. i + n \in n + 1 .. n + m /\ (i + n) - n = i
    BY <1>1
  <2> QED
    BY <1>1, <2>1
<1>3. \A i : i \in 1 .. n + m <=> i \in 1 .. n \/ i \in n + 1 .. n + m
  BY <1>1
<1>4. \A i \in n + 1 .. n + m : i - n \in 1 .. m
  BY <1>1
<1>5. \A i \in n + 1 .. n + m : i \in 1 .. n + m
  BY <1>1
<1> DEFINE ab == a \o b
<1> HIDE DEF ab
<1>6. ASSUME NEW x, x \in ToSet(ab) PROVE x \in ToSet(a) \/ x \in ToSet(b)
  <2>1. PICK i \in 1 .. n + m : x = ab[i]
    BY <1>1, <1>6 DEF ToSet, ab
  <2> QED
    BY <1>1, <1>3, <1>4, <2>1 DEF ToSet, ab
<1>7. ASSUME NEW x, x \in ToSet(a) \/ x \in ToSet(b) PROVE x \in ToSet(ab)
  <2>1. CASE x \in ToSet(a)
    BY <1>1, <1>3, <2>1 DEF ToSet, ab
  <2>2. CASE x \in ToSet(b)
    <3>1. PICK i \in 1 .. m : x = b[i]
      BY <1>1, <2>2 DEF ToSet
    <3> QED
      BY <1>1, <1>2, <1>5, <3>1 DEF ToSet, ab
  <2> QED
    BY <1>7, <2>1, <2>2
<1> QED
  BY <1>1, <1>6, <1>7 DEF ab

(* A sequence of sequences, flattened.                                     *)
Flattened(f, seqs, i) == IF i = 1 THEN seqs[i] ELSE f[i - 1] \o seqs[i]

(* The recursion by which FlattenSeq is defined has a solution.            *)
LEMMA FlattenExists ==
  ASSUME NEW seqs, NEW n \in Nat
  PROVE  \E f : f = [i \in 1 .. n |-> Flattened(f, seqs, i)]
<1> DEFINE P == {k \in Nat : \E f : f = [i \in 1 .. k |-> Flattened(f, seqs, i)]}
<1>1. 0 \in P
  <2> DEFINE f == [i \in 1 .. 0 |-> seqs[i]]
  <2>1. f = [i \in 1 .. 0 |-> Flattened(f, seqs, i)]
    OBVIOUS
  <2> QED
    BY <2>1
<1>2. ASSUME NEW k \in P PROVE k + 1 \in P
  <2>1. PICK f : f = [i \in 1 .. k |-> Flattened(f, seqs, i)]
    BY <1>2
  <2> DEFINE g == [i \in 1 .. k+1 |->
                     IF i = k + 1 THEN Flattened(f, seqs, i) ELSE f[i]]
  <2>2. ASSUME NEW i \in 1 .. k+1 PROVE g[i] = Flattened(g, seqs, i)
    <3>1. i # 1 => i - 1 \in 1 .. k /\ g[i - 1] = f[i - 1]
      OBVIOUS
    <3>2. Flattened(g, seqs, i) = Flattened(f, seqs, i)
      BY <3>1 DEF Flattened
    <3>3. CASE i = k + 1
      BY <3>2, <3>3
    <3>4. CASE i # k + 1
      <4>1. i \in 1 .. k
        BY <3>4
      <4>2. f[i] = Flattened(f, seqs, i)
        BY <2>1, <4>1
      <4> QED
        BY <3>2, <3>4, <4>2
    <3> QED
      BY <3>3, <3>4
  <2> HIDE DEF g
  <2>3. g = [i \in 1 .. k+1 |-> g[i]]
    BY DEF g
  <2>4. g = [i \in 1 .. k+1 |-> Flattened(g, seqs, i)]
    BY <2>2, <2>3
  <2> QED
    BY <2>4
<1>3. P = Nat
  <2> HIDE DEF P
  <2>1. P \in SUBSET Nat
    BY DEF P
  <2> QED
    BY <1>1, <1>2, <2>1, NatSet
<1> QED
  BY <1>3

(* It has the elements of all, and no others.                              *)
LEMMA FlattenIs ==
  ASSUME NEW S, NEW seqs \in Seq(Seq(S))
  PROVE  /\ FlattenSeq(seqs) \in Seq(S)
         /\ \A x : x \in ToSet(FlattenSeq(seqs)) <=>
                   \E i \in DOMAIN seqs : x \in ToSet(seqs[i])
<1> DEFINE n == Len(seqs)
           f == CHOOSE g : g = [i \in 1 .. n |->
                               IF i = 1 THEN seqs[i] ELSE g[i - 1] \o seqs[i]]
<1>1. n \in Nat /\ DOMAIN seqs = 1 .. n /\ \A i \in 1 .. n : seqs[i] \in Seq(S)
  OBVIOUS
<1>2. CASE n = 0
  <2>1. FlattenSeq(seqs) = seqs /\ seqs = <<>>
    BY <1>1, <1>2 DEF FlattenSeq
  <2> QED
    BY <2>1 DEF ToSet
<1>3. CASE n # 0
  <2>1. FlattenSeq(seqs) = f[n]
    BY <1>3 DEF FlattenSeq
  <2>2. \E g : g = [i \in 1 .. n |-> IF i = 1 THEN seqs[i] ELSE g[i - 1] \o seqs[i]]
    <3>1. PICK g : g = [i \in 1 .. n |-> Flattened(g, seqs, i)]
      BY <1>1, FlattenExists
    <3> QED
      BY <3>1 DEF Flattened
  <2>3. f = [i \in 1 .. n |-> IF i = 1 THEN seqs[i] ELSE f[i - 1] \o seqs[i]]
    BY <2>2
  <2> HIDE DEF f
  <2> DEFINE Good(k) == /\ f[k] \in Seq(S)
                        /\ \A x : x \in ToSet(f[k]) <=>
                                  \E i \in 1 .. k : x \in ToSet(seqs[i])
             P == {k \in Nat : k + 1 \in 1 .. n => Good(k + 1)}
  <2>4. 0 \in P
    <3>1. f[1] = seqs[1]
      BY <1>1, <1>3, <2>3
    <3>2. Good(1)
      BY <1>1, <1>3, <3>1
    <3> QED
      BY <3>2
  <2>5. ASSUME NEW k \in P PROVE k + 1 \in P
    <3> SUFFICES ASSUME k + 2 \in 1 .. n PROVE Good(k + 2)
      BY <1>1
    <3> DEFINE m == k + 1
    <3>1. m \in 1 .. n /\ m + 1 \in 1 .. n /\ m \in Nat /\ m + 1 = k + 2 /\ m + 1 # 1
      BY <1>1
    <3>2. Good(m)
      BY <2>5, <3>1
    <3> HIDE DEF m
    <3>3. f[m + 1] = f[m] \o seqs[m + 1]
      <4>1. (m + 1) - 1 = m
        BY <3>1
      <4> QED
        BY <2>3, <3>1, <4>1
    <3>4. PICK a \in Seq(S) : a = f[m]
      BY <3>2
    <3>5. PICK b \in Seq(S) : b = seqs[m + 1]
      BY <1>1, <3>1
    <3>6. a \o b \in Seq(S) /\ \A x : x \in ToSet(a \o b) <=> x \in ToSet(a) \/ x \in ToSet(b)
      BY ConcatSet
    <3>7. \A i : i \in 1 .. m + 1 <=> i \in 1 .. m \/ i = m + 1
      BY <3>1
    <3>8. Good(m + 1)
      BY <3>2, <3>3, <3>4, <3>5, <3>6, <3>7
    <3> QED
      BY <3>1, <3>8
  <2>6. P = Nat
    <3> HIDE DEF P
    <3>1. P \in SUBSET Nat
      BY DEF P
    <3> QED
      BY <2>4, <2>5, <3>1, NatSet
  <2>7. Good(n)
    <3> HIDE DEF n
    <3>1. n - 1 \in Nat /\ (n - 1) + 1 = n /\ n \in 1 .. n
      BY <1>1, <1>3
    <3>2. n - 1 \in P
      BY <2>6, <3>1
    <3> QED
      BY <3>1, <3>2
  <2> QED
    BY <1>1, <2>1, <2>7
<1> QED
  BY <1>2, <1>3

-----------------------------------------------------------------------------
(* The chains of the table.                                                *)
Link(chain, store, c, i) ==
  IF i = 0 THEN c
  ELSE IF Valid(chain[i - 1]) THEN Entry(store, chain[i - 1])
  ELSE chain[i - 1]

Links(f, store, c, n) == f = [i \in 0 .. n |-> Link(f, store, c, i)]

(* The recursion by which Chain is defined has a solution.                 *)
LEMMA LinksExist ==
  ASSUME NEW store, NEW c, NEW n \in Nat
  PROVE  \E f : Links(f, store, c, n)
<1> DEFINE P == {k \in Nat : \E f : Links(f, store, c, k)}
<1>1. 0 \in P
  <2> DEFINE f == [i \in 0 .. 0 |-> c]
  <2>1. f = [i \in 0 .. 0 |-> Link(f, store, c, i)]
    BY DEF Link
  <2> QED
    BY <2>1 DEF Links
<1>2. ASSUME NEW k \in P PROVE k + 1 \in P
  <2>1. PICK f : f = [i \in 0 .. k |-> Link(f, store, c, i)]
    BY <1>2 DEF Links
  <2> DEFINE g == [i \in 0 .. k+1 |->
                     IF i = k + 1 THEN Link(f, store, c, i) ELSE f[i]]
  <2>2. ASSUME NEW i \in 0 .. k+1 PROVE g[i] = Link(g, store, c, i)
    <3>1. i # 0 => i - 1 \in 0 .. k /\ g[i - 1] = f[i - 1]
      OBVIOUS
    <3>2. Link(g, store, c, i) = Link(f, store, c, i)
      BY <3>1 DEF Link
    <3>3. CASE i = k + 1
      BY <3>2, <3>3
    <3>4. CASE i # k + 1
      <4>1. i \in 0 .. k
        BY <3>4
      <4>2. f[i] = Link(f, store, c, i)
        BY <2>1, <4>1
      <4> QED
        BY <3>2, <3>4, <4>2
    <3> QED
      BY <3>3, <3>4
  <2> HIDE DEF g
  <2>3. g = [i \in 0 .. k+1 |-> g[i]]
    BY DEF g
  <2>4. g = [i \in 0 .. k+1 |-> Link(g, store, c, i)]
    BY <2>2, <2>3
  <2> QED
    BY <2>4 DEF Links
<1>3. P = Nat
  <2> HIDE DEF P
  <2>1. P \in SUBSET Nat
    BY DEF P
  <2> QED
    BY <1>1, <1>2, <2>1, NatSet
<1> QED
  BY <1>3

(* A chain follows the links of the table from its first cluster.          *)
LEMMA ChainIs ==
  ASSUME NEW store, NEW c
  PROVE  /\ Chain(store, c) =
              [i \in 0 .. NumberCluster |-> Link(Chain(store, c), store, c, i)]
         /\ Chain(store, c)[0] = c
<1> DEFINE chain == CHOOSE f : f = [i \in 0 .. NumberCluster |->
                      IF i = 0 THEN c
                      ELSE IF Valid(f[i - 1]) THEN Entry(store, f[i - 1])
                      ELSE f[i - 1]]
<1>1. Chain(store, c) = chain
  BY DEF Chain
<1>2. \E f : f = [i \in 0 .. NumberCluster |->
                    IF i = 0 THEN c
                    ELSE IF Valid(f[i - 1]) THEN Entry(store, f[i - 1])
                    ELSE f[i - 1]]
  <2>0. NumberCluster \in Nat
    BY FatAssumption
  <2>1. PICK f : Links(f, store, c, NumberCluster)
    BY <2>0, LinksExist
  <2> QED
    BY <2>1 DEF Links, Link
<1>3. chain = [i \in 0 .. NumberCluster |->
                 IF i = 0 THEN c
                 ELSE IF Valid(chain[i - 1]) THEN Entry(store, chain[i - 1])
                 ELSE chain[i - 1]]
  BY <1>2
<1> HIDE DEF chain
<1>4. chain = [i \in 0 .. NumberCluster |-> Link(chain, store, c, i)]
  BY <1>3 DEF Link
<1>5. chain[0] = c
  BY <1>3, FatAssumption
<1> QED
  BY <1>1, <1>4, <1>5

(* The next of a chain, while it is valid, and where it has ended.         *)
LEMMA ChainNext ==
  ASSUME NEW store, NEW c, NEW i \in 0 .. NumberCluster - 1
  PROVE  LET chain == Chain(store, c)
         IN chain[i + 1] = IF Valid(chain[i]) THEN store[FatSector(1, chain[i])][chain[i]]
                           ELSE chain[i]
<1> DEFINE chain == Chain(store, c)
<1>1. chain = [j \in 0 .. NumberCluster |-> Link(chain, store, c, j)]
  BY ChainIs
<1>2. i + 1 \in 0 .. NumberCluster /\ (i + 1) - 1 = i /\ i + 1 # 0
  BY FatAssumption
<1> HIDE DEF chain
<1>3. chain[i + 1] = Link(chain, store, c, i + 1)
  BY <1>1, <1>2
<1>4. chain[i + 1] = IF Valid(chain[i]) THEN Entry(store, chain[i]) ELSE chain[i]
  BY <1>2, <1>3 DEF Link
<1> QED
  BY <1>4 DEF chain, Entry

(* The valid clusters of a chain come first, and are as many as its length *)
(* says.                                                                   *)
LEMMA ChainLength ==
  ASSUME NEW store, NEW c
  PROVE  /\ Length(store, c) \in 0 .. NumberCluster + 1
         /\ \A i \in 0 .. NumberCluster :
              Valid(Chain(store, c)[i]) <=> i < Length(store, c)
<1> DEFINE chain == Chain(store, c)
           V == {i \in 0 .. NumberCluster : Valid(chain[i])}
           G == {i \in Nat : i \notin V}
<1>1. NumberCluster \in Nat
  BY FatAssumption
<1>2. Length(store, c) = Cardinality(V)
  BY DEF Length
<1>3. \A i \in 0 .. NumberCluster - 1 : i + 1 \in V => i \in V
  <2> TAKE i \in 0 .. NumberCluster - 1
  <2>1. ~Valid(chain[i]) => chain[i + 1] = chain[i]
    BY ChainNext
  <2>2. i \in 0 .. NumberCluster
    BY <1>1
  <2> HIDE DEF chain
  <2> QED
    BY <2>1, <2>2
<1> HIDE DEF chain
<1>4. NumberCluster + 1 \in G /\ G \in SUBSET Nat
  BY <1>1
<1>5. PICK m \in G : \A x \in G : m <= x
  BY <1>4, Least
<1>6. m \in 0 .. NumberCluster + 1
  BY <1>1, <1>4, <1>5
<1>7. \A i \in V : i < m
  <2> DEFINE B == {i \in V : i >= m}
  <2> SUFFICES ASSUME B # {} PROVE FALSE
    BY <1>1, <1>6
  <2>1. B \in SUBSET Nat
    BY <1>1
  <2>2. PICK b \in B : \A x \in B : b <= x
    BY <2>1, Least
  <2>3. b > m /\ b \in 0 .. NumberCluster
    BY <1>5, <1>6, <2>2
  <2>4. b - 1 \in 0 .. NumberCluster - 1 /\ (b - 1) + 1 = b /\ b - 1 >= m
    BY <1>1, <1>6, <2>3
  <2>5. b - 1 \in V
    BY <1>3, <2>2, <2>4
  <2> QED
    BY <2>2, <2>3, <2>4, <2>5
<1>8. V = 0 .. m - 1
  <2>1. \A i \in 0 .. m - 1 : i \in V
    BY <1>5, <1>6
  <2>2. \A i \in V : i \in 0 .. m - 1
    BY <1>1, <1>6, <1>7
  <2> QED
    BY <2>1, <2>2
<1>9. Cardinality(V) = m
  <2>0. m - 1 \in Int /\ m \in Nat
    BY <1>1, <1>6
  <2>1. Cardinality(0 .. m - 1) = IF 0 > m - 1 THEN 0 ELSE (m - 1) - 0 + 1
    BY <2>0, FS_Interval
  <2>2. (IF 0 > m - 1 THEN 0 ELSE (m - 1) - 0 + 1) = m
    BY <2>0
  <2> QED
    BY <1>8, <2>1, <2>2
<1>10. \A i \in 0 .. NumberCluster : Valid(chain[i]) <=> i < m
  BY <1>6, <1>8
<1> QED
  BY <1>2, <1>6, <1>9, <1>10 DEF chain

(* Two chains go the same way as far as the table is the same on it.       *)
LEMMA ChainSame ==
  ASSUME NEW store, NEW other, NEW c, NEW n \in 0 .. NumberCluster,
         \A i \in 0 .. n - 1 :
           LET d == Chain(store, c)[i]
           IN Valid(d) => other[FatSector(1, d)][d] = store[FatSector(1, d)][d]
  PROVE  \A i \in 0 .. n : Chain(other, c)[i] = Chain(store, c)[i]
<1> DEFINE x == Chain(store, c)
           y == Chain(other, c)
           P == {i \in Nat : i \in 0 .. n => y[i] = x[i]}
<1>1. 0 \in P
  BY ChainIs
<1>2. ASSUME NEW i \in P PROVE i + 1 \in P
  <2> SUFFICES ASSUME i + 1 \in 0 .. n PROVE y[i + 1] = x[i + 1]
    OBVIOUS
  <2>1. i \in 0 .. n - 1 /\ i \in 0 .. n /\ i \in 0 .. NumberCluster - 1
    BY FatAssumption
  <2>2. x[i + 1] = IF Valid(x[i]) THEN store[FatSector(1, x[i])][x[i]] ELSE x[i]
    BY <2>1, ChainNext
  <2>3. y[i + 1] = IF Valid(y[i]) THEN other[FatSector(1, y[i])][y[i]] ELSE y[i]
    BY <2>1, ChainNext
  <2>4. y[i] = x[i]
    BY <1>2, <2>1
  <2>5. Valid(x[i]) => other[FatSector(1, x[i])][x[i]] = store[FatSector(1, x[i])][x[i]]
    BY <2>1
  <2> HIDE DEF x, y
  <2> QED
    BY <2>2, <2>3, <2>4, <2>5
<1>3. P = Nat
  <2> HIDE DEF P
  <2>1. P \in SUBSET Nat
    BY DEF P
  <2> QED
    BY <1>1, <1>2, <2>1, NatSet
<1> QED
  BY <1>3

(* A chain from one of its clusters on.                                    *)
LEMMA ChainFrom ==
  ASSUME NEW store, NEW c, NEW n \in 0 .. NumberCluster
  PROVE  \A i \in 0 .. NumberCluster - n :
           Chain(store, Chain(store, c)[n])[i] = Chain(store, c)[n + i]
<1> DEFINE x == Chain(store, c)
           y == Chain(store, x[n])
           P == {i \in Nat : i \in 0 .. NumberCluster - n => y[i] = x[n + i]}
<1>0. NumberCluster \in Nat
  BY FatAssumption
<1>1. 0 \in P
  <2>1. y[0] = x[n]
    BY ChainIs
  <2> QED
    BY <2>1
<1>2. ASSUME NEW i \in P PROVE i + 1 \in P
  <2> SUFFICES ASSUME i + 1 \in 0 .. NumberCluster - n PROVE y[i + 1] = x[n + (i + 1)]
    OBVIOUS
  <2>1. /\ i \in 0 .. NumberCluster - 1 /\ i \in 0 .. NumberCluster - n
        /\ n + i \in 0 .. NumberCluster - 1 /\ n + (i + 1) = (n + i) + 1
    BY <1>0
  <2>2. x[(n + i) + 1] = IF Valid(x[n + i]) THEN store[FatSector(1, x[n + i])][x[n + i]]
                         ELSE x[n + i]
    BY <2>1, ChainNext
  <2>3. y[i + 1] = IF Valid(y[i]) THEN store[FatSector(1, y[i])][y[i]] ELSE y[i]
    BY <2>1, ChainNext
  <2>4. y[i] = x[n + i]
    BY <1>2, <2>1
  <2> HIDE DEF x, y
  <2> QED
    BY <2>1, <2>2, <2>3, <2>4
<1>3. P = Nat
  <2> HIDE DEF P
  <2>1. P \in SUBSET Nat
    BY DEF P
  <2> QED
    BY <1>1, <1>2, <2>1, NatSet
<1> QED
  BY <1>3

-----------------------------------------------------------------------------
(* What the sectors hold, and the cache.                                   *)
(* The values of the table, and those of the places where a file starts.   *)
TableValues == 0 .. NumberCluster + 1
Starts == Clusters \union {0}

Named == Names \union {NoName}

Keys(s) ==
  IF s[1] = "fat" THEN {c \in Clusters : c \div PerSector = s[3]}
  ELSE IF s[1] = "root" THEN Entries ELSE 0 .. PerCluster - 1

Holds(s) ==
  IF s[1] = "fat" THEN TableValues
  ELSE IF s[1] = "root" THEN [name : Named, size : Nat, cluster : Starts]
  ELSE Named \X Nat

Contents(s) == [Keys(s) -> Holds(s)]

CacheOK ==
  /\ mem = [s \in FatSectors |-> mem[s]] /\ may = [s \in FatSectors |-> may[s]]
  /\ \A s \in FatSectors : mem[s] \in may[s] /\ may[s] \subseteq Contents(s)

(* The numbers of a card.                                                  *)
LEMMA Numbers ==
  /\ NumberCluster \in Nat /\ NumberCluster > 2
  /\ PerSector \in Nat /\ PerSector > 0 /\ PerCluster \in Nat /\ PerCluster > 0
  /\ Clusters \subseteq Nat /\ \A c \in Clusters : c \div PerSector \in Nat
BY FatAssumption DEF Clusters

(* Where files start.                                                      *)
LEMMA StartsTyped == 0 \in Starts /\ Starts \subseteq TableValues
BY Numbers DEF Starts, Clusters, TableValues

(* A link of a table is in a sector of that table, and there only.         *)
LEMMA TableCell ==
  ASSUME NEW fat \in {1, 2}, NEW c \in Clusters
  PROVE  /\ FatSector(fat, c) \in FatSectors
         /\ c \in Keys(FatSector(fat, c)) /\ Holds(FatSector(fat, c)) = TableValues
         /\ FatSector(fat, c) # RootSector /\ \A d : FatSector(fat, c) # DataSector(d)
         /\ \A d : fat # 1 => FatSector(fat, c) # FatSector(1, d)
<1>1. FatSector(fat, c) \in FatSectors
  BY DEF FatSectors, TableSectors
<1>2. FatSector(fat, c)[1] = "fat" /\ FatSector(fat, c)[2] = fat
      /\ FatSector(fat, c)[3] = c \div PerSector
  BY DEF FatSector
<1>3. RootSector[1] = "root" /\ \A d : DataSector(d)[1] = "data" /\ FatSector(1, d)[2] = 1
  BY DEF RootSector, DataSector, FatSector
<1>4. c \in Keys(FatSector(fat, c)) /\ Holds(FatSector(fat, c)) = TableValues
  BY <1>2 DEF Keys, Holds
<1>5. \A d : FatSector(fat, c) # DataSector(d)
  BY <1>2, <1>3
<1>6. \A d : fat # 1 => FatSector(fat, c) # FatSector(1, d)
  BY <1>2, <1>3
<1> QED
  BY <1>1, <1>2, <1>3, <1>4, <1>5, <1>6

(* The directory is a sector of its own.                                   *)
LEMMA RootCell ==
  /\ RootSector \in FatSectors /\ Keys(RootSector) = Entries
  /\ Holds(RootSector) = [name : Named, size : Nat, cluster : Starts]
  /\ \A c : RootSector # DataSector(c)
<1>1. RootSector \in FatSectors /\ RootSector[1] = "root"
  BY DEF FatSectors, RootSector
<1>2. \A c : DataSector(c)[1] = "data"
  BY DEF DataSector
<1> QED
  BY <1>1, <1>2 DEF Keys, Holds

(* The data of a cluster is a sector of its own.                           *)
LEMMA DataCell ==
  ASSUME NEW c \in Clusters
  PROVE  /\ DataSector(c) \in FatSectors /\ Keys(DataSector(c)) = 0 .. PerCluster - 1
         /\ Holds(DataSector(c)) = Named \X Nat
         /\ \A d : DataSector(d) = DataSector(c) => d = c
<1>1. DataSector(c) \in FatSectors /\ DataSector(c)[1] = "data"
  BY DEF FatSectors, DataSectors, DataSector
<1>2. \A d : DataSector(d)[3] = d
  BY DEF DataSector
<1> QED
  BY <1>1, <1>2 DEF Keys, Holds

(* The changes that may be made, and those that are made to a cell.        *)
Cells ==
  UNION {[sector : {s}, key : Keys(s), value : Holds(s)] : s \in FatSectors}

WrittenBy(puts, n, s, k) ==
  {puts[i].value : i \in {j \in 1 .. n : puts[j].sector = s /\ puts[j].key = k}}

Written(puts, s, k) ==
  {p.value : p \in {q \in ToSet(puts) : q.sector = s /\ q.key = k}}

Made(a, puts, n) ==
  /\ a.mem = [s \in FatSectors |-> a.mem[s]] /\ a.may = [s \in FatSectors |-> a.may[s]]
  /\ \A s \in FatSectors :
       /\ a.mem[s] \in a.may[s] /\ a.may[s] \subseteq Contents(s)
       /\ may[s] \subseteq a.may[s]
       /\ \A k \in Keys(s) :
            \/ a.mem[s][k] \in WrittenBy(puts, n, s, k)
            \/ WrittenBy(puts, n, s, k) = {} /\ a.mem[s][k] = mem[s][k]
       /\ \A x \in a.may[s] \ may[s] : \A k \in Keys(s) :
            x[k] \in WrittenBy(puts, n, s, k) \union {mem[s][k]}
       /\ (\A i \in 1 .. n : puts[i].sector # s) => a.may[s] = may[s]

(* One cell changed: the cache has the new sector, the card may have it.   *)
LEMMA ChangedIs ==
  ASSUME NEW a, NEW p \in Cells,
         a.mem = [s \in FatSectors |-> a.mem[s]], a.may = [s \in FatSectors |-> a.may[s]],
         a.mem[p.sector] \in Contents(p.sector)
  PROVE  LET b == Changed(a, p)
             new == [k \in Keys(p.sector) |->
                       IF k = p.key THEN p.value ELSE a.mem[p.sector][k]]
         IN /\ b.mem = [s \in FatSectors |-> IF s = p.sector THEN new ELSE a.mem[s]]
            /\ b.may = [s \in FatSectors |->
                          IF s = p.sector THEN a.may[s] \union {new} ELSE a.may[s]]
            /\ p.sector \in FatSectors /\ p.key \in Keys(p.sector)
            /\ p.value \in Holds(p.sector) /\ new \in Contents(p.sector)
<1> DEFINE new == [k \in Keys(p.sector) |->
                     IF k = p.key THEN p.value ELSE a.mem[p.sector][k]]
<1>1. p.sector \in FatSectors /\ p.key \in Keys(p.sector) /\ p.value \in Holds(p.sector)
  BY DEF Cells
<1>2. [a.mem[p.sector] EXCEPT ![p.key] = p.value] = new
  BY <1>1 DEF Contents
<1>3. new \in Contents(p.sector)
  BY <1>1 DEF Contents
<1> HIDE DEF new
<1>4. Changed(a, p) = [mem |-> [a.mem EXCEPT ![p.sector] = new],
                       may |-> [a.may EXCEPT ![p.sector] = @ \union {new}]]
  BY <1>2 DEF Changed
<1>5. [a.mem EXCEPT ![p.sector] = new] =
        [s \in FatSectors |-> IF s = p.sector THEN new ELSE a.mem[s]]
  BY <1>1
<1>6. [a.may EXCEPT ![p.sector] = @ \union {new}] =
        [s \in FatSectors |-> IF s = p.sector THEN a.may[s] \union {new} ELSE a.may[s]]
  BY <1>1
<1>7. Changed(a, p).mem = [a.mem EXCEPT ![p.sector] = new]
      /\ Changed(a, p).may = [a.may EXCEPT ![p.sector] = @ \union {new}]
  BY <1>4
<1> QED
  BY <1>1, <1>3, <1>5, <1>6, <1>7 DEF new

(* One change more of a sequence of them.                                  *)
LEMMA MadeNext ==
  ASSUME CacheOK, NEW puts \in Seq(Cells), NEW n \in 1 .. Len(puts), NEW a,
         Made(a, puts, n - 1)
  PROVE  Made(Changed(a, puts[n]), puts, n)
<1> DEFINE p == puts[n]
           b == Changed(a, p)
           new == [k \in Keys(p.sector) |->
                     IF k = p.key THEN p.value ELSE a.mem[p.sector][k]]
           Before(s, k) == WrittenBy(puts, n - 1, s, k)
           Now(s, k) == WrittenBy(puts, n, s, k)
<1>1. p \in Cells /\ n \in Nat /\ n > 0 /\ n - 1 \in Nat
  OBVIOUS
<1>2. /\ a.mem = [s \in FatSectors |-> a.mem[s]]
      /\ a.may = [s \in FatSectors |-> a.may[s]]
      /\ \A s \in FatSectors : a.mem[s] \in Contents(s)
  BY DEF Made
<1>3. p.sector \in FatSectors
  BY <1>1 DEF Cells
<1> HIDE DEF p
<1>4. /\ b.mem = [s \in FatSectors |-> IF s = p.sector THEN new ELSE a.mem[s]]
      /\ b.may = [s \in FatSectors |->
                    IF s = p.sector THEN a.may[s] \union {new} ELSE a.may[s]]
      /\ p.key \in Keys(p.sector) /\ new \in Contents(p.sector)
  <2>1. a.mem[p.sector] \in Contents(p.sector)
    BY <1>2, <1>3
  <2> QED
    BY <1>1, <1>2, <2>1, ChangedIs
<1>5. \A i : i \in 1 .. n <=> i \in 1 .. n - 1 \/ i = n
  BY <1>1
<1>6. ASSUME NEW s, NEW k, ~(s = p.sector /\ k = p.key)
      PROVE  Now(s, k) = Before(s, k)
  BY <1>5, <1>6 DEF WrittenBy, p
<1>7. p.value \in Now(p.sector, p.key)
  BY <1>5 DEF WrittenBy, p
<1>8. \A s, k : Before(s, k) \subseteq Now(s, k)
  BY <1>5 DEF WrittenBy
<1>9. \A k \in Keys(p.sector) :
        new[k] = IF k = p.key THEN p.value ELSE a.mem[p.sector][k]
  OBVIOUS
<1> HIDE DEF b, new, Before, Now
<1>10. ASSUME NEW s \in FatSectors
       PROVE  /\ b.mem[s] \in b.may[s] /\ b.may[s] \subseteq Contents(s)
              /\ may[s] \subseteq b.may[s]
  BY <1>2, <1>4 DEF Made
<1>11. ASSUME NEW s \in FatSectors, NEW k \in Keys(s)
       PROVE  b.mem[s][k] \in Now(s, k) \/ (Now(s, k) = {} /\ b.mem[s][k] = mem[s][k])
  <2>1. a.mem[s][k] \in Before(s, k) \/ (Before(s, k) = {} /\ a.mem[s][k] = mem[s][k])
    BY DEF Made, Before
  <2>2. CASE s = p.sector /\ k = p.key
    <3>1. b.mem[s][k] = p.value
      BY <1>3, <1>4, <1>9, <2>2
    <3> QED
      BY <1>7, <2>2, <3>1
  <2>3. CASE ~(s = p.sector /\ k = p.key)
    <3>1. b.mem[s][k] = a.mem[s][k]
      BY <1>4, <1>9, <2>3
    <3> QED
      BY <1>6, <2>1, <2>3, <3>1
  <2> QED
    BY <2>2, <2>3
<1>12. ASSUME NEW s \in FatSectors, NEW x \in b.may[s] \ may[s], NEW k \in Keys(s)
       PROVE  x[k] \in Now(s, k) \union {mem[s][k]}
  <2>1. CASE x \in a.may[s]
    <3>1. x[k] \in Before(s, k) \union {mem[s][k]}
      BY <2>1 DEF Made, Before
    <3> QED
      BY <1>8, <3>1
  <2>2. CASE x \notin a.may[s]
    <3>1. x = b.mem[s]
      BY <1>4, <2>2
    <3> QED
      BY <1>11, <3>1
  <2> QED
    BY <2>1, <2>2
<1>13. ASSUME NEW s \in FatSectors, \A i \in 1 .. n : puts[i].sector # s
       PROVE  b.may[s] = may[s]
  <2>1. s # p.sector /\ \A i \in 1 .. n - 1 : puts[i].sector # s
    BY <1>5, <1>13 DEF p
  <2>2. a.may[s] = may[s]
    BY <2>1 DEF Made
  <2> QED
    BY <1>4, <2>1, <2>2
<1>14. b.mem = [s \in FatSectors |-> b.mem[s]] /\ b.may = [s \in FatSectors |-> b.may[s]]
  BY <1>4
<1>15. Made(b, puts, n)
  BY <1>10, <1>11, <1>12, <1>13, <1>14 DEF Made, Now
<1> QED
  BY <1>15 DEF b, p

(* The cache after some changes: a cell has a value that was written to it, *)
(* or the one it had.                                                      *)
AfterOK(a, puts) ==
  /\ a.mem = [s \in FatSectors |-> a.mem[s]] /\ a.may = [s \in FatSectors |-> a.may[s]]
  /\ \A s \in FatSectors :
       /\ a.mem[s] \in a.may[s] /\ a.may[s] \subseteq Contents(s)
       /\ may[s] \subseteq a.may[s]
       /\ \A k \in Keys(s) :
            \/ a.mem[s][k] \in Written(puts, s, k)
            \/ Written(puts, s, k) = {} /\ a.mem[s][k] = mem[s][k]
       /\ \A x \in a.may[s] \ may[s] : \A k \in Keys(s) :
            x[k] \in Written(puts, s, k) \union {mem[s][k]}
       /\ (\A p \in ToSet(puts) : p.sector # s) => a.may[s] = may[s]

(* What a sequence of changes leaves: every cell it does not put as it     *)
(* was, every other with one of the values put.                            *)
LEMMA AfterIs ==
  ASSUME CacheOK, NEW puts \in Seq(Cells)
  PROVE  AfterOK(After(puts), puts)
<1> DEFINE base == [mem |-> mem, may |-> may]
           n == Len(puts)
<1>1. PICK after : Follows(after, puts, base)
                   /\ FoldLeft(Changed, base, puts) = after[n]
  BY FoldFollows
<1>2. After(puts) = after[n]
  BY <1>1 DEF After
<1>3. n \in Nat
  OBVIOUS
<1> DEFINE P == {k \in Nat : k \in 0 .. n => Made(after[k], puts, k)}
<1>4. 0 \in P
  <2>1. after[0].mem = mem /\ after[0].may = may
    BY <1>1 DEF Follows
  <2>2. \A s, k : WrittenBy(puts, 0, s, k) = {}
    BY DEF WrittenBy
  <2>3. Made(after[0], puts, 0)
    BY <2>1, <2>2 DEF Made, CacheOK
  <2> QED
    BY <2>3
<1>5. ASSUME NEW k \in P PROVE k + 1 \in P
  <2> SUFFICES ASSUME k + 1 \in 0 .. n PROVE Made(after[k + 1], puts, k + 1)
    OBVIOUS
  <2>1. k + 1 \in 1 .. n /\ (k + 1) - 1 = k /\ k \in 0 .. n
    BY <1>3
  <2>2. after[k + 1] = Changed(after[k], puts[k + 1])
    BY <1>1, <2>1 DEF Follows
  <2>3. Made(after[k], puts, k)
    BY <1>5, <2>1
  <2> QED
    BY <2>1, <2>2, <2>3, MadeNext
<1>6. P = Nat
  <2> HIDE DEF P
  <2>1. P \in SUBSET Nat
    BY DEF P
  <2> QED
    BY <1>4, <1>5, <2>1, NatSet
<1>7. Made(after[n], puts, n)
  BY <1>3, <1>6
<1>8. \A s, k : WrittenBy(puts, n, s, k) = Written(puts, s, k)
  BY DEF WrittenBy, Written, ToSet
<1>9. \A s : (\A p \in ToSet(puts) : p.sector # s) => \A i \in 1 .. n : puts[i].sector # s
  BY DEF ToSet
<1> QED
  BY <1>2, <1>7, <1>8, <1>9 DEF Made, AfterOK

-----------------------------------------------------------------------------
(* The changes of the table.                                               *)
TableOK(store) == \A c \in Clusters : store[FatSector(1, c)][c] \in TableValues

(* The numbers of a chain are those that a table can have.                 *)
LEMMA ChainIn ==
  ASSUME NEW store, TableOK(store), NEW c \in TableValues
  PROVE  \A i \in 0 .. NumberCluster : Chain(store, c)[i] \in TableValues
<1> DEFINE x == Chain(store, c)
           P == {i \in Nat : i \in 0 .. NumberCluster => x[i] \in TableValues}
<1>0. NumberCluster \in Nat
  BY FatAssumption
<1>1. 0 \in P
  BY ChainIs
<1>2. ASSUME NEW i \in P PROVE i + 1 \in P
  <2> SUFFICES ASSUME i + 1 \in 0 .. NumberCluster PROVE x[i + 1] \in TableValues
    OBVIOUS
  <2>1. i \in 0 .. NumberCluster - 1 /\ i \in 0 .. NumberCluster
    BY <1>0
  <2>2. x[i + 1] = IF Valid(x[i]) THEN store[FatSector(1, x[i])][x[i]] ELSE x[i]
    BY <2>1, ChainNext
  <2>3. x[i] \in TableValues
    BY <1>2, <2>1
  <2> HIDE DEF x
  <2> QED
    BY <2>2, <2>3 DEF TableOK, Valid
<1>3. P = Nat
  <2> HIDE DEF P
  <2>1. P \in SUBSET Nat
    BY DEF P
  <2> QED
    BY <1>1, <1>2, <2>1, NatSet
<1> QED
  BY <1>3

Cell(s, k, v) == [sector |-> s, key |-> k, value |-> v]

TableCells(c, v) == {Cell(FatSector(fat, c), c, v) : fat \in {1, 2}}

(* No change at all.                                                       *)
LEMMA NoPut == <<>> \in Seq(Cells) /\ ToSet(<<>>) = {}
BY DEF ToSet

(* A change of one cell.                                                   *)
LEMMA PutIs ==
  ASSUME NEW s \in FatSectors, NEW k \in Keys(s), NEW v \in Holds(s)
  PROVE  Put(s, k, v) \in Seq(Cells) /\ ToSet(Put(s, k, v)) = {Cell(s, k, v)}
<1>1. Cell(s, k, v) \in Cells
  BY DEF Cell, Cells
<1>2. Put(s, k, v) = <<Cell(s, k, v)>>
  BY DEF Put, Cell
<1> QED
  BY <1>1, <1>2 DEF ToSet

(* A link is replaced in both tables.                                      *)
LEMMA ReplaceIs ==
  ASSUME NEW c \in Clusters, NEW v \in TableValues
  PROVE  Replace(c, v) \in Seq(Cells)
         /\ \A p : p \in ToSet(Replace(c, v)) <=> p \in TableCells(c, v)
<1> DEFINE a == Put(FatSector(1, c), c, v)
           b == Put(FatSector(2, c), c, v)
<1>1. a \in Seq(Cells) /\ ToSet(a) = {Cell(FatSector(1, c), c, v)}
  BY TableCell, PutIs
<1>2. b \in Seq(Cells) /\ ToSet(b) = {Cell(FatSector(2, c), c, v)}
  BY TableCell, PutIs
<1>3. Replace(c, v) = a \o b
  BY DEF Replace
<1> HIDE DEF a, b
<1>4. a \o b \in Seq(Cells)
      /\ \A x : x \in ToSet(a \o b) <=> x \in ToSet(a) \/ x \in ToSet(b)
  BY <1>1, <1>2, ConcatSet
<1> QED
  BY <1>1, <1>2, <1>3, <1>4 DEF TableCells

(* Some clusters set free.                                                 *)
LEMMA FreedIs ==
  ASSUME NEW freed, NEW n \in Nat, DOMAIN freed = 1 .. n,
         \A i \in 1 .. n : freed[i] \in Clusters
  PROVE  LET puts == FlattenSeq([i \in DOMAIN freed |-> Replace(freed[i], 0)])
         IN /\ puts \in Seq(Cells)
            /\ \A p : p \in ToSet(puts) <=> \E i \in 1 .. n : p \in TableCells(freed[i], 0)
<1> DEFINE seqs == [i \in DOMAIN freed |-> Replace(freed[i], 0)]
<1>0. 0 \in TableValues
  BY Numbers DEF TableValues
<1>1. \A i \in 1 .. n :
        /\ seqs[i] \in Seq(Cells)
        /\ \A p : p \in ToSet(seqs[i]) <=> p \in TableCells(freed[i], 0)
  BY <1>0, ReplaceIs
<1>2. seqs = [i \in 1 .. n |-> seqs[i]]
  OBVIOUS
<1> HIDE DEF seqs
<1>3. seqs \in Seq(Seq(Cells)) /\ DOMAIN seqs = 1 .. n
  BY <1>1, <1>2
<1>4. /\ FlattenSeq(seqs) \in Seq(Cells)
      /\ \A x : x \in ToSet(FlattenSeq(seqs)) <=>
                \E i \in DOMAIN seqs : x \in ToSet(seqs[i])
  BY <1>3, FlattenIs
<1> QED
  BY <1>1, <1>3, <1>4 DEF seqs

InTables(p) == \E c \in Clusters, v \in TableValues : p \in TableCells(c, v)

(* A chain that is cut gives back the clusters beyond its new length; the  *)
(* file system is not full when it gives back any.                         *)
LEMMA ShrunkIs ==
  ASSUME TableOK(mem), next_free \in TableValues, filesystem_full \in BOOLEAN,
         NEW first \in TableValues, NEW size \in Nat, size <= Length(mem, first)
  PROVE  LET r == Shrunk(first, size)
             chain == Chain(mem, first)
             long == Length(mem, first)
         IN /\ r.puts \in Seq(Cells) /\ \A p \in ToSet(r.puts) : InTables(p)
            /\ r.first \in {0, first} /\ r.next_free \in TableValues
            /\ r.ok /\ ~r.short /\ r.full \in BOOLEAN
            /\ r.full => filesystem_full /\ ToSet(r.puts) = {}
            /\ size = long => ToSet(r.puts) = {} /\ r.first = first
            /\ size = 0 /\ long > 0 =>
                 /\ r.first = 0
                 /\ \A p : p \in ToSet(r.puts) <=>
                           \E i \in 0 .. long - 1 : p \in TableCells(chain[i], 0)
<1> DEFINE r == Shrunk(first, size)
           chain == Chain(mem, first)
           long == Length(mem, first)
           n == long - size
           freed == [i \in 1 .. n |-> chain[size + i - 1]]
           end == IF size = 0 \/ freed = <<>> THEN <<>>
                  ELSE Replace(chain[size - 1], LastCluster)
           zeros == FlattenSeq([i \in DOMAIN freed |-> Replace(freed[i], 0)])
<1>1. /\ r.puts = end \o zeros
      /\ r.first = IF size = 0 /\ freed # <<>> THEN 0 ELSE first
      /\ r.next_free = Min(ToSet(freed) \union {next_free})
      /\ r.full = StaysFull(freed) /\ r.ok = TRUE /\ r.short = FALSE
  BY DEF Shrunk, Result
<1>2. long \in 0 .. NumberCluster + 1 /\ NumberCluster \in Nat
      /\ \A i \in 0 .. NumberCluster : Valid(chain[i]) <=> i < long
  BY ChainLength, Numbers
<1>3. n \in Nat /\ LastCluster \in TableValues /\ 0 \in TableValues
  BY <1>2 DEF LastCluster, TableValues
<1> HIDE DEF r, chain, long
<1>4. \A i \in 0 .. long - 1 : chain[i] \in Clusters
  BY <1>2 DEF Valid
<1>5. \A i \in 1 .. n : size + i - 1 \in 0 .. long - 1 /\ freed[i] = chain[size + i - 1]
  BY <1>2, <1>3
<1>6. DOMAIN freed = 1 .. n /\ \A i \in 1 .. n : freed[i] \in Clusters
  BY <1>4, <1>5
<1>7. freed = <<>> <=> n = 0
  <2>1. n = 0 => freed = <<>>
    OBVIOUS
  <2>2. n # 0 => 1 \in DOMAIN freed
    BY <1>3, <1>6
  <2> QED
    BY <2>1, <2>2
<1> HIDE DEF freed
<1>8. /\ zeros \in Seq(Cells)
      /\ \A p : p \in ToSet(zeros) <=> \E i \in 1 .. n : p \in TableCells(freed[i], 0)
  BY <1>3, <1>6, FreedIs
<1>9. /\ end \in Seq(Cells)
      /\ \A p \in ToSet(end) : freed # <<>> /\ size # 0 /\ InTables(p)
  <2>1. CASE size = 0 \/ freed = <<>>
    BY <2>1, NoPut
  <2>2. CASE ~(size = 0 \/ freed = <<>>)
    <3>1. end = Replace(chain[size - 1], LastCluster)
      BY <2>2
    <3>2. size - 1 \in 0 .. long - 1
      BY <1>2, <1>3, <1>7, <2>2
    <3>3. chain[size - 1] \in Clusters
      BY <1>4, <3>2
    <3> QED
      BY <1>3, <2>2, <3>1, <3>3, ReplaceIs DEF InTables
  <2> QED
    BY <2>1, <2>2
<1> HIDE DEF end, zeros
<1>10. /\ r.puts \in Seq(Cells)
       /\ \A x : x \in ToSet(r.puts) <=> x \in ToSet(end) \/ x \in ToSet(zeros)
  BY <1>1, <1>8, <1>9, ConcatSet
<1>11. \A p \in ToSet(r.puts) : InTables(p)
  BY <1>3, <1>6, <1>8, <1>9, <1>10 DEF InTables
<1>12. r.next_free \in TableValues
  <2>1. ToSet(freed) \subseteq TableValues
    BY <1>2, <1>6 DEF ToSet, Clusters, TableValues
  <2>2. ToSet(freed) \union {next_free} \in SUBSET Nat
    BY <1>2, <2>1 DEF TableValues
  <2> QED
    BY <1>1, <2>1, <2>2, MinIs
<1>13. n = 0 => ToSet(r.puts) = {}
  BY <1>7, <1>8, <1>9, <1>10
<1>14. r.full \in BOOLEAN /\ (r.full => filesystem_full /\ ToSet(r.puts) = {})
  BY <1>1, <1>7, <1>13 DEF StaysFull
<1>15. size = long => ToSet(r.puts) = {} /\ r.first = first
  BY <1>1, <1>2, <1>7, <1>13
<1>16. ASSUME size = 0, long > 0
       PROVE  /\ r.first = 0
              /\ \A p : p \in ToSet(r.puts) <=>
                        \E i \in 0 .. long - 1 : p \in TableCells(chain[i], 0)
  <2>1. n = long /\ freed # <<>>
    BY <1>2, <1>7, <1>16
  <2>2. \A i \in 1 .. n : i - 1 \in 0 .. long - 1 /\ freed[i] = chain[i - 1]
    <3>1. \A i \in 1 .. n : size + i - 1 = i - 1
      BY <1>2, <1>3, <1>16
    <3> QED
      BY <1>5, <3>1
  <2>3. \A i \in 0 .. long - 1 : i + 1 \in 1 .. n /\ freed[i + 1] = chain[i]
    <3>1. \A i \in 0 .. long - 1 : i + 1 \in 1 .. n /\ (i + 1) - 1 = i
      BY <1>2, <2>1
    <3> QED
      BY <2>2, <3>1
  <2>4. \A p : p \in ToSet(r.puts) <=> p \in ToSet(zeros)
    BY <1>9, <1>10, <1>16
  <2> QED
    BY <1>1, <1>8, <1>16, <2>1, <2>2, <2>3, <2>4
<1>17. r.first \in {0, first}
  BY <1>1
<1> QED
  BY <1>1, <1>10, <1>11, <1>12, <1>14, <1>15, <1>16, <1>17 DEF r, chain, long

(* The free clusters can be counted.                                       *)
LEMMA FreeIs ==
  /\ IsFiniteSet(FreeClusters) /\ Cardinality(FreeClusters) \in Nat
  /\ FreeClusters \subseteq Clusters
  /\ Cardinality(FreeClusters) = 0 <=> FreeClusters = {}
<1>1. 2 \in Int /\ NumberCluster - 1 \in Int
  BY Numbers
<1>2. IsFiniteSet(Clusters)
  BY <1>1, FS_Interval DEF Clusters
<1>3. FreeClusters \subseteq Clusters
  BY DEF FreeClusters
<1>4. IsFiniteSet(FreeClusters)
  BY <1>2, <1>3, FS_Subset
<1> QED
  BY <1>3, <1>4, FS_CardinalityType, FS_EmptySet

(* A chain that grows takes one free cluster, or none if there are too     *)
(* few, which makes the file system full.                                  *)
LEMMA GrownIs ==
  ASSUME TableOK(mem), next_free \in TableValues, filesystem_full \in BOOLEAN,
         NEW first \in TableValues, NEW need \in Nat, need > 0
  PROVE  LET have == Length(mem, first)
             r == Grown(first, have, need)
         IN /\ r.puts \in Seq(Cells) /\ \A p \in ToSet(r.puts) : InTables(p)
            /\ r.next_free \in TableValues
            /\ r.full \in BOOLEAN /\ r.ok \in BOOLEAN /\ r.short \in BOOLEAN
            /\ r.full => filesystem_full \/ r.short \/ FreeClusters = {}
            /\ r.full <=> ~r.ok
            /\ ~r.ok => ToSet(r.puts) = {}
            /\ r.ok =>
                 /\ r.short <=> need > 1
                 /\ need <= Cardinality(FreeClusters)
                 /\ \E got \in FreeClusters :
                      /\ r.first = IF have = 0 THEN got ELSE first
                      /\ \A p : p \in ToSet(r.puts) <=>
                           \/ have # 0 /\ p \in TableCells(Chain(mem, first)[have - 1], got)
                           \/ p \in TableCells(got, LastCluster)
<1> DEFINE have == Length(mem, first)
           r == Grown(first, have, need)
           chain == Chain(mem, first)
           start == IF Valid(next_free) THEN next_free ELSE 2
           Round(c) == (c - start) % (NumberCluster - 2)
           got == CHOOSE c \in FreeClusters :
                    \A d \in FreeClusters : Round(c) <= Round(d)
<1>1. have \in 0 .. NumberCluster + 1 /\ NumberCluster \in Nat /\ NumberCluster > 2
      /\ \A i \in 0 .. NumberCluster : Valid(chain[i]) <=> i < have
  BY ChainLength, Numbers
<1>2. start \in Clusters /\ start \in TableValues /\ BadCluster \in TableValues
      /\ LastCluster \in TableValues /\ Clusters \subseteq TableValues
  BY <1>1 DEF Valid, Clusters, TableValues, BadCluster, LastCluster
<1>3. have # 0 => chain[have - 1] \in Clusters
  BY <1>1 DEF Valid
<1>4. CASE filesystem_full
  <2>1. r = Result(BadCluster, <<>>, next_free, TRUE, FALSE, FALSE)
    BY <1>4 DEF Grown
  <2> HIDE DEF r
  <2> QED
    BY <1>2, <1>4, <2>1, NoPut DEF r, Result
<1>5. CASE ~filesystem_full /\ need > Cardinality(FreeClusters)
  <2>1. r = Result(BadCluster, <<>>, start, TRUE, FALSE, need > 1)
    BY <1>5 DEF Grown
  <2>2. need > 1 \/ FreeClusters = {}
    BY <1>5, FreeIs
  <2> HIDE DEF r, start
  <2>3. r.puts = <<>> /\ r.first = BadCluster /\ r.next_free = start /\ r.full = TRUE
        /\ r.ok = FALSE /\ r.short = (need > 1)
    BY <2>1 DEF Result
  <2>4. (need > 1) \in BOOLEAN
    OBVIOUS
  <2> QED
    BY <1>2, <2>2, <2>3, <2>4, NoPut DEF r
<1>6. CASE ~filesystem_full /\ ~(need > Cardinality(FreeClusters))
  <2> DEFINE a == IF have = 0 THEN <<>> ELSE Replace(chain[have - 1], got)
             b == Replace(got, LastCluster)
  <2>1. r = Result(IF have = 0 THEN got ELSE first, a \o b,
                   IF Valid(got + 1) THEN got + 1 ELSE 2, FALSE, TRUE, need > 1)
    BY <1>6 DEF Grown
  <2>2. got \in FreeClusters
    <3> DEFINE S == {Round(c) : c \in FreeClusters}
    <3>1. \A c \in FreeClusters : Round(c) \in Nat
      <4> TAKE c \in FreeClusters
      <4>1. c - start \in Int /\ NumberCluster - 2 \in Nat /\ NumberCluster - 2 > 0
        BY <1>1, <1>2, FreeIs DEF Clusters
      <4> HIDE DEF start
      <4> QED
        BY <4>1
    <3>2. FreeClusters # {}
      BY <1>6, FreeIs
    <3> HIDE DEF Round
    <3>3. S \in SUBSET Nat /\ S # {}
      BY <3>1, <3>2
    <3>4. PICK x \in S : \A y \in S : x <= y
      BY <3>3, Least
    <3>5. \E c \in FreeClusters : \A d \in FreeClusters : Round(c) <= Round(d)
      BY <3>4
    <3> QED
      BY <3>5
  <2> HIDE DEF r, start, got
  <2>3. got \in Clusters /\ got \in TableValues
    BY <1>2, <2>2, FreeIs
  <2>4. b \in Seq(Cells) /\ \A p : p \in ToSet(b) <=> p \in TableCells(got, LastCluster)
    BY <1>2, <2>3, ReplaceIs
  <2>5. /\ a \in Seq(Cells)
        /\ \A p : p \in ToSet(a) <=>
                  have # 0 /\ p \in TableCells(chain[have - 1], got)
    <3>1. CASE have = 0
      BY <3>1, NoPut
    <3>2. CASE have # 0
      <4>1. a = Replace(chain[have - 1], got)
        BY <3>2
      <4> HIDE DEF a, have
      <4> QED
        BY <1>3, <2>3, <3>2, <4>1, ReplaceIs
    <3> QED
      BY <3>1, <3>2
  <2> HIDE DEF a, b
  <2>6. a \o b \in Seq(Cells)
        /\ \A x : x \in ToSet(a \o b) <=> x \in ToSet(a) \/ x \in ToSet(b)
    BY <2>4, <2>5, ConcatSet
  <2>7. /\ r.puts = a \o b /\ r.first = IF have = 0 THEN got ELSE first
        /\ r.next_free = IF Valid(got + 1) THEN got + 1 ELSE 2
        /\ r.full = FALSE /\ r.ok = TRUE /\ r.short = (need > 1)
    BY <2>1 DEF Result
  <2>8. r.next_free \in TableValues
    BY <1>1, <2>7 DEF Valid, Clusters, TableValues
  <2>9. \A p \in ToSet(r.puts) : InTables(p)
    BY <1>2, <1>3, <2>3, <2>4, <2>5, <2>6, <2>7 DEF InTables
  <2>10. (need > 1) \in BOOLEAN
    OBVIOUS
  <2>11. \A p : p \in ToSet(r.puts) <=>
           \/ have # 0 /\ p \in TableCells(chain[have - 1], got)
           \/ p \in TableCells(got, LastCluster)
    BY <2>4, <2>5, <2>6, <2>7
  <2>12. need <= Cardinality(FreeClusters)
    BY <1>6, FreeIs
  <2> HIDE DEF have, chain
  <2> QED
    BY <2>2, <2>6, <2>7, <2>8, <2>9, <2>10, <2>11, <2>12 DEF r, have, chain
<1> QED
  BY <1>4, <1>5, <1>6

-----------------------------------------------------------------------------
(* The quotients of places.                                                *)
LEMMA DivIs ==
  ASSUME NEW a \in Nat, NEW b \in Nat, b > 0
  PROVE  a \div b \in Nat /\ a % b \in 0 .. b - 1 /\ a = b * (a \div b) + (a % b)
BY SMT

(* Division with a remainder.                                              *)
LEMMA DivUnique ==
  ASSUME NEW b \in Nat, b > 0, NEW q \in Nat, NEW i \in 0 .. b - 1
  PROVE  (b * q + i) \div b = q /\ (b * q + i) % b = i
BY SMT

(* Division keeps the order.                                               *)
LEMMA DivMono ==
  ASSUME NEW a \in Nat, NEW c \in Nat, NEW b \in Nat, b > 0, a <= c
  PROVE  a \div b <= c \div b
BY SMT

(* One more divisor is one more.                                           *)
LEMMA DivPlus ==
  ASSUME NEW a \in Nat, NEW b \in Nat, b > 0
  PROVE  (a + b) \div b = (a \div b) + 1
BY SMT

(* How many clusters a size asks for.                                      *)
LEMMA ClustersForIs ==
  /\ ClustersFor(0) = 0
  /\ \A n \in Nat : ClustersFor(n) \in Nat /\ ClustersFor(n + 1) = (n \div PerCluster) + 1
  /\ \A n, m \in Nat : n <= m => ClustersFor(n) <= ClustersFor(m)
<1>1. PerCluster \in Nat /\ PerCluster > 0
  BY Numbers
<1>2. ClustersFor(0) = 0
  <2>1. 0 + PerCluster - 1 = PerCluster * 0 + (PerCluster - 1)
    BY <1>1
  <2>2. PerCluster - 1 \in 0 .. PerCluster - 1
    BY <1>1
  <2> QED
    BY <1>1, <2>1, <2>2, DivUnique DEF ClustersFor
<1>3. ASSUME NEW n \in Nat
      PROVE  ClustersFor(n) \in Nat /\ ClustersFor(n + 1) = (n \div PerCluster) + 1
  <2>1. n + PerCluster - 1 \in Nat /\ (n + 1) + PerCluster - 1 = n + PerCluster
    BY <1>1
  <2> QED
    BY <1>1, <2>1, DivIs, DivPlus DEF ClustersFor
<1>4. ASSUME NEW n \in Nat, NEW m \in Nat, n <= m
      PROVE  ClustersFor(n) <= ClustersFor(m)
  <2>1. n + PerCluster - 1 \in Nat /\ m + PerCluster - 1 \in Nat
        /\ n + PerCluster - 1 <= m + PerCluster - 1
    BY <1>1, <1>4
  <2> QED
    BY <1>1, <2>1, DivMono DEF ClustersFor
<1> QED
  BY <1>2, <1>3, <1>4

(* A file has more clusters than are passed before a place within it.      *)
LEMMA ClustersPassed ==
  ASSUME NEW n \in Nat, NEW m \in Nat, m > n
  PROVE  ClustersFor(m) > n \div PerCluster /\ n \div PerCluster \in Nat
<1>1. ClustersFor(n + 1) = (n \div PerCluster) + 1 /\ ClustersFor(n + 1) <= ClustersFor(m)
  BY ClustersForIs
<1>2. n \div PerCluster \in Nat /\ ClustersFor(m) \in Nat
  BY Numbers, DivIs, ClustersForIs
<1> QED
  BY <1>1, <1>2

-----------------------------------------------------------------------------
(* Files made longer and shorter.                                          *)
AoFile == [busy : BOOLEAN, dirent : Dirents, offset : Nat, cluster_offset : Nat,
           cluster : Starts]

AoDirent == [entry : 0 .. root_entries, size : Nat, cluster : Starts]

FilesOK ==
  /\ root_entries \in Nat /\ root_entries > 0
  /\ file \in [Users -> AoFile] /\ ao_file_dirent \in [Dirents -> AoDirent]
  /\ next_free \in TableValues /\ filesystem_full \in BOOLEAN

Room(r) == filesystem_full \/ r.short \/ FreeClusters = {}

TableResult(r) ==
  /\ r = Result(r.first, r.puts, r.next_free, r.full, r.ok, r.short)
  /\ r.puts \in Seq(Cells) /\ \A p \in ToSet(r.puts) : InTables(p)
  /\ r.ok => r.first \in Starts
  /\ r.next_free \in TableValues
  /\ r.full \in BOOLEAN /\ r.ok \in BOOLEAN /\ r.short \in BOOLEAN
  /\ r.full => ToSet(r.puts) = {} /\ Room(r)

(* The tables in the cache have numbers of clusters.                       *)
LEMMA TableTyped == ASSUME CacheOK PROVE TableOK(mem)
<1> SUFFICES ASSUME NEW c \in Clusters
             PROVE  mem[FatSector(1, c)][c] \in TableValues
  BY DEF TableOK
<1>1. FatSector(1, c) \in FatSectors /\ c \in Keys(FatSector(1, c))
      /\ Holds(FatSector(1, c)) = TableValues
  BY TableCell
<1>2. mem[FatSector(1, c)] \in [Keys(FatSector(1, c)) -> Holds(FatSector(1, c))]
  BY <1>1 DEF CacheOK, Contents
<1> QED
  BY <1>1, <1>2

(* The table after a new size, in every case.                              *)
LEMMA SetSizeOK ==
  ASSUME CacheOK, FilesOK, NEW first \in Starts, NEW size \in Nat
  PROVE  TableResult(SetSize(first, size))
<1> DEFINE have == Length(mem, first)
<1>1. TableOK(mem) /\ next_free \in TableValues /\ filesystem_full \in BOOLEAN
  BY TableTyped DEF FilesOK
<1>2. have \in Nat /\ first \in TableValues /\ 0 \in Starts
  BY ChainLength, Numbers, StartsTyped
<1>3. CASE have >= size
  <2> DEFINE r == Shrunk(first, size)
  <2>1. SetSize(first, size) = r
    BY <1>3 DEF SetSize
  <2>2. r = Result(r.first, r.puts, r.next_free, r.full, r.ok, r.short)
    BY DEF Shrunk, Result
  <2>3. size <= Length(mem, first)
    BY <1>2, <1>3
  <2>4. /\ r.puts \in Seq(Cells) /\ \A p \in ToSet(r.puts) : InTables(p)
        /\ r.first \in Starts /\ r.next_free \in TableValues
        /\ r.ok /\ ~r.short /\ r.full \in BOOLEAN
        /\ r.full => filesystem_full /\ ToSet(r.puts) = {}
    BY <1>1, <1>2, <2>3, ShrunkIs
  <2>5. r.ok = TRUE /\ r.short = FALSE
    BY DEF Shrunk, Result
  <2> HIDE DEF r
  <2> QED
    BY <2>1, <2>2, <2>4, <2>5 DEF TableResult, Room
<1>4. CASE ~(have >= size)
  <2> DEFINE need == size - have
             r == Grown(first, have, need)
  <2>1. SetSize(first, size) = r
    BY <1>4 DEF SetSize
  <2>2. r = Result(r.first, r.puts, r.next_free, r.full, r.ok, r.short)
    BY DEF Grown, Result
  <2>3. need \in Nat /\ need > 0
    BY <1>2, <1>4
  <2> HIDE DEF need
  <2>4. /\ r.puts \in Seq(Cells) /\ \A p \in ToSet(r.puts) : InTables(p)
        /\ (r.ok => r.first \in Starts) /\ r.next_free \in TableValues
        /\ r.full \in BOOLEAN /\ r.ok \in BOOLEAN /\ r.short \in BOOLEAN
        /\ r.full => filesystem_full \/ r.short \/ FreeClusters = {}
        /\ r.full <=> ~r.ok
        /\ ~r.ok => ToSet(r.puts) = {}
    <3>1. /\ r.puts \in Seq(Cells) /\ \A p \in ToSet(r.puts) : InTables(p)
          /\ r.next_free \in TableValues
          /\ r.full \in BOOLEAN /\ r.ok \in BOOLEAN /\ r.short \in BOOLEAN
          /\ r.full => filesystem_full \/ r.short \/ FreeClusters = {}
          /\ r.full <=> ~r.ok
          /\ ~r.ok => ToSet(r.puts) = {}
          /\ r.ok => \E got \in FreeClusters : r.first = IF have = 0 THEN got ELSE first
      BY <1>1, <1>2, <2>3, GrownIs
    <3> HIDE DEF r, have
    <3>2. r.ok => r.first \in Starts
      BY <3>1, FreeIs DEF Starts
    <3> QED
      BY <3>1, <3>2
  <2> HIDE DEF r
  <2> QED
    BY <2>1, <2>2, <2>4 DEF TableResult, Room
<1> QED
  BY <1>3, <1>4

(* The same for a file that may have its clusters already.                 *)
LEMMA InTableOK ==
  ASSUME CacheOK, FilesOK, NEW f \in AoFile, NEW d \in AoDirent, NEW size \in Nat
  PROVE  TableResult(InTable(f, d, size))
<1> DEFINE need == ClustersFor(size)
<1>1. f.cluster \in Starts /\ f.cluster_offset \in Nat /\ d.cluster \in Starts
      /\ d.size \in Nat /\ need \in Nat
  BY ClustersForIs DEF AoFile, AoDirent
<1>2. CASE ClustersFor(d.size) = need
  <2>1. InTable(f, d, size)
          = Result(d.cluster, <<>>, next_free, filesystem_full, TRUE, FALSE)
    BY <1>2 DEF InTable
  <2> QED
    BY <1>1, <2>1, NoPut DEF TableResult, Result, FilesOK, Room
<1>3. CASE ClustersFor(d.size) # need /\ FromHere(f, size)
  <2> DEFINE n == need - f.cluster_offset \div PerCluster
  <2>1. InTable(f, d, size) = SetSize(f.cluster, n)
    BY <1>3 DEF InTable
  <2>2. n \in Nat
    BY <1>1, <1>3, ClustersPassed DEF FromHere
  <2> HIDE DEF n
  <2> QED
    BY <1>1, <2>1, <2>2, SetSizeOK
<1>4. CASE ClustersFor(d.size) # need /\ ~FromHere(f, size)
  BY <1>1, <1>4, SetSizeOK DEF InTable
<1> QED
  BY <1>2, <1>3, <1>4

(* The entries of the directory in the cache.                              *)
LEMMA RootTyped ==
  ASSUME CacheOK
  PROVE  /\ mem[RootSector] = [e \in Entries |-> mem[RootSector][e]]
         /\ \A e \in Entries : mem[RootSector][e] \in
                                 [name : Named, size : Nat, cluster : Starts]
BY RootCell DEF CacheOK, Contents

SizedOK(r, files, dirents, d) ==
  /\ r.puts \in Seq(Cells)
  /\ \A p \in ToSet(r.puts) : InTables(p) \/ p.sector = RootSector
  /\ r.files \in [Users -> AoFile] /\ r.dirents \in [Dirents -> AoDirent]
  /\ \A v \in Users : r.files[v].busy = files[v].busy
                      /\ r.files[v].dirent = files[v].dirent
  /\ \A e \in Dirents : /\ r.dirents[e].entry = dirents[e].entry
                        /\ e # d => r.dirents[e] = dirents[e]
  /\ r.next_free \in TableValues
  /\ r.full \in BOOLEAN /\ r.ok \in BOOLEAN /\ r.short \in BOOLEAN
  /\ r.full => (\A p \in ToSet(r.puts) : p.sector = RootSector) /\ Room(r)

(* Places are forgotten, the files stay open.                              *)
LEMMA ForgetPlacesIs ==
  ASSUME NEW files \in [Users -> AoFile], NEW d, NEW size, NEW cluster \in Starts
  PROVE  LET g == ForgetPlaces(files, d, size, cluster)
         IN /\ g \in [Users -> AoFile]
            /\ \A u \in Users : /\ g[u].busy = files[u].busy
                                /\ g[u].dirent = files[u].dirent
                                /\ g[u].offset = files[u].offset
BY DEF ForgetPlaces, AoFile

(* What setting a size returns: changes of the tables and the directory,   *)
(* and the same files open with the same ao_file_dirent.                   *)
LEMMA ResizeOK ==
  ASSUME CacheOK, FilesOK, NEW files \in [Users -> AoFile],
         NEW dirents \in [Dirents -> AoDirent], NEW u \in Users, NEW size \in Nat,
         dirents[files[u].dirent].entry \in Entries
  PROVE  SizedOK(Resize(files, dirents, u, size), files, dirents, files[u].dirent)
<1> DEFINE f == files[u]
           d == dirents[f.dirent]
           t == InTable(f, d, size)
           first == IF FromHere(f, size) THEN d.cluster ELSE t.first
           dent == Dent(mem[RootSector][d.entry].name, size, first)
           put == Put(RootSector, d.entry, dent)
           r == Resize(files, dirents, u, size)
<1>1. f \in AoFile /\ f.dirent \in Dirents
  BY DEF AoFile
<1>2. d \in AoDirent /\ d.entry \in Entries
  BY <1>1
<1>3. TableResult(t)
  BY <1>1, <1>2, InTableOK
<1>4. t.ok => first \in Starts
  BY <1>2, <1>3 DEF TableResult, AoDirent
<1>5. t.ok => put \in Seq(Cells) /\ ToSet(put) = {Cell(RootSector, d.entry, dent)}
  <2>1. t.ok => dent \in Holds(RootSector) /\ d.entry \in Keys(RootSector)
    BY <1>2, <1>4, RootCell, RootTyped DEF Dent
  <2> QED
    BY <2>1, RootCell, PutIs
<1>6. r = InDirectory(files, dirents, f, d, size, t)
  BY DEF Resize
<1> HIDE DEF t
<1>7. CASE size = d.size \/ ~t.ok
  <2>1. r = Sized(t, <<>>, files, dirents)
    BY <1>6, <1>7 DEF InDirectory
  <2>2. /\ r.puts = <<>> /\ r.files = files /\ r.dirents = dirents
        /\ r.next_free = t.next_free /\ r.full = t.full /\ r.ok = t.ok
        /\ r.short = t.short
    BY <2>1 DEF Sized
  <2> HIDE DEF r
  <2> QED
    BY <1>3, <2>2, NoPut DEF SizedOK, TableResult, Room, r
<1>8. CASE ~(size = d.size \/ ~t.ok)
  <2> DEFINE nfiles == IF ClustersFor(d.size) > ClustersFor(size)
                       THEN ForgetPlaces(files, f.dirent, size, first) ELSE files
             ndirents == [dirents EXCEPT ![f.dirent].size = size,
                                         ![f.dirent].cluster = first]
  <2>1. r = Sized(t, t.puts \o put, nfiles, ndirents)
    BY <1>6, <1>8 DEF InDirectory
  <2>2. nfiles \in [Users -> AoFile]
        /\ \A v \in Users : nfiles[v].busy = files[v].busy
                            /\ nfiles[v].dirent = files[v].dirent
    <3> HIDE DEF first
    <3> QED
      BY <1>4, <1>8, ForgetPlacesIs
  <2>3. ndirents \in [Dirents -> AoDirent]
        /\ \A e \in Dirents : /\ ndirents[e].entry = dirents[e].entry
                              /\ e # f.dirent => ndirents[e] = dirents[e]
    <3> HIDE DEF first, f
    <3> QED
      BY <1>1, <1>4, <1>8 DEF AoDirent
  <2> HIDE DEF nfiles, ndirents, put, dent, first
  <2>4. /\ r.puts = t.puts \o put /\ r.files = nfiles /\ r.dirents = ndirents
        /\ r.next_free = t.next_free /\ r.full = t.full /\ r.ok = t.ok
        /\ r.short = t.short
    BY <2>1 DEF Sized
  <2> HIDE DEF r
  <2>5. t.puts \o put \in Seq(Cells)
        /\ \A x : x \in ToSet(t.puts \o put) <=> x \in ToSet(t.puts) \/ x \in ToSet(put)
    BY <1>3, <1>5, <1>8, ConcatSet DEF TableResult
  <2>6. \A p \in ToSet(put) : p.sector = RootSector
    BY <1>5, <1>8 DEF Cell
  <2>7. \A p \in ToSet(r.puts) : InTables(p) \/ p.sector = RootSector
    BY <1>3, <2>4, <2>5, <2>6 DEF TableResult
  <2>8. r.full => (\A p \in ToSet(r.puts) : p.sector = RootSector) /\ Room(r)
    BY <1>3, <2>4, <2>5, <2>6 DEF TableResult, Room
  <2> QED
    BY <1>3, <2>2, <2>3, <2>4, <2>5, <2>7, <2>8 DEF SizedOK, TableResult, r
<1> QED
  BY <1>7, <1>8

(* The tables are neither the directory nor data.                          *)
LEMMA SectorOfTables ==
  ASSUME NEW p, InTables(p)
  PROVE  p.sector # RootSector /\ \A c : p.sector # DataSector(c)
<1>1. PICK c \in Clusters, v \in TableValues, fat \in {1, 2} :
        p = Cell(FatSector(fat, c), c, v)
  BY DEF InTables, TableCells
<1>2. p.sector = FatSector(fat, c)
  BY <1>1 DEF Cell
<1> QED
  BY <1>2, TableCell

(* The cache is in order after some changes; what the table has is the     *)
(* same if none of them is of the table.                                   *)
LEMMA CacheChanged ==
  ASSUME CacheOK, NEW puts \in Seq(Cells), Change(puts), UNCHANGED root_entries
  PROVE  /\ CacheOK'
         /\ AfterOK([mem |-> mem', may |-> may'], puts)
<1> DEFINE a == After(puts)
<1>1. AfterOK(a, puts)
  BY AfterIs
<1>2. mem' = a.mem /\ may' = a.may
  BY DEF Change
<1>3. \A s : Contents(s)' = Contents(s)
  BY DEF Contents, Keys, Holds, Entries
<1> HIDE DEF a
<1>4. CacheOK'
  BY <1>1, <1>2, <1>3 DEF CacheOK, AfterOK
<1> QED
  BY <1>1, <1>2, <1>4 DEF AfterOK

(* A cell that no change puts.                                             *)
LEMMA SameCell ==
  ASSUME NEW a, NEW puts, AfterOK(a, puts), NEW s \in FatSectors, NEW k \in Keys(s),
         \A p \in ToSet(puts) : ~(p.sector = s /\ p.key = k)
  PROVE  a.mem[s][k] = mem[s][k]
<1>1. Written(puts, s, k) = {}
  BY DEF Written
<1> QED
  BY <1>1 DEF AfterOK

(* A cell that changes put with one value only.                            *)
LEMMA NewCell ==
  ASSUME NEW a, NEW puts, AfterOK(a, puts), NEW s \in FatSectors, NEW k \in Keys(s),
         NEW v, Cell(s, k, v) \in ToSet(puts),
         \A p \in ToSet(puts) : p.sector = s /\ p.key = k => p.value = v
  PROVE  a.mem[s][k] = v
<1>1. Written(puts, s, k) = {v}
  BY DEF Written, Cell
<1> QED
  BY <1>1 DEF AfterOK

-----------------------------------------------------------------------------
(* Files opened.                                                           *)
Opening(v, d) == file[v].busy /\ file[v].dirent = d

DirentsOK ==
  /\ \A u \in Users : file[u].busy => ao_file_dirent[file[u].dirent].entry \in Entries
  /\ \A d \in Dirents : ao_file_dirent[d] = NoDirent \/ \E u \in Users : Opening(u, d)

(* There is an ao_file_dirent for each of the two tasks.                   *)
LEMMA TwoDirents == 0 \in Dirents /\ 1 \in Dirents /\ Dirents \subseteq Nat
<1>1. Cardinality({"log", "console"}) = 2
  <2>1. IsFiniteSet({"log"}) /\ Cardinality({"log"}) = 1
    BY FS_Singleton
  <2>2. {"log", "console"} = {"log"} \union {"console"} /\ "console" \notin {"log"}
    OBVIOUS
  <2> QED
    BY <2>1, <2>2, FS_AddElement
<1>2. NFile \in Nat /\ NFile >= 2
  BY <1>1, FatAssumption DEF Users
<1> QED
  BY <1>2 DEF Dirents

(* A file that is not open, and an ao_file_dirent that is free.            *)
LEMMA NoFileTyped ==
  ASSUME FilesOK
  PROVE  NoFile \in AoFile /\ NoDirent \in AoDirent /\ NoDirent.entry \notin Entries
         /\ Entries \subseteq 0 .. root_entries
BY TwoDirents, Numbers, StartsTyped DEF FilesOK, NoFile, NoDirent, AoFile, AoDirent, Entries

(* A file that is opened shares the ao_file_dirent of its entry, or gets   *)
(* one that is free: there is always one left.                             *)
LEMMA DirentForIs ==
  ASSUME FilesOK, DirentsOK, NEW u \in Users, ~file[u].busy, NEW e \in Entries
  PROVE  /\ DirentFor(e) \in Dirents
         /\ \/ ao_file_dirent[DirentFor(e)].entry = e
            \/ ao_file_dirent[DirentFor(e)] = NoDirent
               /\ \A d \in Dirents : ao_file_dirent[d].entry # e
<1> DEFINE shared == {d \in Dirents : ao_file_dirent[d].entry = e}
           free == {d \in Dirents : ao_file_dirent[d] = NoDirent}
<1>1. shared \in SUBSET Nat /\ free \in SUBSET Nat
  BY TwoDirents
<1>2. free # {}
  <2>1. PICK v \in Users : \A w \in Users : w # u => w = v
    BY DEF Users
  <2>2. PICK d \in {0, 1} : file[v].dirent # d
    OBVIOUS
  <2>3. ~ \E w \in Users : Opening(w, d)
    BY <2>1, <2>2 DEF Opening
  <2> QED
    BY <2>2, <2>3, TwoDirents DEF DirentsOK
<1>3. DirentFor(e) = IF shared # {} THEN Min(shared) ELSE Min(free)
  BY DEF DirentFor
<1>4. CASE shared # {}
  <2>1. Min(shared) \in shared
    BY <1>1, <1>4, MinIs
  <2> QED
    BY <1>3, <1>4, <2>1
<1>5. CASE shared = {}
  <2>1. Min(free) \in free
    BY <1>1, <1>2, MinIs
  <2> QED
    BY <1>3, <1>5, <2>1
<1> QED
  BY <1>4, <1>5

(* A file opened at an entry, and nothing else.                            *)
OpenedAt(o, u, d, e) ==
  /\ d \in Dirents
  /\ o.files \in [Users -> AoFile] /\ o.dirents \in [Dirents -> AoDirent]
  /\ o.files[u].busy /\ o.files[u].dirent = d
  /\ o.files[u].offset = 0 /\ o.files[u].cluster_offset = 0
  /\ \A v \in Users \ {u} : o.files[v] = file[v]
  /\ o.dirents[d].entry = e
  /\ \A c \in Dirents \ {d} : o.dirents[c] = ao_file_dirent[c]

(* A file that is opened starts at offset 0 of its first cluster.          *)
LEMMA OpenAtIs ==
  ASSUME FilesOK, NEW u \in Users, NEW d \in Dirents,
         NEW dirents \in [Dirents -> AoDirent], NEW cluster \in Starts,
         \A c \in Dirents \ {d} : dirents[c] = ao_file_dirent[c]
  PROVE  LET o == OpenAt(u, d, dirents, cluster)
         IN /\ OpenedAt(o, u, d, dirents[d].entry)
            /\ o.files[u].cluster = cluster /\ o.dirents = dirents
<1> DEFINE o == OpenAt(u, d, dirents, cluster)
           new == [NoFile EXCEPT !.busy = TRUE, !.dirent = d, !.cluster = cluster]
<1>1. o.files = [file EXCEPT ![u] = new] /\ o.dirents = dirents
  BY DEF OpenAt
<1>2. NoFile \in AoFile /\ NoFile.offset = 0 /\ NoFile.cluster_offset = 0
  BY NoFileTyped DEF NoFile
<1>3. new \in AoFile /\ new.busy /\ new.dirent = d /\ new.offset = 0
      /\ new.cluster_offset = 0 /\ new.cluster = cluster
  BY <1>2 DEF AoFile
<1> HIDE DEF o, new
<1>4. o.files \in [Users -> AoFile] /\ o.files[u] = new
      /\ \A v \in Users \ {u} : o.files[v] = file[v]
  BY <1>1, <1>3 DEF FilesOK
<1> QED
  BY <1>1, <1>3, <1>4 DEF OpenedAt, o

(* The file opened of an entry that is there.                              *)
LEMMA OpenedIs ==
  ASSUME CacheOK, FilesOK, DirentsOK, NEW u \in Users, ~file[u].busy, NEW e \in Entries
  PROVE  LET o == Opened(u, e)
             d == DirentFor(e)
         IN /\ OpenedAt(o, u, d, e)
            /\ o.files[u].cluster = o.dirents[d].cluster
            /\ IF ao_file_dirent[d].entry = e THEN o.dirents = ao_file_dirent
               ELSE /\ ao_file_dirent[d] = NoDirent
                    /\ \A c \in Dirents : ao_file_dirent[c].entry # e
                    /\ o.dirents[d].size = mem[RootSector][e].size
                    /\ o.dirents[d].cluster = mem[RootSector][e].cluster
<1> DEFINE o == Opened(u, e)
           d == DirentFor(e)
           dent == mem[RootSector][e]
           new == [entry |-> e, size |-> dent.size, cluster |-> dent.cluster]
           dirents == IF ao_file_dirent[d].entry = e THEN ao_file_dirent
                      ELSE [ao_file_dirent EXCEPT ![d] = new]
<1>1. o = OpenAt(u, d, dirents, dirents[d].cluster)
  BY DEF Opened
<1>2. /\ d \in Dirents
      /\ \/ ao_file_dirent[d].entry = e
         \/ ao_file_dirent[d] = NoDirent
            /\ \A c \in Dirents : ao_file_dirent[c].entry # e
  BY DirentForIs
<1>3. new \in AoDirent /\ new.entry = e /\ new.size = dent.size /\ new.cluster = dent.cluster
  BY RootTyped, NoFileTyped DEF AoDirent
<1> HIDE DEF o, d, new
<1>4. /\ dirents \in [Dirents -> AoDirent] /\ dirents[d].entry = e
      /\ \A c \in Dirents \ {d} : dirents[c] = ao_file_dirent[c]
      /\ ao_file_dirent[d].entry # e => dirents[d] = new
      /\ ao_file_dirent[d].entry = e => dirents = ao_file_dirent
  BY <1>2, <1>3 DEF FilesOK
<1> HIDE DEF dirents
<1>5. dirents[d].cluster \in Starts
  BY <1>2, <1>4 DEF AoDirent
<1>6. /\ OpenedAt(o, u, d, e)
      /\ o.files[u].cluster = dirents[d].cluster /\ o.dirents = dirents
  BY <1>1, <1>2, <1>4, <1>5, OpenAtIs
<1> QED
  BY <1>2, <1>3, <1>4, <1>6 DEF o, d

(* The first entry of the directory that has a name.                       *)
LEMMA EntryOfIs ==
  ASSUME FilesOK, NEW n
  PROVE  /\ EntryOf(n) \in 0 .. root_entries
         /\ EntryOf(n) # root_entries =>
              EntryOf(n) \in Entries /\ mem[RootSector][EntryOf(n)].name = n
         /\ \A e \in Entries : mem[RootSector][e].name = n => EntryOf(n) <= e
<1> DEFINE S == {e \in Entries : mem[RootSector][e].name = n} \union {root_entries}
<1>1. root_entries \in Nat
  BY DEF FilesOK
<1>2. S \in SUBSET Nat /\ S # {}
  BY <1>1 DEF Entries
<1>3. Min(S) \in S /\ \A x \in S : Min(S) <= x
  BY <1>2, MinIs
<1>4. EntryOf(n) = Min(S)
  BY DEF EntryOf
<1>5. \A e \in S : e \in 0 .. root_entries
  BY <1>1 DEF Entries
<1> HIDE DEF S
<1>6. EntryOf(n) \in S /\ \A x \in S : EntryOf(n) <= x
  BY <1>3, <1>4
<1> QED
  BY <1>5, <1>6 DEF S

-----------------------------------------------------------------------------
(* What each call leaves: the types, and that a file system that says it   *)
(* is full is.                                                             *)
CallOK(u, busy) ==
  /\ CacheOK' /\ FilesOK' /\ DirentsOK' /\ FullIsFull'
  /\ \A v \in Users : file'[v].busy = IF v = u THEN busy ELSE file[v].busy

Before ==
  /\ CacheOK /\ FilesOK /\ DirentsOK /\ FullIsFull
  /\ broken = "no" /\ UNCHANGED root_entries

(* A full file system has no free cluster after a call that sets           *)
(* filesystem_full only when there is none, or changes no link.            *)
LEMMA FullAfter ==
  ASSUME Before, NEW puts \in Seq(Cells), Change(puts),
         filesystem_full' =>
           /\ \A p \in ToSet(puts) : \A c : p.sector # FatSector(1, c)
           /\ filesystem_full \/ broken' # "no" \/ FreeClusters = {}
  PROVE  FullIsFull'
<1>1. AfterOK([mem |-> mem', may |-> may'], puts)
  BY CacheChanged DEF Before
<1> SUFFICES ASSUME filesystem_full', broken' = "no", NEW c \in Clusters,
                    mem'[FatSector(1, c)][c] = 0
             PROVE  FALSE
  BY DEF FullIsFull, FreeClusters, Entry, Valid
<1>2. FreeClusters = {}
  BY DEF Before, FullIsFull
<1>3. mem'[FatSector(1, c)][c] = mem[FatSector(1, c)][c]
  BY <1>1, TableCell, SameCell
<1> QED
  BY <1>2, <1>3 DEF FreeClusters, Entry, Valid

(* A call that changes no sector.                                          *)
LEMMA SameFull ==
  ASSUME Before, UNCHANGED <<cacheVars, filesystem_full, broken>>
  PROVE  CacheOK' /\ FullIsFull'
<1>1. UNCHANGED <<mem, may, root_entries>>
  BY DEF Before, cacheVars
<1>2. \A s : Contents(s)' = Contents(s)
  BY <1>1 DEF Contents, Keys, Holds, Entries
<1>3. CacheOK'
  BY <1>1, <1>2 DEF CacheOK, Before
<1>4. FreeClusters' = FreeClusters
  BY <1>1 DEF FreeClusters, Entry
<1> QED
  BY <1>3, <1>4 DEF FullIsFull, Before

Leaves(files, dirents, d) ==
  /\ \A v \in Users : file'[v].busy = files[v].busy /\ file'[v].dirent = files[v].dirent
  /\ \A c \in Dirents : /\ ao_file_dirent'[c].entry = dirents[c].entry
                        /\ c # d => ao_file_dirent'[c] = dirents[c]

(* The ao_file_dirent in use after a file has been opened.                 *)
LEMMA DirentsOpened ==
  ASSUME Before, NEW u \in Users, ~file[u].busy, NEW d, NEW e \in Entries, NEW o,
         OpenedAt(o, u, d, e), Leaves(o.files, o.dirents, d)
  PROVE  DirentsOK'
         /\ \A v \in Users : file'[v].busy = IF v = u THEN TRUE ELSE file[v].busy
<1>1. ASSUME NEW v \in Users, file'[v].busy
      PROVE  ao_file_dirent'[file'[v].dirent].entry \in Entries
  <2>1. CASE v = u
    BY <2>1 DEF OpenedAt, Leaves
  <2>2. CASE v # u
    <3>1. file'[v].busy = file[v].busy /\ file'[v].dirent = file[v].dirent
      BY <2>2 DEF OpenedAt, Leaves
    <3>2. ao_file_dirent[file[v].dirent].entry \in Entries /\ file[v].dirent \in Dirents
      BY <1>1, <3>1 DEF DirentsOK, Before, FilesOK, AoFile
    <3> QED
      BY <3>1, <3>2 DEF OpenedAt, Leaves
  <2> QED
    BY <2>1, <2>2
<1>2. ASSUME NEW c \in Dirents
      PROVE  ao_file_dirent'[c] = NoDirent \/ \E v \in Users : Opening(v, c)'
  <2>1. CASE c = d
    BY <2>1 DEF OpenedAt, Opening, Leaves
  <2>2. CASE c # d
    <3>1. ao_file_dirent'[c] = ao_file_dirent[c]
      BY <2>2 DEF OpenedAt, Leaves
    <3>2. CASE ao_file_dirent[c] = NoDirent
      BY <3>1, <3>2
    <3>3. CASE \E v \in Users : Opening(v, c)
      <4>1. PICK v \in Users : Opening(v, c)
        BY <3>3
      <4>2. v # u
        BY <4>1 DEF Opening
      <4>3. file'[v].busy = file[v].busy /\ file'[v].dirent = file[v].dirent
        BY <4>2 DEF OpenedAt, Leaves
      <4> QED
        BY <4>1, <4>3 DEF Opening
    <3> QED
      BY <3>2, <3>3 DEF DirentsOK, Before
  <2> QED
    BY <2>1, <2>2
<1>3. NoDirent' = NoDirent /\ Entries' = Entries
  BY DEF NoDirent, Entries, Before
<1>4. DirentsOK'
  BY <1>1, <1>2, <1>3 DEF DirentsOK
<1>5. \A v \in Users : file'[v].busy = IF v = u THEN TRUE ELSE file[v].busy
  BY DEF OpenedAt, FilesOK, AoFile, Before, Leaves
<1> QED
  BY <1>4, <1>5

(* ao_fat_open leaves the types as they are.                               *)
LEMMA OpenCall ==
  ASSUME Before, NEW u \in Users, ~file[u].busy, NEW n, Exists(n), ao_fat_open(u, n)
  PROVE  CallOK(u, TRUE)
<1> DEFINE e == EntryOf(n)
           d == DirentFor(e)
           o == Opened(u, e)
<1>1. e \in Entries
  BY EntryOfIs DEF Exists, Before
<1>2. OpenedAt(o, u, d, e)
  BY <1>1, OpenedIs DEF Before
<1>3. file' = o.files /\ ao_file_dirent' = o.dirents
      /\ UNCHANGED <<cacheVars, next_free, filesystem_full, broken>>
  BY DEF ao_fat_open
<1> HIDE DEF o, d, e
<1>4. CacheOK' /\ FullIsFull'
  BY <1>3, SameFull
<1>5. FilesOK'
  BY <1>2, <1>3 DEF FilesOK, OpenedAt, Before, AoDirent, AoFile
<1>6. DirentsOK'
      /\ \A v \in Users : file'[v].busy = IF v = u THEN TRUE ELSE file[v].busy
  <2>1. Leaves(o.files, o.dirents, d)
    BY <1>3 DEF Leaves
  <2> QED
    BY <1>1, <1>2, <2>1, DirentsOpened
<1> QED
  BY <1>4, <1>5, <1>6 DEF CallOK

(* A file made empty is not short of room.                                 *)
LEMMA ToNothing ==
  ASSUME CacheOK, FilesOK, NEW files \in [Users -> AoFile],
         NEW dirents \in [Dirents -> AoDirent], NEW u \in Users
  PROVE  LET r == Resize(files, dirents, u, 0) IN r.ok /\ ~r.short
<1> DEFINE f == files[u]
           d == dirents[f.dirent]
           t == InTable(f, d, 0)
           r == Resize(files, dirents, u, 0)
<1>1. f \in AoFile /\ d \in AoDirent
  BY DEF AoFile
<1>2. d.cluster \in Starts /\ f.cluster_offset \in Nat
  BY <1>1 DEF AoDirent, AoFile
<1>3. t.ok = TRUE /\ t.short = FALSE
  <2>1. CASE ClustersFor(d.size) = ClustersFor(0)
    BY <2>1 DEF InTable, Result
  <2>2. CASE ClustersFor(d.size) # ClustersFor(0)
    <3>1. ~FromHere(f, 0)
      BY <1>2 DEF FromHere
    <3>2. t = SetSize(d.cluster, ClustersFor(0))
      BY <2>2, <3>1 DEF InTable
    <3>3. ClustersFor(0) = 0
      BY ClustersForIs
    <3>4. Length(mem, d.cluster) \in Nat
      BY ChainLength, Numbers
    <3>5. t = Shrunk(d.cluster, 0)
      BY <3>2, <3>3, <3>4 DEF SetSize
    <3> HIDE DEF t
    <3> QED
      BY <3>5 DEF Shrunk, Result
  <2> QED
    BY <2>1, <2>2
<1>4. r = InDirectory(files, dirents, f, d, 0, t)
  BY DEF Resize
<1> HIDE DEF t
<1>5. r.ok = t.ok /\ r.short = t.short
  <2>1. \E puts, fs, ds : r = Sized(t, puts, fs, ds)
    BY <1>4 DEF InDirectory
  <2> HIDE DEF r
  <2> QED
    BY <2>1 DEF Sized
<1> QED
  BY <1>3, <1>5

(* Changes that are not of the tables change no link.                      *)
LEMMA PutsNotOfTable ==
  ASSUME NEW p, p.sector = RootSector \/ \E c : p.sector = DataSector(c)
  PROVE  \A c : p.sector # FatSector(1, c)
BY DEF RootSector, DataSector, FatSector

(* ao_fat_creat of a name that exists.                                     *)
LEMMA CreatOldCall ==
  ASSUME Before, NEW u \in Users, ~file[u].busy, NEW n, Exists(n), CreatOld(u, n)
  PROVE  CallOK(u, TRUE)
<1> DEFINE e == EntryOf(n)
           d == DirentFor(e)
           o == Opened(u, e)
           r == Resize(o.files, o.dirents, u, 0)
<1>1. e \in Entries
  BY EntryOfIs DEF Exists, Before
<1>2. OpenedAt(o, u, d, e)
  BY <1>1, OpenedIs DEF Before
<1>3. /\ Change(r.puts) /\ file' = r.files /\ ao_file_dirent' = r.dirents
      /\ next_free' = r.next_free /\ filesystem_full' = r.full /\ broken' = broken
  BY DEF CreatOld, Resizing
<1>4. SizedOK(r, o.files, o.dirents, d) /\ ~r.short
  <2> HIDE DEF o
  <2>1. o.files \in [Users -> AoFile] /\ o.dirents \in [Dirents -> AoDirent]
        /\ o.dirents[o.files[u].dirent].entry \in Entries /\ o.files[u].dirent = d
    BY <1>1, <1>2 DEF OpenedAt
  <2>2. SizedOK(r, o.files, o.dirents, d)
    BY <2>1, ResizeOK DEF Before
  <2>3. ~r.short
    BY <1>2, <2>1, ToNothing DEF Before, OpenedAt
  <2> QED
    BY <2>2, <2>3
<1> HIDE DEF r, o, d, e
<1>5. CacheOK'
  BY <1>3, <1>4, CacheChanged DEF Before, SizedOK
<1>6. FullIsFull'
  BY <1>3, <1>4, FullAfter, PutsNotOfTable DEF SizedOK, Room
<1>7. FilesOK'
  BY <1>3, <1>4 DEF FilesOK, SizedOK, Before, AoDirent, AoFile
<1>8. DirentsOK'
      /\ \A v \in Users : file'[v].busy = IF v = u THEN TRUE ELSE file[v].busy
  <2>1. Leaves(o.files, o.dirents, d)
    BY <1>3, <1>4 DEF SizedOK, Leaves
  <2> QED
    BY <1>1, <1>2, <2>1, DirentsOpened
<1> QED
  BY <1>5, <1>6, <1>7, <1>8 DEF CallOK

(* ao_fat_creat of a new name.                                             *)
LEMMA CreatNewCall ==
  ASSUME Before, NEW u \in Users, ~file[u].busy, NEW n \in Names, ~RootFull,
         CreatNew(u, n)
  PROVE  CallOK(u, TRUE)
<1> DEFINE e == EntryOf(NoName)
           dirents == [ao_file_dirent EXCEPT ![0] =
                         [entry |-> e, size |-> 0, cluster |-> 0]]
           o == OpenAt(u, 0, dirents, ao_file_dirent[0].cluster)
           put == Put(RootSector, e, Dent(n, 0, 0))
<1>1. e \in Entries
  BY EntryOfIs DEF RootFull, Before
<1>2. /\ Change(put) /\ file' = o.files /\ ao_file_dirent' = o.dirents
      /\ UNCHANGED <<next_free, filesystem_full>>
      /\ broken' = "no" => broken = "no"
  BY DEF CreatNew, Before
<1>3. put \in Seq(Cells) /\ \A p \in ToSet(put) : p.sector = RootSector
  <2>1. Dent(n, 0, 0) \in Holds(RootSector)
    BY RootCell, Numbers, StartsTyped DEF Dent, Named
  <2>2. RootSector \in FatSectors /\ e \in Keys(RootSector)
    BY <1>1, RootCell
  <2> HIDE DEF e
  <2>3. put \in Seq(Cells) /\ ToSet(put) = {Cell(RootSector, e, Dent(n, 0, 0))}
    BY <2>1, <2>2, PutIs
  <2> QED
    BY <2>3 DEF Cell
<1> HIDE DEF e, put
<1>4. dirents \in [Dirents -> AoDirent] /\ dirents[0].entry = e
      /\ ao_file_dirent[0].cluster \in Starts
      /\ \A c \in Dirents \ {0} : dirents[c] = ao_file_dirent[c]
  <2>1. [entry |-> e, size |-> 0, cluster |-> 0] \in AoDirent
    BY <1>1, NoFileTyped, Numbers, StartsTyped DEF AoDirent, Before
  <2> QED
    BY <2>1, TwoDirents DEF FilesOK, Before, AoDirent
<1> HIDE DEF dirents
<1>5. OpenedAt(o, u, 0, e)
  BY <1>4, OpenAtIs, TwoDirents DEF Before
<1> HIDE DEF o
<1>6. CacheOK'
  BY <1>2, <1>3, CacheChanged DEF Before
<1>7. FullIsFull'
  <2>1. filesystem_full' => FreeClusters = {}
    BY <1>2 DEF FullIsFull, Before
  <2> QED
    BY <1>2, <1>3, <2>1, FullAfter, PutsNotOfTable
<1>8. FilesOK'
  BY <1>2, <1>5 DEF FilesOK, OpenedAt, Before, AoDirent, AoFile
<1>9. DirentsOK'
      /\ \A v \in Users : file'[v].busy = IF v = u THEN TRUE ELSE file[v].busy
  <2>1. Leaves(o.files, o.dirents, 0)
    BY <1>2 DEF Leaves
  <2> QED
    BY <1>1, <1>5, <2>1, DirentsOpened
<1> QED
  BY <1>6, <1>7, <1>8, <1>9 DEF CallOK

(* Nothing is opened or closed.                                            *)
LEMMA DirentsSame ==
  ASSUME Before, NEW u \in Users, file[u].busy,
         Leaves(file, ao_file_dirent, file[u].dirent)
  PROVE  DirentsOK'
         /\ \A v \in Users : file'[v].busy = IF v = u THEN TRUE ELSE file[v].busy
<1>1. NoDirent' = NoDirent /\ Entries' = Entries
  BY DEF NoDirent, Entries, Before
<1>2. \A v \in Users : file[v].dirent \in Dirents /\ file[v].busy \in BOOLEAN
  BY DEF FilesOK, Before, AoFile
<1>3. ASSUME NEW c \in Dirents
      PROVE  ao_file_dirent'[c] = NoDirent \/ \E v \in Users : Opening(v, c)'
  <2>1. CASE c = file[u].dirent
    BY <2>1 DEF Opening, Leaves
  <2>2. CASE c # file[u].dirent
    BY <2>2 DEF Opening, DirentsOK, Before, Leaves
  <2> QED
    BY <2>1, <2>2
<1>4. ASSUME NEW v \in Users, file'[v].busy
      PROVE  ao_file_dirent'[file'[v].dirent].entry \in Entries
  BY <1>2, <1>4 DEF DirentsOK, Before, Leaves
<1>5. DirentsOK'
  BY <1>1, <1>3, <1>4 DEF DirentsOK
<1>6. \A v \in Users : file'[v].busy = IF v = u THEN TRUE ELSE file[v].busy
  BY <1>2 DEF Leaves
<1> QED
  BY <1>5, <1>6

(* Looking for its place changes nothing else of a file.                   *)
LEMMA PlacedIs ==
  ASSUME NEW store, NEW f \in AoFile, NEW dirents \in [Dirents -> AoDirent]
  PROVE  LET g == Placed(store, f, dirents)
         IN /\ g \in AoFile /\ g.busy = f.busy /\ g.dirent = f.dirent
            /\ g.offset = f.offset
<1> DEFINE again == f.cluster = 0 \/ f.offset < f.cluster_offset
           from == IF again THEN dirents[f.dirent].cluster ELSE f.cluster
           passed == IF again THEN 0 ELSE f.cluster_offset \div PerCluster
           to == Chain(store, from)[f.offset \div PerCluster - passed]
           g == Placed(store, f, dirents)
<1>1. from \in Starts
  BY DEF AoFile, AoDirent
<1>2. f.offset \div PerCluster \in Nat /\ f.cluster_offset \div PerCluster \in Nat
  BY Numbers, DivIs DEF AoFile
<1>3. PerCluster * (f.offset \div PerCluster) \in Nat /\ PerCluster * passed \in Nat
  BY <1>2, Numbers
<1>4. g = IF Valid(to)
          THEN [f EXCEPT !.cluster = to,
                         !.cluster_offset = PerCluster * (f.offset \div PerCluster)]
          ELSE [f EXCEPT !.cluster = from, !.cluster_offset = PerCluster * passed]
  BY DEF Placed
<1>5. Valid(to) => to \in Starts
  BY DEF Valid, Starts
<1> HIDE DEF g, to, from, passed
<1> QED
  BY <1>1, <1>3, <1>4, <1>5 DEF AoFile, g

(* ao_fat_read.                                                            *)
LEMMA ReadCall ==
  ASSUME Before, NEW u \in Users, file[u].busy, ao_fat_read(u)
  PROVE  CallOK(u, TRUE)
<1> DEFINE f == Placed(mem, file[u], ao_file_dirent)
           g == IF OnCluster(f) THEN [f EXCEPT !.offset = @ + 1] ELSE f
<1>1. file' = [file EXCEPT ![u] = g]
      /\ UNCHANGED <<cacheVars, ao_file_dirent, next_free, filesystem_full, broken>>
  BY DEF ao_fat_read
<1>2. f \in AoFile /\ f.busy = file[u].busy /\ f.dirent = file[u].dirent
  <2>1. file[u] \in AoFile /\ ao_file_dirent \in [Dirents -> AoDirent]
    BY DEF Before, FilesOK
  <2>2. \A x \in AoFile : LET h == Placed(mem, x, ao_file_dirent)
                            IN h \in AoFile /\ h.busy = x.busy /\ h.dirent = x.dirent
    BY <2>1, PlacedIs
  <2> QED
    BY <2>1, <2>2
<1> HIDE DEF f
<1>3. g \in AoFile /\ g.busy = file[u].busy /\ g.dirent = file[u].dirent
  <2>0. f.offset + 1 \in Nat
    BY <1>2 DEF AoFile
  <2>1. [f EXCEPT !.offset = @ + 1] \in AoFile
        /\ [f EXCEPT !.offset = @ + 1].busy = f.busy
        /\ [f EXCEPT !.offset = @ + 1].dirent = f.dirent
    BY <1>2, <2>0 DEF AoFile
  <2> QED
    BY <1>2, <2>1
<1> HIDE DEF g
<1>4. CacheOK' /\ FullIsFull'
  BY <1>1, SameFull
<1>5. FilesOK'
  BY <1>1, <1>3 DEF FilesOK, Before, AoFile, AoDirent
<1>6. Leaves(file, ao_file_dirent, file[u].dirent)
  BY <1>1, <1>3 DEF FilesOK, Before, Leaves
<1>7. DirentsOK'
      /\ \A v \in Users : file'[v].busy = IF v = u THEN TRUE ELSE file[v].busy
  BY <1>6, DirentsSame
<1> QED
  BY <1>4, <1>5, <1>7 DEF CallOK

(* ao_fat_seek.                                                            *)
LEMMA SeekCall ==
  ASSUME Before, NEW u \in Users, file[u].busy, SeekEnd(u)
  PROVE  CallOK(u, TRUE)
<1> DEFINE g == [file[u] EXCEPT !.offset = ao_file_dirent[file[u].dirent].size]
<1>1. file' = [file EXCEPT ![u] = g]
      /\ UNCHANGED <<cacheVars, ao_file_dirent, next_free, filesystem_full, broken>>
  BY DEF SeekEnd
<1>2. g \in AoFile /\ g.busy = file[u].busy /\ g.dirent = file[u].dirent
  <2>1. file[u] \in AoFile
    BY DEF Before, FilesOK
  <2>2. ao_file_dirent[file[u].dirent].size \in Nat
    BY <2>1 DEF Before, FilesOK, AoDirent, AoFile
  <2> QED
    BY <2>1, <2>2 DEF AoFile
<1> HIDE DEF g
<1>3. CacheOK' /\ FullIsFull'
  BY <1>1, SameFull
<1>4. FilesOK'
  BY <1>1, <1>2 DEF FilesOK, Before, AoFile, AoDirent
<1>5. Leaves(file, ao_file_dirent, file[u].dirent)
  BY <1>1, <1>2 DEF FilesOK, Before, Leaves
<1>6. DirentsOK'
      /\ \A v \in Users : file'[v].busy = IF v = u THEN TRUE ELSE file[v].busy
  BY <1>5, DirentsSame
<1> QED
  BY <1>3, <1>4, <1>6 DEF CallOK

(* The types after a size is set and data is put on top of it.             *)
LEMMA Wrote ==
  ASSUME Before, NEW u \in Users, file[u].busy, NEW r,
         SizedOK(r, file, ao_file_dirent, file[u].dirent),
         NEW puts \in Seq(Cells), Change(puts),
         \A p \in ToSet(puts) : p \in ToSet(r.puts) \/ \E c : p.sector = DataSector(c),
         NEW g \in AoFile, g.busy = file[u].busy, g.dirent = file[u].dirent,
         file' = [r.files EXCEPT ![u] = g], ao_file_dirent' = r.dirents,
         next_free' = r.next_free, filesystem_full' = r.full,
         broken' = IF r.short THEN "short" ELSE broken
  PROVE  CallOK(u, TRUE)
<1>1. CacheOK'
  BY CacheChanged DEF Before
<1>2. FullIsFull'
  <2>1. ASSUME filesystem_full'
        PROVE  /\ \A p \in ToSet(puts) : p.sector = RootSector
                                         \/ \E c : p.sector = DataSector(c)
               /\ filesystem_full \/ broken' # "no" \/ FreeClusters = {}
    BY <2>1 DEF SizedOK, Room
  <2> QED
    BY <2>1, FullAfter, PutsNotOfTable
<1>3. FilesOK'
  <2>1. file' \in [Users -> AoFile]
    BY DEF SizedOK
  <2>2. AoFile' = AoFile /\ AoDirent' = AoDirent
    BY DEF Before, AoFile, AoDirent
  <2> QED
    BY <2>1, <2>2 DEF FilesOK, SizedOK, Before
<1>4. Leaves(file, ao_file_dirent, file[u].dirent)
  BY DEF SizedOK, Leaves
<1>5. DirentsOK'
      /\ \A v \in Users : file'[v].busy = IF v = u THEN TRUE ELSE file[v].busy
  BY <1>4, DirentsSame
<1> QED
  BY <1>1, <1>2, <1>3, <1>5 DEF CallOK

(* An offset goes on by one.                                               *)
LEMMA NextPlace ==
  ASSUME NEW f \in AoFile
  PROVE  LET g == [f EXCEPT !.offset = @ + 1]
         IN g \in AoFile /\ g.busy = f.busy /\ g.dirent = f.dirent
<1>1. f.offset + 1 \in Nat
  BY DEF AoFile
<1> QED
  BY <1>1 DEF AoFile

(* Data goes to the cluster of the file.                                   *)
LEMMA DataPut ==
  ASSUME NEW f \in AoFile, OnCluster(f), NEW n \in Named
  PROVE  LET data == Put(DataSector(f.cluster), f.offset % PerCluster, Mark(n, f.offset))
         IN /\ data \in Seq(Cells)
            /\ \A p \in ToSet(data) : p.sector = DataSector(f.cluster)
<1> DEFINE c == f.cluster
           s == DataSector(c)
           k == f.offset % PerCluster
           v == Mark(n, f.offset)
<1>1. c \in Clusters /\ f.offset \in Nat
  BY DEF OnCluster, Valid, AoFile
<1>2. s \in FatSectors /\ Keys(s) = 0 .. PerCluster - 1 /\ Holds(s) = Named \X Nat
  BY <1>1, DataCell
<1>3. k \in Keys(s) /\ v \in Holds(s)
  BY <1>1, <1>2, Numbers, DivIs DEF Mark
<1> HIDE DEF s, k, v
<1>4. Put(s, k, v) \in Seq(Cells) /\ ToSet(Put(s, k, v)) = {Cell(s, k, v)}
  BY <1>2, <1>3, PutIs
<1>5. \A p \in ToSet(Put(s, k, v)) : p.sector = s
  BY <1>4 DEF Cell
<1> QED
  BY <1>4, <1>5 DEF s, k, v

WriteSize(u) ==
  IF AtEnd(u) THEN file[u].offset + 1 ELSE ao_file_dirent[file[u].dirent].size

(* A write sets the size that it needs.                                    *)
LEMMA GrowsIs ==
  ASSUME CacheOK, FilesOK, DirentsOK, NEW u \in Users, file[u].busy
  PROVE  /\ Grows(u) = Resize(file, ao_file_dirent, u, WriteSize(u))
         /\ WriteSize(u) \in Nat
         /\ SizedOK(Grows(u), file, ao_file_dirent, file[u].dirent)
<1>1. Grows(u) = Resize(file, ao_file_dirent, u, WriteSize(u))
  BY DEF Grows, WriteSize
<1>2. file[u] \in AoFile /\ file[u].dirent \in Dirents
  BY DEF FilesOK, AoFile
<1>3. ao_file_dirent[file[u].dirent].size \in Nat /\ file[u].offset \in Nat
  BY <1>2 DEF FilesOK, AoFile, AoDirent
<1>4. WriteSize(u) \in Nat
  BY <1>3 DEF WriteSize
<1>5. ao_file_dirent[file[u].dirent].entry \in Entries
  BY DEF DirentsOK
<1>6. file \in [Users -> AoFile] /\ ao_file_dirent \in [Dirents -> AoDirent]
  BY DEF FilesOK
<1> QED
  BY <1>1, <1>4, <1>5, <1>6, ResizeOK

(* ao_fat_write.                                                           *)
LEMMA WriteCall ==
  ASSUME Before, NEW u \in Users, file[u].busy, name[u] \in Named, ao_fat_write(u)
  PROVE  CallOK(u, TRUE)
<1> DEFINE r == Grows(u)
           f == Placed(After(r.puts).mem, file[u], r.dirents)
<1>1. SizedOK(r, file, ao_file_dirent, file[u].dirent)
  BY GrowsIs DEF Before
<1>2. /\ \/ WriteRefused(r) \/ WriteDone(u, r, f) \/ WriteLost(u, r, f)
      /\ broken' = IF r.short THEN "short" ELSE broken
  BY DEF ao_fat_write
<1>3. f \in AoFile /\ f.busy = file[u].busy /\ f.dirent = file[u].dirent
  <2>1. file[u] \in AoFile /\ r.dirents \in [Dirents -> AoDirent]
    BY <1>1 DEF Before, FilesOK, SizedOK
  <2>2. \A store : \A g \in AoFile :
          LET h == Placed(store, g, r.dirents)
          IN h \in AoFile /\ h.busy = g.busy /\ h.dirent = g.dirent
    BY <2>1, PlacedIs
  <2> QED
    BY <2>1, <2>2
<1> HIDE DEF r, f
<1>4. CASE WriteRefused(r)
  <2> DEFINE g == r.files[u]
  <2>1. /\ Change(r.puts) /\ file' = r.files /\ ao_file_dirent' = r.dirents
        /\ next_free' = r.next_free /\ filesystem_full' = r.full
    BY <1>4 DEF WriteRefused, Resizing
  <2>2. g \in AoFile /\ g.busy = file[u].busy /\ g.dirent = file[u].dirent
        /\ r.files = [r.files EXCEPT ![u] = g] /\ r.puts \in Seq(Cells)
    BY <1>1 DEF SizedOK
  <2> HIDE DEF g
  <2> QED
    BY <1>1, <1>2, <2>1, <2>2, Wrote
<1>5. CASE WriteLost(u, r, f)
  <2>1. /\ Change(r.puts) /\ file' = [r.files EXCEPT ![u] = f]
        /\ ao_file_dirent' = r.dirents
        /\ next_free' = r.next_free /\ filesystem_full' = r.full
    BY <1>5 DEF WriteLost, Resizing
  <2>2. r.puts \in Seq(Cells)
    BY <1>1 DEF SizedOK
  <2> QED
    BY <1>1, <1>2, <1>3, <2>1, <2>2, Wrote
<1>6. CASE WriteDone(u, r, f)
  <2> DEFINE g == [f EXCEPT !.offset = @ + 1]
             data == Put(DataSector(f.cluster), f.offset % PerCluster,
                         Mark(name[u], f.offset))
  <2>1. /\ Change(r.puts \o data) /\ file' = [r.files EXCEPT ![u] = g]
        /\ ao_file_dirent' = r.dirents /\ OnCluster(f)
        /\ next_free' = r.next_free /\ filesystem_full' = r.full
    BY <1>6 DEF WriteDone, Resizing
  <2>2. g \in AoFile /\ g.busy = file[u].busy /\ g.dirent = file[u].dirent
    BY <1>3, NextPlace
  <2>3. data \in Seq(Cells) /\ \A p \in ToSet(data) : p.sector = DataSector(f.cluster)
    BY <1>3, <2>1, DataPut
  <2> HIDE DEF g, data
  <2>4. r.puts \in Seq(Cells)
    BY <1>1 DEF SizedOK
  <2>5. r.puts \o data \in Seq(Cells)
        /\ \A x : x \in ToSet(r.puts \o data) <=> x \in ToSet(r.puts) \/ x \in ToSet(data)
    BY <2>3, <2>4, ConcatSet
  <2>6. \A p \in ToSet(r.puts \o data) :
          p \in ToSet(r.puts) \/ \E c : p.sector = DataSector(c)
    BY <2>3, <2>5
  <2> QED
    BY <1>1, <1>2, <2>1, <2>2, <2>5, <2>6, Wrote
<1> QED
  BY <1>2, <1>4, <1>5, <1>6

(* A flush changes only what the card may have.                            *)
LEMMA Flushed ==
  ASSUME Before, ao_fat_sync
  PROVE  /\ UNCHANGED <<mem, next_free, filesystem_full, broken>>
         /\ may' = [s \in FatSectors |-> {mem[s]}] /\ CacheOK' /\ FullIsFull'
<1>1. /\ may' = [s \in FatSectors |-> IF s \in {} THEN may[s] ELSE {mem[s]}]
      /\ mem' = mem /\ UNCHANGED <<next_free, filesystem_full, broken>>
  BY DEF ao_fat_sync, Store!Flush
<1>2. may' = [s \in FatSectors |-> {mem[s]}]
  BY <1>1
<1>3. \A s : Contents(s)' = Contents(s)
  BY DEF Contents, Keys, Holds, Entries, Before
<1>4. CacheOK'
  BY <1>1, <1>2, <1>3 DEF CacheOK, Before
<1>5. FreeClusters' = FreeClusters
  BY <1>1 DEF FreeClusters, Entry
<1> QED
  BY <1>1, <1>2, <1>4, <1>5 DEF FullIsFull, Before

(* ao_fat_sync.                                                            *)
LEMMA SyncCall ==
  ASSUME Before, NEW u \in Users, file[u].busy, ao_fat_sync,
         UNCHANGED <<file, ao_file_dirent>>
  PROVE  CallOK(u, TRUE)
<1>1. CacheOK' /\ FullIsFull' /\ UNCHANGED <<next_free, filesystem_full>>
  BY Flushed
<1>2. FilesOK'
  BY <1>1 DEF FilesOK, Before, AoFile, AoDirent
<1>3. Leaves(file, ao_file_dirent, file[u].dirent)
  BY DEF Leaves
<1>4. DirentsOK'
      /\ \A v \in Users : file'[v].busy = IF v = u THEN TRUE ELSE file[v].busy
  BY <1>3, DirentsSame
<1> QED
  BY <1>1, <1>2, <1>4 DEF CallOK

(* ao_fat_close.                                                           *)
LEMMA CloseCall ==
  ASSUME Before, NEW u \in Users, file[u].busy, ao_fat_close(u)
  PROVE  CallOK(u, FALSE)
<1> DEFINE d == file[u].dirent
           shared == \E v \in Users \ {u} : Opening(v, d)
<1>1. /\ file' = [file EXCEPT ![u] = NoFile] /\ ao_fat_sync
      /\ ao_file_dirent' = IF shared THEN ao_file_dirent
                           ELSE [ao_file_dirent EXCEPT ![d] = NoDirent]
  BY DEF ao_fat_close, ReleaseDirent, Opening
<1>2. CacheOK' /\ FullIsFull' /\ UNCHANGED <<next_free, filesystem_full>>
  BY <1>1, Flushed
<1>3. d \in Dirents /\ NoFile \in AoFile /\ NoDirent \in AoDirent /\ ~NoFile.busy
      /\ file \in [Users -> AoFile] /\ ao_file_dirent \in [Dirents -> AoDirent]
  BY NoFileTyped DEF FilesOK, Before, AoFile, NoFile
<1>4. NoDirent' = NoDirent /\ Entries' = Entries /\ AoFile' = AoFile /\ AoDirent' = AoDirent
  BY DEF NoDirent, Entries, Before, AoFile, AoDirent
<1>5. FilesOK'
  BY <1>1, <1>2, <1>3, <1>4 DEF FilesOK, Before
<1>6. ASSUME NEW v \in Users, file'[v].busy
      PROVE  ao_file_dirent'[file'[v].dirent].entry \in Entries
  <2>1. v # u /\ file'[v] = file[v]
    BY <1>1, <1>3, <1>6
  <2>2. ao_file_dirent[file[v].dirent].entry \in Entries /\ file[v].dirent \in Dirents
    BY <1>3, <1>6, <2>1 DEF DirentsOK, Before, AoFile
  <2>3. file[v].dirent = d => shared
    BY <1>6, <2>1 DEF Opening
  <2> QED
    BY <1>1, <1>3, <2>1, <2>2, <2>3
<1>7. ASSUME NEW c \in Dirents
      PROVE  ao_file_dirent'[c] = NoDirent \/ \E v \in Users : Opening(v, c)'
  <2>1. CASE ao_file_dirent[c] = NoDirent
    BY <1>1, <1>3, <2>1
  <2>2. CASE \E v \in Users \ {u} : Opening(v, c)
    BY <1>1, <1>3, <2>2 DEF Opening
  <2>3. CASE Opening(u, c) /\ ~ \E v \in Users \ {u} : Opening(v, c)
    <3>1. c = d /\ ~shared
      BY <2>3 DEF Opening
    <3> QED
      BY <1>1, <1>3, <3>1
  <2> QED
    BY <2>1, <2>2, <2>3 DEF DirentsOK, Before
<1>8. DirentsOK'
  BY <1>4, <1>6, <1>7 DEF DirentsOK
<1>9. \A v \in Users : file'[v].busy = IF v = u THEN FALSE ELSE file[v].busy
  BY <1>1, <1>3 DEF AoFile
<1> QED
  BY <1>2, <1>5, <1>8, <1>9 DEF CallOK

-----------------------------------------------------------------------------
(* The steps of the tasks.                                                 *)
TasksOK ==
  /\ task = [u \in Users |-> task[u]] /\ name \in [Users -> Named]
  /\ task["log"] \in {"seek", "write", "sync"} => file["log"].busy
  /\ task["log"] \in {"open", "creat"} => ~file["log"].busy /\ name["log"] \in Names
  /\ task["console"] = "idle" <=> ~file["console"].busy
  /\ \A u \in Users : file[u].busy => name[u] \in Names

FatTyped == CacheOK /\ FilesOK /\ DirentsOK /\ TasksOK

(* The tasks are where they have a file open, or not.                      *)
LEMMA TaskGoes ==
  ASSUME TasksOK, NEW u \in Users, NEW busy \in BOOLEAN, NEW to, NEW n \in Named,
         CallOK(u, busy), Goes(u, to, n), busy => n \in Names,
         u = "log" => (to \in {"seek", "write", "sync"} => busy),
         u = "log" => (to \in {"open", "creat"} => ~busy /\ n \in Names),
         u = "console" => (to = "idle" <=> ~busy)
  PROVE  TasksOK'
<1>1. task' = [task EXCEPT ![u] = to] /\ name' = [name EXCEPT ![u] = n]
  BY DEF Goes
<1>2. task' = [v \in Users |-> task'[v]] /\ name' \in [Users -> Named]
  BY <1>1 DEF TasksOK
<1>3. \A v \in Users : /\ task'[v] = IF v = u THEN to ELSE task[v]
                       /\ name'[v] = IF v = u THEN n ELSE name[v]
  BY <1>1 DEF TasksOK
<1>4. \A v \in Users : file'[v].busy = IF v = u THEN busy ELSE file[v].busy
  BY DEF CallOK
<1>5. "log" \in Users /\ "console" \in Users
  BY DEF Users
<1>6. \A v \in Users : file'[v].busy => name'[v] \in Names
  BY <1>3, <1>4 DEF TasksOK
<1>7. CASE u = "log"
  BY <1>2, <1>3, <1>4, <1>5, <1>6, <1>7 DEF TasksOK
<1>8. CASE u = "console"
  BY <1>2, <1>3, <1>4, <1>5, <1>6, <1>8 DEF TasksOK
<1> QED
  BY <1>7, <1>8 DEF Users

Left == FatTyped' /\ FullIsFull'

(* The types after a call and a step of its task.                          *)
LEMMA CallLeaves ==
  ASSUME NEW u, NEW busy, CallOK(u, busy), TasksOK' PROVE Left
BY DEF CallOK, Left, FatTyped

(* A call that fails changes nothing.                                      *)
LEMMA FailedCall ==
  ASSUME Before, NEW u \in Users, CallFails
  PROVE  CallOK(u, file[u].busy)
<1>1. UNCHANGED <<file, ao_file_dirent, next_free>>
      /\ UNCHANGED <<cacheVars, filesystem_full, broken>>
  BY DEF CallFails
<1>2. CacheOK' /\ FullIsFull'
  BY <1>1, SameFull
<1>3. FilesOK'
  BY <1>1 DEF FilesOK, Before, AoFile, AoDirent, cacheVars
<1>4. DirentsOK'
  BY <1>1 DEF DirentsOK, Opening, NoDirent, Entries, Before
<1> QED
  BY <1>1, <1>2, <1>3, <1>4 DEF CallOK

(* The steps of the log task.                                              *)
LEMMA LogTyped ==
  ASSUME FatTyped, FullIsFull, UNCHANGED root_entries, LogStep
  PROVE  Left
<1> DEFINE u == "log"
<1>0. broken = "no" /\ u \in Users
  BY DEF LogStep, LogDay, LogOpens, LogSeeks, LogCreates, LogWrites, LogSyncs, At, Users
<1>1. Before /\ TasksOK
  BY <1>0 DEF Before, FatTyped
<1>2. name[u] \in Named /\ Names \subseteq Named /\ Days \subseteq Names
      /\ file[u].busy \in BOOLEAN
  BY <1>0, <1>1 DEF TasksOK, Named, Names, Before, FilesOK, AoFile
<1>3. ASSUME NEW day \in Days, LogDay(day) PROVE Left
  <2>1. Goes(u, "open", day) /\ day \in Names
    BY <1>2, <1>3 DEF LogDay
  <2>2. CallOK(u, FALSE)
    <3>1. CASE file[u].busy /\ ao_fat_close(u)
      BY <1>0, <1>1, <3>1, CloseCall
    <3>2. CASE ~file[u].busy /\ CallFails
      <4>1. file[u].busy = FALSE /\ CallOK(u, file[u].busy)
        BY <1>0, <1>1, <1>2, <3>2, FailedCall
      <4> QED
        BY <4>1
    <3> QED
      BY <1>3, <3>1, <3>2 DEF LogDay
  <2>3. TasksOK'
    BY <1>0, <1>1, <1>2, <2>1, <2>2, TaskGoes
  <2> QED
    BY <2>2, <2>3, CallLeaves
<1>4. CASE LogOpens
  <2>1. ~file[u].busy /\ name[u] \in Names
    BY <1>1, <1>4 DEF LogOpens, At, TasksOK
  <2>2. CASE Exists(name[u]) /\ ao_fat_open(u, name[u]) /\ Goes(u, "seek", name[u])
    <3>1. CallOK(u, TRUE)
      BY <1>0, <1>1, <2>1, <2>2, OpenCall
    <3>2. TasksOK'
      BY <1>0, <1>1, <1>2, <2>1, <2>2, <3>1, TaskGoes
    <3> QED
      BY <3>1, <3>2, CallLeaves
  <2>3. CASE CallFails /\ Goes(u, "creat", name[u])
    <3>1. file[u].busy = FALSE /\ CallOK(u, file[u].busy)
      BY <1>0, <1>1, <1>2, <2>1, <2>3, FailedCall
    <3>2. CallOK(u, FALSE)
      BY <3>1
    <3>3. TasksOK'
      BY <1>0, <1>1, <1>2, <2>1, <2>3, <3>2, TaskGoes
    <3> QED
      BY <3>2, <3>3, CallLeaves
  <2> QED
    BY <1>4, <2>2, <2>3 DEF LogOpens
<1>5. CASE LogSeeks
  <2>1. file[u].busy /\ name[u] \in Names
    BY <1>0, <1>1, <1>5 DEF LogSeeks, At, TasksOK
  <2>2. SeekEnd(u) /\ Goes(u, "write", name[u])
    BY <1>5 DEF LogSeeks
  <2>3. CallOK(u, TRUE)
    BY <1>0, <1>1, <2>1, <2>2, SeekCall
  <2>4. TasksOK'
    BY <1>0, <1>1, <1>2, <2>1, <2>2, <2>3, TaskGoes
  <2> QED
    BY <2>3, <2>4, CallLeaves
<1>6. CASE LogCreates
  <2>1. ~file[u].busy /\ name[u] \in Names
    BY <1>1, <1>6 DEF LogCreates, At, TasksOK
  <2>2. CASE ao_fat_creat(u, name[u]) /\ Goes(u, "write", name[u])
    <3>1. CallOK(u, TRUE)
      <4>1. CASE Exists(name[u]) /\ CreatOld(u, name[u])
        BY <1>0, <1>1, <2>1, <4>1, CreatOldCall
      <4>2. CASE ~RootFull /\ CreatNew(u, name[u])
        BY <1>0, <1>1, <2>1, <4>2, CreatNewCall
      <4> QED
        BY <2>2, <4>1, <4>2 DEF ao_fat_creat
    <3>2. TasksOK'
      BY <1>0, <1>1, <1>2, <2>1, <2>2, <3>1, TaskGoes
    <3> QED
      BY <3>1, <3>2, CallLeaves
  <2>3. CASE CallFails /\ Goes(u, "idle", name[u])
    <3>1. file[u].busy = FALSE /\ CallOK(u, file[u].busy)
      BY <1>0, <1>1, <1>2, <2>1, <2>3, FailedCall
    <3>2. CallOK(u, FALSE)
      BY <3>1
    <3>3. TasksOK'
      BY <1>0, <1>1, <1>2, <2>1, <2>3, <3>2, TaskGoes
    <3> QED
      BY <3>2, <3>3, CallLeaves
  <2> QED
    BY <1>6, <2>2, <2>3 DEF LogCreates
<1>7. CASE LogWrites
  <2>1. file[u].busy /\ name[u] \in Names
    BY <1>0, <1>1, <1>7 DEF LogWrites, At, TasksOK
  <2>2. ao_fat_write(u) /\ Goes(u, "sync", name[u])
    BY <1>7 DEF LogWrites
  <2>3. CallOK(u, TRUE)
    BY <1>0, <1>1, <1>2, <2>1, <2>2, WriteCall
  <2>4. TasksOK'
    BY <1>0, <1>1, <1>2, <2>1, <2>2, <2>3, TaskGoes
  <2> QED
    BY <2>3, <2>4, CallLeaves
<1>8. CASE LogSyncs
  <2>1. file[u].busy /\ name[u] \in Names
    BY <1>0, <1>1, <1>8 DEF LogSyncs, At, TasksOK
  <2>2. ao_fat_sync /\ UNCHANGED <<file, ao_file_dirent>> /\ Goes(u, "idle", name[u])
    BY <1>8 DEF LogSyncs
  <2>3. CallOK(u, TRUE)
    BY <1>0, <1>1, <2>1, <2>2, SyncCall
  <2>4. TasksOK'
    BY <1>0, <1>1, <1>2, <2>1, <2>2, <2>3, TaskGoes
  <2> QED
    BY <2>3, <2>4, CallLeaves
<1> HIDE DEF u
<1> QED
  BY <1>3, <1>4, <1>5, <1>6, <1>7, <1>8 DEF LogStep

(* The steps of the console.                                               *)
LEMMA FilesTyped ==
  ASSUME FatTyped, FullIsFull, UNCHANGED root_entries, FilesStep
  PROVE  Left
<1> DEFINE u == "console"
<1>0. broken = "no" /\ u \in Users
  BY DEF FilesStep, Dump, Type, DumpReads, TypeWrites, ConsoleCloses, At, Users
<1>1. Before /\ TasksOK
  BY <1>0 DEF Before, FatTyped
<1>2. name[u] \in Named /\ Names \subseteq Named /\ Typed \subseteq Names
      /\ NoName \in Named /\ file[u].busy \in BOOLEAN
  BY <1>0, <1>1 DEF TasksOK, Named, Names, Before, FilesOK, AoFile
<1>3. ASSUME NEW n \in Names, Dump(n) PROVE Left
  <2>1. Exists(n) /\ ao_fat_open(u, n) /\ Goes(u, "read", n) /\ ~file[u].busy
    BY <1>1, <1>3 DEF Dump, At, TasksOK
  <2>2. CallOK(u, TRUE)
    BY <1>0, <1>1, <2>1, OpenCall
  <2>3. TasksOK'
    BY <1>0, <1>1, <1>2, <2>1, <2>2, TaskGoes
  <2> QED
    BY <2>2, <2>3, CallLeaves
<1>4. ASSUME NEW n \in Typed, Type(n) PROVE Left
  <2>1. ao_fat_creat(u, n) /\ Goes(u, "type", n) /\ ~file[u].busy /\ n \in Names
    BY <1>1, <1>2, <1>4 DEF Type, At, TasksOK
  <2>2. CallOK(u, TRUE)
    <3>1. CASE Exists(n) /\ CreatOld(u, n)
      BY <1>0, <1>1, <2>1, <3>1, CreatOldCall
    <3>2. CASE ~RootFull /\ CreatNew(u, n)
      BY <1>0, <1>1, <2>1, <3>2, CreatNewCall
    <3> QED
      BY <2>1, <3>1, <3>2 DEF ao_fat_creat
  <2>3. TasksOK'
    BY <1>0, <1>1, <1>2, <2>1, <2>2, TaskGoes
  <2> QED
    BY <2>2, <2>3, CallLeaves
<1>5. CASE DumpReads
  <2>1. file[u].busy /\ name[u] \in Names
    BY <1>0, <1>1, <1>5 DEF DumpReads, At, TasksOK
  <2>2. PICK to \in {"read", "close"} : Goes(u, to, name[u])
    BY <1>5 DEF DumpReads
  <2>3. ao_fat_read(u)
    BY <1>5 DEF DumpReads
  <2>4. CallOK(u, TRUE)
    BY <1>0, <1>1, <2>1, <2>3, ReadCall
  <2>5. TasksOK'
    BY <1>0, <1>1, <1>2, <2>1, <2>2, <2>4, TaskGoes
  <2> QED
    BY <2>4, <2>5, CallLeaves
<1>6. CASE TypeWrites
  <2>1. file[u].busy /\ name[u] \in Names
    BY <1>0, <1>1, <1>6 DEF TypeWrites, At, TasksOK
  <2>2. PICK to \in {"type", "close"} : Goes(u, to, name[u])
    BY <1>6 DEF TypeWrites
  <2>3. ao_fat_write(u)
    BY <1>6 DEF TypeWrites
  <2>4. CallOK(u, TRUE)
    BY <1>0, <1>1, <1>2, <2>1, <2>3, WriteCall
  <2>5. TasksOK'
    BY <1>0, <1>1, <1>2, <2>1, <2>2, <2>4, TaskGoes
  <2> QED
    BY <2>4, <2>5, CallLeaves
<1>7. CASE ConsoleCloses
  <2>1. file[u].busy
    BY <1>0, <1>1, <1>7 DEF ConsoleCloses, At, TasksOK
  <2>2. ao_fat_close(u) /\ Goes(u, "idle", NoName)
    BY <1>7 DEF ConsoleCloses
  <2>3. CallOK(u, FALSE)
    BY <1>0, <1>1, <2>1, <2>2, CloseCall
  <2>4. TasksOK'
    BY <1>0, <1>1, <1>2, <2>2, <2>3, TaskGoes
  <2> QED
    BY <2>3, <2>4, CallLeaves
<1> HIDE DEF u
<1> QED
  BY <1>3, <1>4, <1>5, <1>6, <1>7 DEF FilesStep

(* After a start the files are closed and nothing is known of the room.    *)
LEMMA RamTyped ==
  ASSUME root_entries \in Nat, root_entries > 0, RamInit
  PROVE  FilesOK /\ DirentsOK /\ TasksOK
<1>1. /\ file = [u \in Users |-> NoFile] /\ ao_file_dirent = [d \in Dirents |-> NoDirent]
      /\ next_free = 0 /\ filesystem_full = FALSE
      /\ task = [u \in Users |-> "idle"] /\ name = [u \in Users |-> NoName]
  BY DEF RamInit
<1>2. NoFile \in AoFile /\ NoDirent \in AoDirent /\ NoFile.busy = FALSE /\ 0 \in TableValues
  BY TwoDirents, Numbers, StartsTyped DEF NoFile, NoDirent, AoFile, AoDirent
<1>3. FilesOK
  BY <1>1, <1>2 DEF FilesOK
<1>4. DirentsOK
  BY <1>1, <1>2 DEF DirentsOK
<1>5. TasksOK
  BY <1>1, <1>2 DEF TasksOK, Named, Users
<1> QED
  BY <1>3, <1>4, <1>5

(* A power failure.                                                        *)
LEMMA RebootTyped ==
  ASSUME FatTyped, UNCHANGED root_entries, FatReboot
  PROVE  Left
<1>1. /\ file' = [u \in Users |-> NoFile] /\ ao_file_dirent' = [d \in Dirents |-> NoDirent]
      /\ next_free' = 0 /\ filesystem_full' = FALSE
      /\ task' = [u \in Users |-> "idle"] /\ name' = [u \in Users |-> NoName]
  BY DEF FatReboot
<1>2. /\ NoFile \in AoFile' /\ NoDirent' \in AoDirent' /\ NoFile.busy = FALSE
      /\ 0 \in TableValues
  BY TwoDirents, Numbers, StartsTyped
     DEF FatTyped, FilesOK, NoFile, NoDirent, AoFile, AoDirent
<1>3. ao_file_dirent' = [d \in Dirents |-> NoDirent']
  BY <1>1 DEF NoDirent
<1>4. FilesOK' /\ DirentsOK' /\ TasksOK'
  <2>1. FilesOK'
    BY <1>1, <1>2, <1>3 DEF FilesOK, FatTyped
  <2>2. DirentsOK'
    BY <1>1, <1>2, <1>3 DEF DirentsOK
  <2>3. TasksOK'
    BY <1>1, <1>2 DEF TasksOK, Named, Users
  <2> QED
    BY <2>1, <2>2, <2>3
<1>5. /\ \A s \in FatSectors : mem'[s] \in may[s]
      /\ may' = [s \in FatSectors |-> {mem'[s]}]
  BY DEF FatReboot, Store!PowerFails
<1>6. mem' = [s \in FatSectors |-> mem'[s]]
  <2>1. PICK layout \in Layouts({1, 2}), data \in OnCard(DataSectors) :
          mem' = Joined(layout, data)
    BY DEF FatReboot
  <2>2. DOMAIN data = DataSectors
    BY DEF OnCard
  <2>3. DOMAIN layout = TableSectors({1, 2}) \union {RootSector}
    <3>1. PICK tables \in OnCard(TableSectors({1, 2})), root \in may[RootSector] :
            layout = Joined(tables, [s \in {RootSector} |-> root])
      BY DEF Layouts
    <3>2. DOMAIN tables = TableSectors({1, 2})
      BY DEF OnCard
    <3> QED
      BY <3>1, <3>2 DEF Joined
  <2>4. DOMAIN layout \union DOMAIN data = FatSectors
    BY <2>2, <2>3 DEF FatSectors
  <2>5. mem' = [s \in FatSectors |-> IF s \in DOMAIN layout THEN layout[s] ELSE data[s]]
    BY <2>1, <2>4 DEF Joined
  <2> QED
    BY <2>5
<1>7. \A s : Contents(s)' = Contents(s)
  BY DEF Contents, Keys, Holds, Entries
<1>8. CacheOK'
  <2>1. \A s \in FatSectors : mem'[s] \in may'[s] /\ may'[s] \subseteq Contents(s)'
    BY <1>5, <1>7 DEF CacheOK, FatTyped
  <2>2. may' = [s \in FatSectors |-> may'[s]]
    BY <1>5
  <2> QED
    BY <1>6, <2>1, <2>2 DEF CacheOK
<1>9. FullIsFull'
  BY <1>1 DEF FullIsFull
<1> QED
  BY <1>4, <1>8, <1>9 DEF Left, FatTyped

(* An empty card.                                                          *)
LEMMA InitTyped == ASSUME FatInit PROVE FatTyped /\ FullIsFull
<1>1. root_entries \in Nat /\ root_entries > 0
  BY FatAssumption DEF FatInit
<1>2. FilesOK /\ DirentsOK /\ TasksOK /\ FullIsFull
  BY <1>1, RamTyped DEF FatInit, FullIsFull, RamInit
<1>3. ASSUME NEW s \in FatSectors PROVE NewCard[s] \in Contents(s)
  <2>1. CASE s \in TableSectors({1, 2})
    <3>1. s[1] = "fat"
      BY <2>1 DEF TableSectors, FatSector
    <3>2. NewCard[s] = [c \in {d \in Clusters : d \div PerSector = s[3]} |-> 0]
      BY <3>1 DEF NewCard, NewSector
    <3>3. Keys(s) = {d \in Clusters : d \div PerSector = s[3]} /\ Holds(s) = TableValues
      BY <3>1 DEF Keys, Holds
    <3>4. 0 \in TableValues
      BY Numbers DEF TableValues
    <3> HIDE DEF NewCard
    <3> QED
      BY <3>2, <3>3, <3>4 DEF Contents
  <2>2. CASE s = RootSector
    <3>1. s[1] = "root"
      BY <2>2 DEF RootSector
    <3>2. NewCard[s] = [e \in Entries |-> NoDent]
      BY <3>1 DEF NewCard, NewSector
    <3>3. NoDent \in Holds(RootSector)
      BY RootCell, Numbers, StartsTyped DEF NoDent, Dent, Named
    <3> HIDE DEF NewCard
    <3> QED
      BY <2>2, <3>2, <3>3, RootCell DEF Contents
  <2>3. CASE s \in DataSectors
    <3>1. s[1] = "data"
      BY <2>3 DEF DataSectors, DataSector
    <3>2. NewCard[s] = [i \in 0 .. PerCluster - 1 |-> Blank]
      BY <3>1 DEF NewCard, NewSector
    <3>3. Keys(s) = 0 .. PerCluster - 1 /\ Holds(s) = Named \X Nat
      BY <3>1 DEF Keys, Holds
    <3>4. Blank \in Named \X Nat
      BY DEF Blank, Mark, Named
    <3> HIDE DEF NewCard
    <3> QED
      BY <3>2, <3>3, <3>4 DEF Contents
  <2> QED
    BY <2>1, <2>2, <2>3 DEF FatSectors
<1>4. mem = NewCard /\ may = [s \in FatSectors |-> {NewCard[s]}]
  BY DEF FatInit
<1>5. NewCard = [s \in FatSectors |-> NewCard[s]]
  BY DEF NewCard
<1> HIDE DEF NewCard
<1>6. CacheOK
  BY <1>3, <1>4, <1>5 DEF CacheOK
<1> QED
  BY <1>2, <1>6 DEF FatTyped

(* The two are one induction: the types need no more, but whether a put of *)
(* a cluster's number frees a cluster is seen from the types.              *)
LEMMA FatInv == FatSpec => [](FatTyped /\ FullIsFull)
<1>1. FatInit => FatTyped /\ FullIsFull
  BY InitTyped
<1>2. FatTyped /\ FullIsFull /\ [FatNext]_fatVars => (FatTyped /\ FullIsFull)'
  <2> SUFFICES ASSUME FatTyped, FullIsFull, [FatNext]_fatVars
               PROVE  Left
    BY DEF Left
  <2>1. CASE LogStep /\ UNCHANGED root_entries
    BY <2>1, LogTyped
  <2>2. CASE FilesStep /\ UNCHANGED root_entries
    BY <2>2, FilesTyped
  <2>3. CASE FatReboot /\ UNCHANGED root_entries
    BY <2>3, RebootTyped
  <2>4. CASE UNCHANGED fatVars
    <3>1. UNCHANGED <<root_entries, mem, may, file, ao_file_dirent, next_free,
                      filesystem_full, task, name, broken>>
      BY <2>4 DEF fatVars, cacheVars
    <3>2. CacheOK' /\ FullIsFull'
      BY <3>1 DEF CacheOK, FatTyped, Contents, Keys, Holds, Entries, FullIsFull,
                  FreeClusters, Entry
    <3>3. FilesOK' /\ DirentsOK' /\ TasksOK'
      BY <3>1 DEF FatTyped, FilesOK, DirentsOK, TasksOK, AoFile, AoDirent, Opening,
                  NoDirent, Entries
    <3> QED
      BY <3>2, <3>3 DEF Left, FatTyped
  <2> QED
    BY <2>1, <2>2, <2>3, <2>4 DEF FatNext
<1> QED
  BY <1>1, <1>2, PTL DEF FatSpec

(* The cache, the open files and the tasks are what their types say, and   *)
(* every ao_file_dirent in use is of an open file, through all calls and   *)
(* power failures.                                                         *)
THEOREM FatTypes == FatSpec => []FatTyped
<1>1. FatTyped /\ FullIsFull => FatTyped
  OBVIOUS
<1> QED
  BY <1>1, FatInv, PTL

(* A file system that says it is full has no free cluster: making a file   *)
(* shorter forgets it, and nothing else frees one                          *)
(* (_ao_fat_cluster_set_size and _ao_fat_entry_replace).                   *)
THEOREM FullWhenFull == FatSpec => []FullIsFull
<1>1. FatTyped /\ FullIsFull => FullIsFull
  OBVIOUS
<1> QED
  BY <1>1, FatInv, PTL
=============================================================================

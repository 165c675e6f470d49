--------------------------- MODULE AltosCardProofs ---------------------------
(***************************************************************************)
(* What is on a card of any size: the tables and the directory pass        *)
(* check_fs after every call, files read back what was written, and what   *)
(* was flushed stays when power fails.  CardKept is inductive on top of    *)
(* FatInv of AltosFatProofs: first come the chains of clusters, then what  *)
(* the calls keep of the files, one lemma for each call.                   *)
(***************************************************************************)
EXTENDS AltosFatProofs, FunctionTheorems

-----------------------------------------------------------------------------
(* The clusters from one on.                                               *)
Reach(store, c) == {Chain(store, c)[i] : i \in 0 .. Length(store, c) - 1}

(* The clusters of a chain are clusters of the card, so there are not more *)
(* of them.                                                                *)
LEMMA ReachIn ==
  ASSUME NEW store, NEW c
  PROVE  /\ Reach(store, c) \subseteq Clusters /\ IsFiniteSet(Reach(store, c))
         /\ Cardinality(Reach(store, c)) \in Nat
         /\ Cardinality(Reach(store, c)) <= NumberCluster - 2
<1>1. /\ Length(store, c) \in 0 .. NumberCluster + 1
      /\ \A i \in 0 .. NumberCluster :
           Valid(Chain(store, c)[i]) <=> i < Length(store, c)
  BY ChainLength
<1>2. NumberCluster \in Nat /\ NumberCluster > 2
  BY Numbers
<1>3. ASSUME NEW i \in 0 .. Length(store, c) - 1
      PROVE  Chain(store, c)[i] \in Clusters
  <2>1. i \in 0 .. NumberCluster /\ i < Length(store, c)
    BY <1>1, <1>2
  <2> QED
    BY <1>1, <2>1 DEF Valid
<1>4. Reach(store, c) \in SUBSET Clusters
  BY <1>3 DEF Reach
<1>5. IsFiniteSet(Clusters) /\ Cardinality(Clusters) = NumberCluster - 2
  <2>1. 2 \in Int /\ NumberCluster - 1 \in Int /\ ~(2 > NumberCluster - 1)
        /\ (NumberCluster - 1) - 2 + 1 = NumberCluster - 2
    BY <1>2
  <2> QED
    BY <2>1, FS_Interval DEF Clusters
<1> QED
  BY <1>4, <1>5, FS_Subset, FS_CardinalityType

(* A chain is as long as its first cluster number that is no cluster is    *)
(* far.                                                                    *)
LEMMA LengthIs ==
  ASSUME NEW store, NEW c, NEW n \in 0 .. NumberCluster,
         ~Valid(Chain(store, c)[n]), \A i \in 0 .. n - 1 : Valid(Chain(store, c)[i])
  PROVE  Length(store, c) = n
<1>1. /\ Length(store, c) \in 0 .. NumberCluster + 1
      /\ \A i \in 0 .. NumberCluster :
           Valid(Chain(store, c)[i]) <=> i < Length(store, c)
  BY ChainLength
<1>2. NumberCluster \in Nat
  BY Numbers
<1>3. Length(store, c) <= n
  BY <1>1, <1>2
<1>4. n # 0 => n - 1 < Length(store, c)
  BY <1>1, <1>2
<1> QED
  BY <1>1, <1>2, <1>3, <1>4

(* A chain that ends passes each cluster once: one that came to a cluster  *)
(* again would go round.                                                   *)
LEMMA OnceOnly ==
  ASSUME NEW store, NEW c, Length(store, c) <= NumberCluster,
         NEW i \in 0 .. Length(store, c) - 1, NEW j \in 0 .. Length(store, c) - 1,
         Chain(store, c)[i] = Chain(store, c)[j]
  PROVE  i = j
<1> DEFINE x == Chain(store, c)
           long == Length(store, c)
<1>1. long \in 0 .. NumberCluster /\ NumberCluster \in Nat
      /\ \A k \in 0 .. NumberCluster : Valid(x[k]) <=> k < long
  BY ChainLength, Numbers
<1>2. ASSUME NEW a \in 0 .. long - 1, NEW b \in 0 .. long - 1, x[a] = x[b], a < b
      PROVE  FALSE
  <2>1. a \in 0 .. NumberCluster /\ b \in 0 .. NumberCluster
        /\ long - b \in 0 .. NumberCluster - b /\ long - b \in 0 .. NumberCluster - a
        /\ b + (long - b) = long /\ a + (long - b) \in 0 .. NumberCluster
        /\ a + (long - b) < long /\ long \in 0 .. NumberCluster
    BY <1>1, <1>2
  <2>2. Chain(store, x[b])[long - b] = x[long]
    BY <2>1, ChainFrom
  <2>3. Chain(store, x[a])[long - b] = x[a + (long - b)]
    BY <2>1, ChainFrom
  <2> HIDE DEF x, long
  <2>4. ~(long < long)
    BY <1>1
  <2> QED
    BY <1>1, <1>2, <2>1, <2>2, <2>3, <2>4
<1> QED
  BY <1>1, <1>2

(* A chain ends exactly when it has as many clusters as it is long.        *)
LEMMA CountReach ==
  ASSUME NEW store, NEW c
  PROVE  Length(store, c) <= NumberCluster
           <=> Cardinality(Reach(store, c)) = Length(store, c)
<1> DEFINE long == Length(store, c)
           S == 0 .. long - 1
           f == [i \in S |-> Chain(store, c)[i]]
<1>1. long \in Nat /\ NumberCluster \in Nat /\ NumberCluster > 2
  BY ChainLength, Numbers
<1>2. ASSUME long <= NumberCluster PROVE Cardinality(Reach(store, c)) = long
  <2>1. f \in Injection(S, Reach(store, c))
    <3>1. \A i, j \in S : f[i] = f[j] => i = j
      BY <1>2, OnceOnly
    <3>2. f \in [S -> Reach(store, c)]
      BY DEF Reach
    <3> HIDE DEF f, S
    <3> QED
      BY <3>1, <3>2 DEF Injection, IsInjective
  <2>2. f \in Surjection(S, Reach(store, c))
    BY DEF Surjection, Reach
  <2>3. IsFiniteSet(S) /\ Cardinality(S) = long
    <3>1. long - 1 \in Int /\ (IF 0 > long - 1 THEN 0 ELSE (long - 1) - 0 + 1) = long
      BY <1>1
    <3> HIDE DEF long
    <3> QED
      BY <3>1, FS_Interval
  <2> HIDE DEF f, S, long
  <2> QED
    BY <2>1, <2>2, <2>3, FS_Surjection
<1> QED
  BY <1>1, <1>2, ReachIn

(* A chain that another store has too.                                     *)
LEMMA ReachSame ==
  ASSUME NEW store, NEW other, NEW c, Length(store, c) <= NumberCluster,
         \A d \in Reach(store, c) :
           other[FatSector(1, d)][d] = store[FatSector(1, d)][d]
  PROVE  /\ Length(other, c) = Length(store, c)
         /\ \A i \in 0 .. Length(store, c) : Chain(other, c)[i] = Chain(store, c)[i]
         /\ Reach(other, c) = Reach(store, c)
<1> DEFINE x == Chain(store, c)
           long == Length(store, c)
<1>1. long \in 0 .. NumberCluster /\ NumberCluster \in Nat
      /\ \A k \in 0 .. NumberCluster : Valid(x[k]) <=> k < long
  BY ChainLength, Numbers
<1>2. \A i \in 0 .. long : Chain(other, c)[i] = x[i]
  <2>1. \A i \in 0 .. long - 1 : x[i] \in Reach(store, c)
    BY DEF Reach
  <2> QED
    BY <1>1, <2>1, ChainSame
<1>3. Length(other, c) = long
  <2>1. ~Valid(Chain(other, c)[long]) /\ \A i \in 0 .. long - 1 : Valid(Chain(other, c)[i])
    BY <1>1, <1>2
  <2> QED
    BY <1>1, <2>1, LengthIs
<1>4. Reach(other, c) = Reach(store, c)
  <2>1. \A i \in 0 .. long - 1 : Chain(other, c)[i] = x[i]
    BY <1>1, <1>2
  <2> QED
    BY <1>3, <2>1 DEF Reach
<1> QED
  BY <1>2, <1>3, <1>4

(* The rest of a chain.                                                    *)
LEMMA LengthFrom ==
  ASSUME NEW store, NEW c, Length(store, c) <= NumberCluster,
         NEW n \in 0 .. NumberCluster, n <= Length(store, c)
  PROVE  /\ Length(store, Chain(store, c)[n]) = Length(store, c) - n
         /\ \A i \in 0 .. NumberCluster - n :
              Chain(store, Chain(store, c)[n])[i] = Chain(store, c)[n + i]
<1> DEFINE x == Chain(store, c)
           long == Length(store, c)
           y == Chain(store, x[n])
<1>1. long \in 0 .. NumberCluster /\ NumberCluster \in Nat
      /\ \A k \in 0 .. NumberCluster : Valid(x[k]) <=> k < long
  BY ChainLength, Numbers
<1>2. \A i \in 0 .. NumberCluster - n : y[i] = x[n + i]
  BY ChainFrom
<1>3. long - n \in 0 .. NumberCluster /\ ~Valid(y[long - n])
      /\ \A i \in 0 .. (long - n) - 1 : Valid(y[i])
  <2>1. long - n \in 0 .. NumberCluster - n /\ n + (long - n) = long
        /\ \A i \in 0 .. (long - n) - 1 :
             i \in 0 .. NumberCluster - n /\ n + i \in 0 .. NumberCluster /\ n + i < long
    BY <1>1
  <2> HIDE DEF x, y, long
  <2>2. long - n \in 0 .. NumberCluster /\ ~(long < long)
    BY <1>1, <2>1
  <2> QED
    BY <1>1, <1>2, <2>1, <2>2
<1>4. Length(store, x[n]) = long - n
  BY <1>3, LengthIs
<1> QED
  BY <1>2, <1>4

(* A file without a first cluster has none.                                *)
LEMMA NoReach ==
  ASSUME NEW store, NEW c, ~Valid(c)
  PROVE  Length(store, c) = 0 /\ Reach(store, c) = {}
<1>1. Chain(store, c)[0] = c /\ 0 \in 0 .. NumberCluster
  BY ChainIs, Numbers
<1>2. Length(store, c) = 0
  BY <1>1, LengthIs
<1> QED
  BY <1>2 DEF Reach

(* A chain whose last cluster is followed by one that was in none.         *)
LEMMA OneMore ==
  ASSUME NEW store, NEW other, NEW c, Length(store, c) <= NumberCluster,
         NEW got \in Clusters, got \notin Reach(store, c),
         other[FatSector(1, got)][got] = LastCluster,
         \A i \in 0 .. Length(store, c) - 1 :
           LET d == Chain(store, c)[i]
           IN other[FatSector(1, d)][d] = IF i = Length(store, c) - 1 THEN got
                                          ELSE store[FatSector(1, d)][d]
  PROVE  LET first == IF Length(store, c) = 0 THEN got ELSE c
             long == Length(store, c)
         IN /\ Length(other, first) = long + 1
            /\ \A i \in 0 .. long - 1 : Chain(other, first)[i] = Chain(store, c)[i]
            /\ Chain(other, first)[long] = got
            /\ Chain(other, first)[long + 1] = LastCluster
            /\ Reach(other, first) = Reach(store, c) \union {got}
<1> DEFINE x == Chain(store, c)
           long == Length(store, c)
           first == IF long = 0 THEN got ELSE c
           y == Chain(other, first)
<1>1. long \in 0 .. NumberCluster - 2 /\ NumberCluster \in Nat /\ NumberCluster > 2
      /\ \A k \in 0 .. NumberCluster : Valid(x[k]) <=> k < long
  BY ChainLength, Numbers, CountReach, ReachIn
<1>2. \A i \in 0 .. long - 1 : y[i] = x[i]
  <2>1. CASE long = 0
    BY <2>1
  <2>2. CASE long # 0
    <3>1. first = c /\ long - 1 \in 0 .. NumberCluster
      BY <1>1, <2>2
    <3>2. \A i \in 0 .. (long - 1) - 1 :
            LET d == x[i]
            IN Valid(d) => other[FatSector(1, d)][d] = store[FatSector(1, d)][d]
      <4>1. \A i \in 0 .. (long - 1) - 1 : i \in 0 .. long - 1 /\ i # long - 1
        BY <1>1
      <4> QED
        BY <4>1
    <3>3. \A i \in 0 .. long - 1 : Chain(other, c)[i] = x[i]
      BY <3>1, <3>2, ChainSame
    <3> QED
      BY <3>1, <3>3
  <2> QED
    BY <2>1, <2>2
<1>3. y[long] = got
  <2>1. CASE long = 0
    BY <2>1, ChainIs
  <2>2. CASE long # 0
    <3>1. long - 1 \in 0 .. NumberCluster - 1 /\ (long - 1) + 1 = long
          /\ long - 1 \in 0 .. long - 1 /\ long - 1 \in 0 .. NumberCluster
          /\ long - 1 < long
      BY <1>1, <2>2
    <3>2. y[long] = IF Valid(y[long - 1])
                    THEN other[FatSector(1, y[long - 1])][y[long - 1]] ELSE y[long - 1]
      BY <3>1, ChainNext
    <3>3. y[long - 1] = x[long - 1] /\ Valid(x[long - 1])
      BY <1>1, <1>2, <3>1
    <3>4. other[FatSector(1, x[long - 1])][x[long - 1]] = got
      BY <3>1
    <3> HIDE DEF x, y, long
    <3> QED
      BY <3>2, <3>3, <3>4
  <2> QED
    BY <2>1, <2>2
<1>4. y[long + 1] = LastCluster
  <2>1. long \in 0 .. NumberCluster - 1
    BY <1>1
  <2>2. y[long + 1] = IF Valid(y[long]) THEN other[FatSector(1, y[long])][y[long]]
                      ELSE y[long]
    BY <2>1, ChainNext
  <2> HIDE DEF y
  <2> QED
    BY <1>3, <2>2 DEF Valid
<1> HIDE DEF x, y, long
<1>5. ~Valid(LastCluster) /\ Valid(got) /\ long + 1 \in 0 .. NumberCluster
      /\ (long + 1) - 1 = long
  BY <1>1 DEF Valid, Clusters, LastCluster
<1>6. \A i \in 0 .. long : i = long \/ i \in 0 .. long - 1
  BY <1>1
<1>7. \A i \in 0 .. long - 1 : Valid(x[i])
  <2>1. \A i \in 0 .. long - 1 : i \in 0 .. NumberCluster /\ i < long
    BY <1>1
  <2> QED
    BY <1>1, <2>1
<1>8. Length(other, first) = long + 1
  <2>1. \A i \in 0 .. (long + 1) - 1 : Valid(y[i])
    BY <1>2, <1>3, <1>5, <1>6, <1>7
  <2>2. ~Valid(y[long + 1])
    BY <1>4, <1>5
  <2> QED
    BY <1>5, <2>1, <2>2, LengthIs DEF y
<1>9. Reach(other, first) = Reach(store, c) \union {got}
  <2>1. Reach(other, first) = {y[i] : i \in 0 .. long}
    BY <1>5, <1>8 DEF Reach, y
  <2>2. Reach(store, c) = {x[i] : i \in 0 .. long - 1}
    BY DEF Reach, x, long
  <2>3. long \in 0 .. long /\ \A i \in 0 .. long - 1 : i \in 0 .. long
    BY <1>1
  <2> HIDE DEF first
  <2> QED
    BY <1>2, <1>3, <1>6, <2>1, <2>2, <2>3
<1> QED
  BY <1>2, <1>3, <1>4, <1>8, <1>9 DEF x, y, long

-----------------------------------------------------------------------------
(* What check_fs asks of a store, of the directory entries E.              *)
First(store, e) == store[RootSector][e].cluster
Way(store, e) == Chain(store, First(store, e))
Long(store, e) == Length(store, First(store, e))
Used(store, e) == Reach(store, First(store, e))

InUse(E, store) == {e \in E : store[RootSector][e].name # NoName}

TwoTables(store) ==
  \A c \in Clusters : store[FatSector(1, c)][c] = store[FatSector(2, c)][c]

Dense(E, store) == \A e \in InUse(E, store) : 0 .. e \subseteq InUse(E, store)

Ends(store, e) ==
  /\ Long(store, e) <= NumberCluster
  /\ Long(store, e) > 0 => Way(store, e)[Long(store, e)] = LastCluster

Apart(E, store) ==
  /\ \A e \in InUse(E, store) : Ends(store, e)
  /\ \A e, d \in InUse(E, store) : e # d => Used(store, d) \cap Used(store, e) = {}
  /\ \A c \in Clusters :
       store[FatSector(1, c)][c] # 0 <=> \E e \in InUse(E, store) : c \in Used(store, e)

SizesTrue(E, store) ==
  \A e \in InUse(E, store) :
    Long(store, e) = ClustersFor(store[RootSector][e].size)

Sound(E, store) ==
  TwoTables(store) /\ Dense(E, store) /\ Apart(E, store) /\ SizesTrue(E, store)

(* check_fs is true of a store exactly when the store is sound: its        *)
(* directory has no gap, the chains end and are apart, each is as long as  *)
(* the size of its file asks, and every other cluster is free.             *)
LEMMA CheckIs ==
  ASSUME NEW store
  PROVE  check_fs(store) <=> Sound(Entries, store)
<1> DEFINE root == store[RootSector]
           files == {e \in Entries : root[e].name # NoName}
           long == [e \in files |-> Length(store, root[e].cluster)]
           chain == [e \in files |-> Chain(store, root[e].cluster)]
           used == [e \in files |-> {chain[e][i] : i \in 0 .. long[e] - 1}]
           C1 == \A e \in files : 0 .. e \subseteq files
           C2 == \A e \in files :
                   /\ long[e] = ClustersFor(root[e].size)
                   /\ long[e] > 0 => chain[e][long[e]] = LastCluster
                   /\ Cardinality(used[e]) = long[e]
                   /\ \A d \in files \ {e} : used[d] \cap used[e] = {}
           C3 == \A c \in Clusters :
                   Entry(store, c) # 0 <=> \E e \in files : c \in used[e]
<1>1. check_fs(store) <=> TwoTables(store) /\ C1 /\ C2 /\ C3
  BY DEF check_fs, TwoTables
<1>2. files = InUse(Entries, store)
  BY DEF InUse
<1>3. \A e \in files : /\ long[e] = Long(store, e) /\ chain[e] = Way(store, e)
                       /\ used[e] = Used(store, e)
  BY DEF Long, Way, First, Used, Reach
<1>4. \A e \in files : Cardinality(Used(store, e)) = Long(store, e)
                         <=> Long(store, e) <= NumberCluster
  BY CountReach DEF Used, Long
<1> HIDE DEF files, long, chain, used
<1>5. C1 <=> Dense(Entries, store)
  BY <1>2 DEF Dense
<1>6. C2 <=> /\ SizesTrue(Entries, store)
             /\ \A e \in files : Ends(store, e)
             /\ \A e, d \in files : e # d => Used(store, d) \cap Used(store, e) = {}
  <2>1. ASSUME C2
        PROVE  /\ SizesTrue(Entries, store)
               /\ \A e \in files : Ends(store, e)
               /\ \A e, d \in files : e # d => Used(store, d) \cap Used(store, e) = {}
    BY <1>2, <1>3, <1>4, <2>1 DEF SizesTrue, Ends
  <2>2. ASSUME SizesTrue(Entries, store), \A e \in files : Ends(store, e),
               \A e, d \in files : e # d => Used(store, d) \cap Used(store, e) = {}
        PROVE  C2
    BY <1>2, <1>3, <1>4, <2>2 DEF SizesTrue, Ends
  <2> HIDE DEF C2
  <2> QED
    BY <2>1, <2>2
<1>7. C3 <=> \A c \in Clusters :
               store[FatSector(1, c)][c] # 0 <=> \E e \in files : c \in Used(store, e)
  BY <1>3 DEF Entry, Valid
<1> QED
  BY <1>1, <1>2, <1>5, <1>6, <1>7 DEF Sound, Apart

(* The clusters of the entry of a file, counted from its first one.        *)
LEMMA UsedIn ==
  ASSUME NEW store, NEW e
  PROVE  /\ Used(store, e) \subseteq Clusters /\ Long(store, e) \in Nat
         /\ \A i \in 0 .. NumberCluster : Valid(Way(store, e)[i]) <=> i < Long(store, e)
         /\ \A i \in 0 .. Long(store, e) - 1 : Way(store, e)[i] \in Used(store, e)
<1>1. Long(store, e) \in Nat
  BY ChainLength, Numbers DEF Long
<1> QED
  BY <1>1, ReachIn, ChainLength DEF Used, Long, Way, Reach

(* What of a file another store has too.                                   *)
SameFile(store, other, e) ==
  /\ First(other, e) = First(store, e) /\ Long(other, e) = Long(store, e)
  /\ \A i \in 0 .. Long(store, e) : Way(other, e)[i] = Way(store, e)[i]
  /\ Used(other, e) = Used(store, e)

(* A file has the same chain in a store that has the same links of it.     *)
LEMMA FileSame ==
  ASSUME NEW store, NEW other, NEW e, Long(store, e) <= NumberCluster,
         First(other, e) = First(store, e),
         \A d \in Used(store, e) :
           other[FatSector(1, d)][d] = store[FatSector(1, d)][d]
  PROVE  SameFile(store, other, e)
<1> DEFINE c == First(store, e)
<1>1. /\ Length(other, c) = Length(store, c)
      /\ \A i \in 0 .. Length(store, c) : Chain(other, c)[i] = Chain(store, c)[i]
      /\ Reach(other, c) = Reach(store, c)
  <2>1. Length(store, c) <= NumberCluster
    BY DEF Long
  <2>2. \A d \in Reach(store, c) :
          other[FatSector(1, d)][d] = store[FatSector(1, d)][d]
    BY DEF Used
  <2> QED
    BY <2>1, <2>2, ReachSame
<1>2. Long(store, e) = Length(store, c) /\ Long(other, e) = Length(other, c)
      /\ Way(store, e) = Chain(store, c) /\ Way(other, e) = Chain(other, c)
      /\ Used(store, e) = Reach(store, c) /\ Used(other, e) = Reach(other, c)
  BY DEF Used, Long, Way
<1> HIDE DEF c
<1> QED
  BY <1>1, <1>2 DEF SameFile

(* A change of one file leaves the chains apart if its own chain ends, is  *)
(* of no other file, and accounts for what changes in the table.           *)
LEMMA ApartAfter ==
  ASSUME NEW E, NEW store, NEW other, NEW e \in E, Apart(E, store),
         InUse(E, other) = InUse(E, store) \union {e},
         \A x \in InUse(E, store) \ {e} :
           /\ First(other, x) = First(store, x)
           /\ \A d \in Used(store, x) :
                other[FatSector(1, d)][d] = store[FatSector(1, d)][d]
           /\ Used(store, x) \cap Used(other, e) = {},
         Ends(other, e),
         \A c \in Clusters :
           (\A x \in InUse(E, store) \ {e} : c \notin Used(store, x))
             => (other[FatSector(1, c)][c] # 0 <=> c \in Used(other, e))
  PROVE  /\ Apart(E, other)
         /\ \A x \in InUse(E, store) \ {e} : SameFile(store, other, x)
<1> DEFINE old == InUse(E, store) \ {e}
<1>1. \A x \in old : SameFile(store, other, x)
  BY FileSame DEF Apart, Ends
<1>2. \A x \in old : Used(other, x) = Used(store, x)
  BY <1>1 DEF SameFile
<1>3. ASSUME NEW x \in InUse(E, other) PROVE Ends(other, x)
  <2>1. CASE x = e
    BY <2>1
  <2>2. CASE x # e
    <3>1. SameFile(store, other, x) /\ Ends(store, x) /\ Long(store, x) \in Nat
      BY <1>1, <2>2, UsedIn DEF Apart
    <3> QED
      BY <3>1 DEF SameFile, Ends
  <2> QED
    BY <2>1, <2>2
<1>4. ASSUME NEW x \in InUse(E, other), NEW y \in InUse(E, other), x # y
      PROVE  Used(other, y) \cap Used(other, x) = {}
  <2>1. CASE x # e /\ y # e
    <3>1. x \in old /\ y \in old
      BY <1>4, <2>1
    <3>2. Used(store, y) \cap Used(store, x) = {}
      BY <1>4, <3>1 DEF Apart
    <3> QED
      BY <1>2, <3>1, <3>2
  <2>2. CASE x = e /\ y # e
    BY <1>2, <2>2
  <2>3. CASE x # e /\ y = e
    BY <1>2, <2>3
  <2> QED
    BY <1>4, <2>1, <2>2, <2>3
<1>5. ASSUME NEW c \in Clusters
      PROVE  other[FatSector(1, c)][c] # 0
               <=> \E x \in InUse(E, other) : c \in Used(other, x)
  <2>1. CASE \E x \in old : c \in Used(store, x)
    <3>1. PICK x \in old : c \in Used(store, x)
      BY <2>1
    <3>2. other[FatSector(1, c)][c] = store[FatSector(1, c)][c]
      BY <3>1
    <3>3. store[FatSector(1, c)][c] # 0
      BY <3>1 DEF Apart
    <3> QED
      BY <1>2, <3>1, <3>2, <3>3
  <2>2. CASE ~ \E x \in old : c \in Used(store, x)
    <3>1. other[FatSector(1, c)][c] # 0 <=> c \in Used(other, e)
      BY <2>2
    <3>2. \A x \in InUse(E, other) : c \in Used(other, x) => x = e
      BY <1>2, <2>2
    <3>3. e \in InUse(E, other)
      OBVIOUS
    <3> QED
      BY <3>1, <3>2, <3>3
  <2> QED
    BY <2>1, <2>2
<1> QED
  BY <1>1, <1>3, <1>4, <1>5 DEF Apart

(* The kinds of changes: none of the table, ...                            *)
LEMMA ApartSame ==
  ASSUME NEW E, NEW store, NEW other, NEW e \in E, Apart(E, store),
         InUse(E, other) = InUse(E, store) \union {e},
         \A x \in InUse(E, store) : First(other, x) = First(store, x),
         e \notin InUse(E, store) => First(other, e) = 0,
         \A c \in Clusters : other[FatSector(1, c)][c] = store[FatSector(1, c)][c]
  PROVE  /\ Apart(E, other)
         /\ \A x \in InUse(E, store) : SameFile(store, other, x)
         /\ e \notin InUse(E, store) => Long(other, e) = 0
<1>1. \A x \in InUse(E, store) : SameFile(store, other, x)
  BY FileSame, UsedIn DEF Apart, Ends
<1>2. e \notin InUse(E, store) => Long(other, e) = 0 /\ Used(other, e) = {}
  <2>1. ~Valid(0)
    BY DEF Valid, Clusters
  <2> QED
    BY <2>1, NoReach DEF Long, Used
<1>3. Ends(other, e)
  <2>1. CASE e \in InUse(E, store)
    <3>1. SameFile(store, other, e) /\ Ends(store, e) /\ Long(store, e) \in Nat
      BY <1>1, <2>1, UsedIn DEF Apart
    <3> QED
      BY <3>1 DEF SameFile, Ends
  <2>2. CASE e \notin InUse(E, store)
    BY <1>2, <2>2, Numbers DEF Ends
  <2> QED
    BY <2>1, <2>2
<1>4. ASSUME NEW x \in InUse(E, store) \ {e}
      PROVE  Used(store, x) \cap Used(other, e) = {}
  <2>1. CASE e \in InUse(E, store)
    BY <1>1, <2>1 DEF SameFile, Apart
  <2>2. CASE e \notin InUse(E, store)
    BY <1>2, <2>2
  <2> QED
    BY <2>1, <2>2
<1>5. ASSUME NEW c \in Clusters, \A x \in InUse(E, store) \ {e} : c \notin Used(store, x)
      PROVE  other[FatSector(1, c)][c] # 0 <=> c \in Used(other, e)
  <2>1. store[FatSector(1, c)][c] # 0
          <=> e \in InUse(E, store) /\ c \in Used(store, e)
    BY <1>5 DEF Apart
  <2> QED
    BY <1>1, <1>2, <2>1 DEF SameFile
<1>6. \A x \in InUse(E, store) \ {e} : \A d \in Used(store, x) :
        other[FatSector(1, d)][d] = store[FatSector(1, d)][d]
  BY UsedIn
<1> QED
  BY <1>1, <1>2, <1>3, <1>4, <1>5, <1>6, ApartAfter

(* ... that a file is made empty, ...                                      *)
LEMMA ApartEmptied ==
  ASSUME NEW E, NEW store, NEW other, NEW e \in InUse(E, store), Apart(E, store),
         InUse(E, other) = InUse(E, store),
         \A x \in InUse(E, store) \ {e} : First(other, x) = First(store, x),
         First(other, e) = 0,
         \A c \in Clusters : other[FatSector(1, c)][c] =
           IF c \in Used(store, e) THEN 0 ELSE store[FatSector(1, c)][c]
  PROVE  /\ Apart(E, other)
         /\ \A x \in InUse(E, store) \ {e} : SameFile(store, other, x)
         /\ Long(other, e) = 0
<1>1. Long(other, e) = 0 /\ Used(other, e) = {}
  <2>1. ~Valid(0)
    BY DEF Valid, Clusters
  <2> QED
    BY <2>1, NoReach DEF Long, Used
<1>2. e \in E /\ InUse(E, other) = InUse(E, store) \union {e}
  BY DEF InUse
<1>3. Ends(other, e)
  BY <1>1, Numbers DEF Ends
<1>4. \A x \in InUse(E, store) \ {e} : \A d \in Used(store, x) :
        other[FatSector(1, d)][d] = store[FatSector(1, d)][d]
  <2> TAKE x \in InUse(E, store) \ {e}
  <2> TAKE d \in Used(store, x)
  <2>1. d \in Clusters /\ d \notin Used(store, e)
    BY UsedIn DEF Apart
  <2> QED
    BY <2>1
<1>5. ASSUME NEW c \in Clusters, \A x \in InUse(E, store) \ {e} : c \notin Used(store, x)
      PROVE  other[FatSector(1, c)][c] # 0 <=> c \in Used(other, e)
  <2>1. store[FatSector(1, c)][c] # 0 <=> c \in Used(store, e)
    BY <1>5 DEF Apart
  <2> QED
    BY <1>1, <2>1
<1>6. \A x \in InUse(E, store) \ {e} : Used(store, x) \cap Used(other, e) = {}
  BY <1>1
<1> QED
  BY <1>1, <1>2, <1>3, <1>4, <1>5, <1>6, ApartAfter

(* ... and that a file gets a cluster that was free.                       *)
LEMMA ApartLonger ==
  ASSUME NEW E, NEW store, NEW other, NEW e \in InUse(E, store), Apart(E, store),
         InUse(E, other) = InUse(E, store),
         \A x \in InUse(E, store) \ {e} : First(other, x) = First(store, x),
         NEW got \in Clusters, store[FatSector(1, got)][got] = 0,
         First(other, e) = IF Long(store, e) = 0 THEN got ELSE First(store, e),
         \A c \in Clusters : other[FatSector(1, c)][c] =
           IF c = got THEN LastCluster
           ELSE IF Long(store, e) # 0 /\ c = Way(store, e)[Long(store, e) - 1] THEN got
           ELSE store[FatSector(1, c)][c]
  PROVE  /\ Apart(E, other)
         /\ \A x \in InUse(E, store) \ {e} : SameFile(store, other, x)
         /\ Long(other, e) = Long(store, e) + 1
         /\ \A i \in 0 .. Long(store, e) - 1 : Way(other, e)[i] = Way(store, e)[i]
<1> DEFINE first == First(store, e)
           long == Long(store, e)
           last == Way(store, e)[long - 1]
<1>1. \A x \in InUse(E, store) : got \notin Used(store, x)
  BY DEF Apart
<1>2. e \in E /\ InUse(E, other) = InUse(E, store) \union {e}
  BY DEF InUse
<1>3. /\ long \in Nat /\ long <= NumberCluster /\ NumberCluster \in Nat
      /\ \A i \in 0 .. long - 1 : Way(store, e)[i] \in Used(store, e)
      /\ Used(store, e) \subseteq Clusters
  BY UsedIn, Numbers DEF Apart, Ends
<1>4. /\ Long(other, e) = long + 1
      /\ \A i \in 0 .. long - 1 : Way(other, e)[i] = Way(store, e)[i]
      /\ Way(other, e)[long + 1] = LastCluster
      /\ Used(other, e) = Used(store, e) \union {got}
  <2> DEFINE n == IF Length(store, first) = 0 THEN got ELSE first
  <2>1. ASSUME NEW i \in 0 .. Length(store, first) - 1
        PROVE  LET d == Chain(store, first)[i]
               IN other[FatSector(1, d)][d] =
                    IF i = Length(store, first) - 1 THEN got ELSE store[FatSector(1, d)][d]
    <3> DEFINE d == Chain(store, first)[i]
    <3>1. long = Length(store, first) /\ Way(store, e) = Chain(store, first)
      BY DEF Long, Way
    <3>2. d \in Clusters /\ d # got
      BY <1>1, <1>3, <3>1
    <3>3. long - 1 \in 0 .. long - 1 /\ long # 0
      BY <1>3, <3>1
    <3>4. d = last <=> i = long - 1
      BY <1>3, <3>1, <3>3, OnceOnly
    <3> HIDE DEF d, last, first
    <3> QED
      BY <3>1, <3>2, <3>3, <3>4 DEF last, d
  <2>2. Length(store, first) <= NumberCluster /\ got \notin Reach(store, first)
        /\ other[FatSector(1, got)][got] = LastCluster
    BY <1>1, <1>3 DEF Long, Used
  <2>3. /\ Length(other, n) = Length(store, first) + 1
        /\ \A i \in 0 .. Length(store, first) - 1 :
             Chain(other, n)[i] = Chain(store, first)[i]
        /\ Chain(other, n)[Length(store, first) + 1] = LastCluster
        /\ Reach(other, n) = Reach(store, first) \union {got}
    <3> HIDE DEF first
    <3> QED
      BY <2>1, <2>2, OneMore
  <2>4. First(other, e) = n
    BY DEF Long
  <2> HIDE DEF n
  <2> QED
    BY <2>3, <2>4 DEF Long, Way, Used
<1>5. Ends(other, e)
  <2>1. Long(other, e) <= NumberCluster
    <3>1. long <= NumberCluster - 2
      BY <1>3, CountReach, ReachIn DEF Long
    <3> QED
      BY <1>3, <1>4, <3>1
  <2> QED
    BY <1>4, <2>1 DEF Ends
<1>6. long # 0 => last \in Used(store, e)
  BY <1>3
<1> HIDE DEF long, last, first
<1>7. \A x \in InUse(E, store) \ {e} : \A d \in Used(store, x) :
        other[FatSector(1, d)][d] = store[FatSector(1, d)][d]
  <2> TAKE x \in InUse(E, store) \ {e}
  <2> TAKE d \in Used(store, x)
  <2>1. d \in Clusters /\ d # got /\ d \notin Used(store, e)
    BY <1>1, UsedIn DEF Apart
  <2> QED
    BY <1>6, <2>1 DEF long, last
<1>8. \A x \in InUse(E, store) \ {e} : Used(store, x) \cap Used(other, e) = {}
  BY <1>1, <1>4 DEF Apart
<1>9. ASSUME NEW c \in Clusters, \A x \in InUse(E, store) \ {e} : c \notin Used(store, x)
      PROVE  other[FatSector(1, c)][c] # 0 <=> c \in Used(other, e)
  <2>1. store[FatSector(1, c)][c] # 0 <=> c \in Used(store, e)
    BY <1>9 DEF Apart
  <2>2. got # 0 /\ LastCluster # 0
    BY Numbers DEF Clusters, LastCluster
  <2>3. CASE c = got
    BY <1>4, <2>2, <2>3
  <2>4. CASE c # got /\ long # 0 /\ c = last
    BY <1>4, <1>6, <2>2, <2>4 DEF long, last
  <2>5. CASE c # got /\ ~(long # 0 /\ c = last)
    BY <1>4, <2>1, <2>5 DEF long, last
  <2> QED
    BY <2>3, <2>4, <2>5
<1>10. /\ \A x \in InUse(E, store) \ {e} :
            /\ First(other, x) = First(store, x)
            /\ \A d \in Used(store, x) :
                 other[FatSector(1, d)][d] = store[FatSector(1, d)][d]
            /\ Used(store, x) \cap Used(other, e) = {}
       /\ \A c \in Clusters :
            (\A x \in InUse(E, store) \ {e} : c \notin Used(store, x))
              => (other[FatSector(1, c)][c] # 0 <=> c \in Used(other, e))
  BY <1>7, <1>8, <1>9
<1>11. Apart(E, other) /\ \A x \in InUse(E, store) \ {e} : SameFile(store, other, x)
  BY <1>2, <1>5, <1>10, ApartAfter
<1> QED
  BY <1>4, <1>11 DEF long

-----------------------------------------------------------------------------
(* What a call changes: the puts of a file that is made longer, or empty.  *)
Passed(f) == f.cluster_offset \div PerCluster

(* The cluster that an open file keeps is one of its chain.                *)
InChain(store, f, d) ==
  f.cluster # 0 =>
    Passed(f) \in 0 .. NumberCluster /\ f.cluster = Chain(store, d.cluster)[Passed(f)]

GetsCluster(puts, c, long, got) ==
  \A p : p \in ToSet(puts) <=>
    \/ long # 0 /\ p \in TableCells(Chain(mem, c)[long - 1], got)
    \/ p \in TableCells(got, LastCluster)

LosesClusters(puts, c, long) ==
  \A p : p \in ToSet(puts) <=>
    \E i \in 0 .. long - 1 : p \in TableCells(Chain(mem, c)[i], 0)

(* A file that grows takes one free cluster and links it to its last one;  *)
(* it is left short when it needed more than that.                         *)
LEMMA TableGrows ==
  ASSUME CacheOK, FilesOK, NEW f \in AoFile, NEW d \in AoDirent, NEW size \in Nat,
         InChain(mem, f, d), Length(mem, d.cluster) = ClustersFor(d.size),
         Length(mem, d.cluster) <= NumberCluster, ClustersFor(size) > ClustersFor(d.size)
  PROVE  LET long == Length(mem, d.cluster)
             t == InTable(f, d, size)
         IN t.ok => \E got \in FreeClusters :
                      /\ GetsCluster(t.puts, d.cluster, long, got)
                      /\ (IF FromHere(f, size) THEN d.cluster ELSE t.first)
                           = IF long = 0 THEN got ELSE d.cluster
                      /\ t.short <=> ClustersFor(size) > long + 1
                      /\ ClustersFor(size) - long <= Cardinality(FreeClusters)
<1> DEFINE long == Length(mem, d.cluster)
           need == ClustersFor(size)
           t == InTable(f, d, size)
<1>1. TableOK(mem) /\ next_free \in TableValues /\ filesystem_full \in BOOLEAN
  BY TableTyped DEF FilesOK
<1>2. /\ f.cluster \in Starts /\ f.cluster_offset \in Nat /\ d.cluster \in Starts
      /\ f.cluster \in TableValues /\ d.cluster \in TableValues
      /\ d.size \in Nat /\ need \in Nat /\ long \in Nat /\ NumberCluster \in Nat
      /\ need > long /\ ClustersFor(d.size) # ClustersFor(size)
  <2>1. /\ f.cluster \in Starts /\ f.cluster_offset \in Nat
        /\ d.cluster \in Starts /\ d.size \in Nat
    BY DEF AoFile, AoDirent
  <2>2. f.cluster \in TableValues /\ d.cluster \in TableValues
    BY <2>1, StartsTyped
  <2>3. ClustersFor(d.size) \in Nat /\ need \in Nat /\ NumberCluster \in Nat
    BY <2>1, ClustersForIs, Numbers
  <2> QED
    BY <2>1, <2>2, <2>3
<1>3. CASE FromHere(f, size)
  <2> DEFINE k == Passed(f)
             have == Length(mem, f.cluster)
             more == need - k - have
  <2>1. f.cluster # 0 /\ f.cluster \in Clusters
    BY <1>2, <1>3 DEF FromHere, Starts
  <2>2. k \in 0 .. NumberCluster /\ f.cluster = Chain(mem, d.cluster)[k]
    BY <2>1 DEF InChain
  <2>3. k < long
    BY <2>1, <2>2, ChainLength DEF Valid
  <2>4. /\ have = long - k
        /\ \A i \in 0 .. NumberCluster - k :
             Chain(mem, f.cluster)[i] = Chain(mem, d.cluster)[k + i]
    BY <1>2, <2>2, <2>3, LengthFrom
  <2>5. have # 0 /\ more = need - long /\ more \in Nat /\ more > 0 /\ ~(have >= need - k)
        /\ have - 1 \in 0 .. NumberCluster - k /\ k + (have - 1) = long - 1 /\ long # 0
        /\ more = (need - k) - have
    <3> HIDE DEF long, k, have, need
    <3> QED
      BY <1>2, <2>2, <2>3, <2>4 DEF long
  <2>6. t = SetSize(f.cluster, need - k)
    <3> HIDE DEF need
    <3>1. t = SetSize(f.cluster, ClustersFor(size) - f.cluster_offset \div PerCluster)
      BY <1>2, <1>3 DEF InTable
    <3> QED
      BY <3>1 DEF Passed, need
  <2>7. t = Grown(f.cluster, have, more)
    <3> HIDE DEF t, k, need
    <3> QED
      BY <2>5, <2>6 DEF SetSize
  <2>8. ASSUME t.ok
        PROVE  /\ t.short <=> more > 1
               /\ more <= Cardinality(FreeClusters)
               /\ \E got \in FreeClusters : \A p : p \in ToSet(t.puts) <=>
                    \/ have # 0 /\ p \in TableCells(Chain(mem, f.cluster)[have - 1], got)
                    \/ p \in TableCells(got, LastCluster)
    <3>1. Grown(f.cluster, have, more).ok
      BY <2>7, <2>8
    <3> HIDE DEF t, more
    <3> QED
      BY <1>1, <1>2, <2>5, <2>7, <3>1, GrownIs
  <2>9. Chain(mem, f.cluster)[have - 1] = Chain(mem, d.cluster)[long - 1]
    BY <2>4, <2>5
  <2>10. (more > 1 <=> need > long + 1) /\ more = need - long
    <3> HIDE DEF more, need, long
    <3> QED
      BY <1>2, <2>5
  <2> HIDE DEF t, have, k, more, long, need
  <2> QED
    BY <1>3, <2>5, <2>8, <2>9, <2>10 DEF GetsCluster, t, long, need
<1>4. CASE ~FromHere(f, size)
  <2> DEFINE more == need - long
  <2>1. more \in Nat /\ more > 0 /\ ~(long >= need) /\ (more > 1 <=> need > long + 1)
        /\ more = need - long
    BY <1>2
  <2>2. t = SetSize(d.cluster, need)
    BY <1>2, <1>4 DEF InTable
  <2>3. t = Grown(d.cluster, long, more)
    <3> HIDE DEF t, need
    <3> QED
      BY <2>1, <2>2 DEF SetSize
  <2>4. ASSUME t.ok
        PROVE  /\ t.short <=> more > 1
               /\ more <= Cardinality(FreeClusters)
               /\ \E got \in FreeClusters :
                    /\ t.first = IF long = 0 THEN got ELSE d.cluster
                    /\ \A p : p \in ToSet(t.puts) <=>
                         \/ long # 0 /\ p \in TableCells(Chain(mem, d.cluster)[long - 1], got)
                         \/ p \in TableCells(got, LastCluster)
    <3>1. Grown(d.cluster, long, more).ok
      BY <2>3, <2>4
    <3> HIDE DEF t, more
    <3> QED
      BY <1>1, <1>2, <2>1, <2>3, <3>1, GrownIs
  <2> HIDE DEF t, more, long, need
  <2> QED
    BY <1>4, <2>1, <2>4 DEF GetsCluster, t, long, need
<1> QED
  BY <1>3, <1>4

(* A file made empty gives back every cluster of its chain.                *)
LEMMA TableEmptied ==
  ASSUME CacheOK, FilesOK, NEW f \in AoFile, NEW d \in AoDirent,
         Length(mem, d.cluster) = ClustersFor(d.size), ClustersFor(d.size) # 0
  PROVE  LET t == InTable(f, d, 0)
         IN /\ ~FromHere(f, 0) /\ t.first = 0 /\ t.ok /\ ~t.short
            /\ LosesClusters(t.puts, d.cluster, Length(mem, d.cluster))
<1> DEFINE long == Length(mem, d.cluster)
           t == InTable(f, d, 0)
<1>1. TableOK(mem) /\ next_free \in TableValues /\ filesystem_full \in BOOLEAN
  BY TableTyped DEF FilesOK
<1>2. /\ f.cluster_offset \in Nat /\ d.cluster \in TableValues /\ d.size \in Nat
      /\ long \in Nat /\ long > 0 /\ 0 \in Nat /\ long >= 0
  BY ClustersForIs, StartsTyped DEF AoFile, AoDirent
<1>3. ~FromHere(f, 0) /\ ClustersFor(0) = 0
  BY <1>2, ClustersForIs DEF FromHere
<1>4. t = SetSize(d.cluster, 0)
  BY <1>3 DEF InTable
<1>5. t = Shrunk(d.cluster, 0)
  <2> HIDE DEF t
  <2> QED
    BY <1>2, <1>4 DEF SetSize
<1>6. /\ Shrunk(d.cluster, 0).first = 0
      /\ Shrunk(d.cluster, 0).ok /\ ~Shrunk(d.cluster, 0).short
      /\ \A p : p \in ToSet(Shrunk(d.cluster, 0).puts) <=>
                \E i \in 0 .. long - 1 : p \in TableCells(Chain(mem, d.cluster)[i], 0)
  BY <1>1, <1>2, ShrunkIs
<1> HIDE DEF t
<1> QED
  BY <1>3, <1>5, <1>6 DEF LosesClusters, t

-----------------------------------------------------------------------------
(* What a change leaves of the sectors.                                    *)
OfData(p) == \E c : p.sector = DataSector(c)

(* The fields of one cell that is put.                                     *)
LEMMA OneCell ==
  ASSUME NEW s, NEW k, NEW v
  PROVE  Cell(s, k, v).sector = s /\ Cell(s, k, v).key = k /\ Cell(s, k, v).value = v
BY DEF Cell

(* A change of the table is of one cluster's link in both tables, and of   *)
(* nothing else.                                                           *)
LEMMA CellsApart ==
  ASSUME NEW fat \in {1, 2}, NEW d \in Clusters
  PROVE  /\ \A c, v : \A p \in TableCells(c, v) :
              p.sector = FatSector(fat, d) /\ p.key = d => c = d /\ p.value = v
         /\ \A v : Cell(FatSector(fat, d), d, v) \in TableCells(d, v)
         /\ \A e, dent : Cell(RootSector, e, dent).sector # FatSector(fat, d)
         /\ \A p : OfData(p) => p.sector # FatSector(fat, d)
<1>1. \A c, v : \A p \in TableCells(c, v) : p.key = c /\ p.value = v
  BY OneCell DEF TableCells
<1>2. \A v : Cell(FatSector(fat, d), d, v) \in TableCells(d, v)
  BY DEF TableCells
<1>3. \A e, dent : Cell(RootSector, e, dent).sector # FatSector(fat, d)
  BY OneCell, TableCell
<1> QED
  BY <1>1, <1>2, <1>3, TableCell DEF OfData

(* Data is neither in the directory nor in the tables.                     *)
LEMMA DataApart ==
  ASSUME NEW p, OfData(p)
  PROVE  p.sector # RootSector /\ ~InTables(p)
BY RootCell, SectorOfTables DEF OfData

(* The directory after a change of one of its entries, or of none.         *)
RootPuts(puts, e, dent) ==
  /\ \A p \in ToSet(puts) :
       p = Cell(RootSector, e, dent) \/ InTables(p) \/ OfData(p)
  /\ Cell(RootSector, e, dent) \in ToSet(puts) \/ dent = mem[RootSector][e]

(* A change of one entry of the directory leaves the other entries, and    *)
(* the card may have that entry before or after it.                        *)
LEMMA RootAfter ==
  ASSUME CacheOK, NEW puts \in Seq(Cells), Change(puts), UNCHANGED root_entries,
         NEW e \in Entries, NEW dent, RootPuts(puts, e, dent)
  PROVE  /\ mem'[RootSector][e] = dent
         /\ \A x \in Entries \ {e} : mem'[RootSector][x] = mem[RootSector][x]
         /\ \A y \in may'[RootSector] \ may[RootSector] :
              /\ \A x \in Entries \ {e} : y[x] = mem[RootSector][x]
              /\ y[e] \in {dent, mem[RootSector][e]}
<1> DEFINE a == [mem |-> mem', may |-> may']
<1>1. AfterOK(a, puts)
  BY CacheChanged
<1>2. RootSector \in FatSectors /\ Keys(RootSector) = Entries
  BY RootCell
<1>3. \A p \in ToSet(puts) : p.sector = RootSector => p = Cell(RootSector, e, dent)
  BY DataApart, SectorOfTables DEF RootPuts
<1>4. \A x \in Entries : Written(puts, RootSector, x) \subseteq {v \in {dent} : x = e}
  BY <1>3, OneCell DEF Written
<1>5. mem'[RootSector][e] = dent
  <2>1. CASE Cell(RootSector, e, dent) \in ToSet(puts)
    <3>1. a.mem[RootSector][e] = dent
      BY <1>1, <1>2, <1>3, <2>1, NewCell, OneCell
    <3> QED
      BY <3>1
  <2>2. CASE dent = mem[RootSector][e]
    BY <1>1, <1>2, <1>4, <2>2 DEF AfterOK
  <2> QED
    BY <2>1, <2>2 DEF RootPuts
<1>6. \A x \in Entries \ {e} : mem'[RootSector][x] = mem[RootSector][x]
  BY <1>1, <1>2, <1>4 DEF AfterOK
<1>7. ASSUME NEW y \in may'[RootSector] \ may[RootSector], NEW x \in Entries
      PROVE  y[x] \in Written(puts, RootSector, x) \union {mem[RootSector][x]}
  BY <1>1, <1>2 DEF AfterOK
<1> QED
  BY <1>4, <1>5, <1>6, <1>7

(* An entry of the table that no change is of.                             *)
LEMMA TableKept ==
  ASSUME CacheOK, NEW puts \in Seq(Cells), Change(puts), UNCHANGED root_entries,
         NEW fat \in {1, 2}, NEW c \in Clusters,
         \A p \in ToSet(puts) : ~(p.sector = FatSector(fat, c) /\ p.key = c)
  PROVE  LET s == FatSector(fat, c)
         IN /\ mem'[s][c] = mem[s][c]
            /\ \A y \in may'[s] \ may[s] : y[c] = mem[s][c]
<1> DEFINE a == [mem |-> mem', may |-> may']
           s == FatSector(fat, c)
<1>1. AfterOK(a, puts)
  BY CacheChanged
<1>2. s \in FatSectors /\ c \in Keys(s)
  BY TableCell
<1>3. Written(puts, s, c) = {}
  BY DEF Written
<1>4. \A p \in ToSet(puts) : ~(p.sector = s /\ p.key = c)
  OBVIOUS
<1> HIDE DEF s, a
<1>5. a.mem[s][c] = mem[s][c]
  BY <1>1, <1>2, <1>4, SameCell
<1>6. \A y \in a.may[s] \ may[s] : y[c] = mem[s][c]
  <2> TAKE y \in a.may[s] \ may[s]
  <2>1. y[c] \in Written(puts, s, c) \union {mem[s][c]}
    BY <1>1, <1>2 DEF AfterOK
  <2> QED
    BY <1>3, <2>1
<1> QED
  BY <1>5, <1>6 DEF a, s

(* A link that is put is what the table has after the change.              *)
LEMMA TablePut ==
  ASSUME CacheOK, NEW puts \in Seq(Cells), Change(puts), UNCHANGED root_entries,
         NEW fat \in {1, 2}, NEW c \in Clusters, NEW v,
         Cell(FatSector(fat, c), c, v) \in ToSet(puts),
         \A p \in ToSet(puts) :
           p.sector = FatSector(fat, c) /\ p.key = c => p.value = v
  PROVE  mem'[FatSector(fat, c)][c] = v
<1> DEFINE a == [mem |-> mem', may |-> may']
           s == FatSector(fat, c)
<1>1. AfterOK(a, puts)
  BY CacheChanged
<1>2. s \in FatSectors /\ c \in Keys(s)
  BY TableCell
<1>3. a.mem[s][c] = v
  BY <1>1, <1>2, NewCell
<1> QED
  BY <1>3

(* What a file had is still there, in the cache and in what the card may   *)
(* have; it may have become longer.                                        *)
FileKept(x) ==
  LET dent == mem[RootSector][x]
      long == Long(mem, x)
  IN /\ mem'[RootSector][x].name = dent.name /\ mem'[RootSector][x].size >= dent.size
     /\ long > 0 => First(mem', x) = First(mem, x)
     /\ Long(mem', x) >= long
     /\ \A i \in 0 .. long - 1 : Way(mem', x)[i] = Way(mem, x)[i]
     /\ \A y \in may'[RootSector] \ may[RootSector] :
          /\ y[x].name = dent.name /\ y[x].size >= dent.size
          /\ long > 0 => y[x].cluster = First(mem, x)
     /\ \A i \in 0 .. long - 2 :
          LET c == Way(mem, x)[i]
          IN /\ mem'[FatSector(1, c)][c] = mem[FatSector(1, c)][c]
             /\ \A y \in may'[FatSector(1, c)] \ may[FatSector(1, c)] :
                  y[c] = mem[FatSector(1, c)][c]

(* A call that changes one entry of the directory and the chain of its     *)
(* file, and no other's.                                                   *)
OnlyFile(e) ==
  /\ InUse(Entries, mem') = InUse(Entries, mem) \union {e}
  /\ TwoTables(mem') /\ Dense(Entries, mem') /\ Apart(Entries, mem')
  /\ \A x \in InUse(Entries, mem) \ {e} :
       /\ FileKept(x) /\ mem'[RootSector][x] = mem[RootSector][x]
       /\ SameFile(mem, mem', x)

(* A file is kept if its entry does not shrink and no link of its chain    *)
(* but the last is put.                                                    *)
LEMMA SameKept ==
  ASSUME CacheOK, NEW puts \in Seq(Cells), Change(puts), UNCHANGED root_entries,
         NEW e \in Entries, NEW dent, RootPuts(puts, e, dent), NEW x \in Entries,
         dent.name = mem[RootSector][e].name,
         dent.size \in Nat, dent.size >= mem[RootSector][e].size,
         Long(mem, e) > 0 => dent.cluster = First(mem, e),
         Long(mem', x) >= Long(mem, x),
         \A i \in 0 .. Long(mem, x) - 1 : Way(mem', x)[i] = Way(mem, x)[i],
         \A i \in 0 .. Long(mem, x) - 2 :
           \A p \in ToSet(puts) :
             LET c == Way(mem, x)[i] IN ~(p.sector = FatSector(1, c) /\ p.key = c)
  PROVE  FileKept(x)
<1> DEFINE old == mem[RootSector][x]
           long == Long(mem, x)
<1>1. old.size \in Nat /\ mem[RootSector][e].size \in Nat
  BY RootTyped
<1>2. /\ mem'[RootSector][e] = dent
      /\ \A z \in Entries \ {e} : mem'[RootSector][z] = mem[RootSector][z]
      /\ \A y \in may'[RootSector] \ may[RootSector] :
           /\ \A z \in Entries \ {e} : y[z] = mem[RootSector][z]
           /\ y[e] \in {dent, mem[RootSector][e]}
  BY RootAfter
<1>3. \A z \in {mem'[RootSector][x]} \union
               {y[x] : y \in may'[RootSector] \ may[RootSector]} :
        /\ z.name = old.name /\ z.size >= old.size
        /\ long > 0 => z.cluster = First(mem, x)
  <2>1. CASE x = e
    <3>1. \A z \in {dent, mem[RootSector][e]} :
            /\ z.name = old.name /\ z.size >= old.size
            /\ long > 0 => z.cluster = First(mem, x)
      BY <1>1, <2>1 DEF First
    <3> HIDE DEF old, long
    <3> QED
      BY <1>2, <2>1, <3>1
  <2>2. CASE x # e
    <3>1. mem'[RootSector][x] = old
          /\ \A y \in may'[RootSector] \ may[RootSector] : y[x] = old
      BY <1>2, <2>2
    <3> QED
      BY <1>1, <3>1 DEF First
  <2> QED
    BY <2>1, <2>2
<1>4. long \in Nat /\ long <= NumberCluster + 1 /\ NumberCluster \in Nat
  BY ChainLength, Numbers DEF Long
<1>5. ASSUME NEW i \in 0 .. long - 2
      PROVE  LET c == Way(mem, x)[i]
             IN /\ mem'[FatSector(1, c)][c] = mem[FatSector(1, c)][c]
                /\ \A y \in may'[FatSector(1, c)] \ may[FatSector(1, c)] :
                     y[c] = mem[FatSector(1, c)][c]
  <2> DEFINE c == Way(mem, x)[i]
  <2>1. i \in 0 .. NumberCluster /\ i < long
    BY <1>4
  <2>2. c \in Clusters
    BY <2>1, UsedIn DEF Valid
  <2>3. \A p \in ToSet(puts) : ~(p.sector = FatSector(1, c) /\ p.key = c)
    OBVIOUS
  <2> HIDE DEF c
  <2>4. 1 \in {1, 2}
    OBVIOUS
  <2>5. LET s == FatSector(1, c)
        IN mem'[s][c] = mem[s][c] /\ \A y \in may'[s] \ may[s] : y[c] = mem[s][c]
    BY <2>2, <2>3, <2>4, TableKept
  <2> QED
    BY <2>5 DEF c
<1>6. /\ mem'[RootSector][x].name = old.name /\ mem'[RootSector][x].size >= old.size
      /\ long > 0 => First(mem', x) = First(mem, x)
      /\ \A y \in may'[RootSector] \ may[RootSector] :
           /\ y[x].name = old.name /\ y[x].size >= old.size
           /\ long > 0 => y[x].cluster = First(mem, x)
  BY <1>3 DEF First
<1> QED
  BY <1>5, <1>6 DEF FileKept

(* The same for a file that the change is not of.                          *)
LEMMA OtherKept ==
  ASSUME CacheOK, NEW puts \in Seq(Cells), Change(puts), UNCHANGED root_entries,
         NEW e \in Entries, NEW dent, RootPuts(puts, e, dent), NEW x \in Entries \ {e},
         SameFile(mem, mem', x),
         \A c \in Used(mem, x) :
           \A p \in ToSet(puts) : ~(p.sector = FatSector(1, c) /\ p.key = c)
  PROVE  FileKept(x) /\ mem'[RootSector][x] = mem[RootSector][x]
<1> DEFINE long == Long(mem, x)
<1>1. /\ mem'[RootSector][x] = mem[RootSector][x]
      /\ \A y \in may'[RootSector] \ may[RootSector] : y[x] = mem[RootSector][x]
  BY RootAfter
<1>2. mem[RootSector][x].size \in Nat
  BY RootTyped
<1>3. long \in Nat /\ Long(mem', x) >= long
      /\ \A i \in 0 .. long - 1 : /\ Way(mem', x)[i] = Way(mem, x)[i]
                                  /\ Way(mem, x)[i] \in Used(mem, x)
  <2>1. long \in Nat /\ \A i \in 0 .. long - 1 : i \in 0 .. long
    BY UsedIn
  <2> QED
    BY <2>1, UsedIn DEF SameFile
<1>4. Used(mem, x) \subseteq Clusters
  BY UsedIn
<1>5. ASSUME NEW i \in 0 .. long - 2
      PROVE  LET c == Way(mem, x)[i]
             IN /\ mem'[FatSector(1, c)][c] = mem[FatSector(1, c)][c]
                /\ \A y \in may'[FatSector(1, c)] \ may[FatSector(1, c)] :
                     y[c] = mem[FatSector(1, c)][c]
  <2> DEFINE c == Way(mem, x)[i]
  <2>1. i \in 0 .. long - 1
    BY <1>3
  <2>2. c \in Used(mem, x) /\ c \in Clusters
    BY <1>3, <1>4, <2>1
  <2>3. \A p \in ToSet(puts) : ~(p.sector = FatSector(1, c) /\ p.key = c)
    BY <2>2
  <2> HIDE DEF c
  <2>4. 1 \in {1, 2}
    OBVIOUS
  <2>5. LET s == FatSector(1, c)
        IN mem'[s][c] = mem[s][c] /\ \A y \in may'[s] \ may[s] : y[c] = mem[s][c]
    BY <2>2, <2>3, <2>4, TableKept
  <2> QED
    BY <2>5 DEF c
<1> HIDE DEF long
<1> QED
  BY <1>1, <1>2, <1>3, <1>5 DEF FileKept, First, long

(* The entry that is changed is in use afterwards, and the directory has   *)
(* no gap.                                                                 *)
LEMMA RootUses ==
  ASSUME CacheOK, NEW puts \in Seq(Cells), Change(puts), UNCHANGED root_entries,
         Sound(Entries, mem), root_entries \in Nat,
         NEW e \in Entries, NEW dent, RootPuts(puts, e, dent),
         dent.name # NoName, 0 .. e - 1 \subseteq InUse(Entries, mem)
  PROVE  /\ InUse(Entries, mem') = InUse(Entries, mem) \union {e}
         /\ Dense(Entries, mem') /\ First(mem', e) = dent.cluster
         /\ \A x \in Entries \ {e} : First(mem', x) = First(mem, x)
<1>1. /\ mem'[RootSector][e] = dent
      /\ \A x \in Entries \ {e} : mem'[RootSector][x] = mem[RootSector][x]
  BY RootAfter
<1>2. InUse(Entries, mem') = InUse(Entries, mem) \union {e}
  BY <1>1 DEF InUse
<1>3. \A x \in InUse(Entries, mem) : 0 .. x \subseteq InUse(Entries, mem)
  BY DEF Sound, Dense
<1>4. \A i \in 0 .. e : i = e \/ i \in 0 .. e - 1
  BY DEF Entries
<1>5. 0 .. e \subseteq InUse(Entries, mem) \union {e}
  BY <1>4
<1>6. Dense(Entries, mem')
  <2> SUFFICES ASSUME NEW x \in InUse(Entries, mem')
               PROVE  0 .. x \subseteq InUse(Entries, mem')
    BY DEF Dense
  <2> QED
    BY <1>2, <1>3, <1>5
<1> QED
  BY <1>1, <1>2, <1>6 DEF First

(* A change of an entry of the directory that is not of the table.         *)
LEMMA OnlyRoot ==
  ASSUME CacheOK, NEW puts \in Seq(Cells), Change(puts), UNCHANGED root_entries,
         Sound(Entries, mem), root_entries \in Nat,
         NEW e \in Entries, NEW dent, RootPuts(puts, e, dent),
         dent.name # NoName, 0 .. e - 1 \subseteq InUse(Entries, mem),
         e \in InUse(Entries, mem) => dent.cluster = First(mem, e),
         e \notin InUse(Entries, mem) => dent.cluster = 0,
         \A p \in ToSet(puts) : p = Cell(RootSector, e, dent) \/ OfData(p)
  PROVE  /\ OnlyFile(e)
         /\ e \in InUse(Entries, mem) => SameFile(mem, mem', e)
         /\ e \notin InUse(Entries, mem) => Long(mem', e) = 0
<1> DEFINE E == Entries
<1>1. /\ InUse(E, mem') = InUse(E, mem) \union {e}
      /\ Dense(E, mem') /\ First(mem', e) = dent.cluster
      /\ \A x \in E \ {e} : First(mem', x) = First(mem, x)
  BY RootUses
<1>2. ASSUME NEW fat \in {1, 2}, NEW c \in Clusters
      PROVE  \A p \in ToSet(puts) : ~(p.sector = FatSector(fat, c) /\ p.key = c)
  BY CellsApart
<1>3. \A fat \in {1, 2}, c \in Clusters :
        mem'[FatSector(fat, c)][c] = mem[FatSector(fat, c)][c]
  BY <1>2, TableKept
<1>4. TwoTables(mem')
  BY <1>3 DEF Sound, TwoTables
<1>5. \A x \in InUse(E, mem) : First(mem', x) = First(mem, x)
  BY <1>1 DEF InUse
<1>6. Apart(E, mem) /\ InUse(E, mem) \subseteq E
  BY DEF Sound, InUse
<1>7. e \notin InUse(E, mem) => First(mem', e) = 0
  BY <1>1
<1>8. \A c \in Clusters : mem'[FatSector(1, c)][c] = mem[FatSector(1, c)][c]
  BY <1>3
<1>9. /\ Apart(E, mem') /\ \A x \in InUse(E, mem) : SameFile(mem, mem', x)
      /\ e \notin InUse(E, mem) => Long(mem', e) = 0
  <2> HIDE DEF E
  <2>1. e \in E
    BY DEF E
  <2> QED
    BY <1>1, <1>5, <1>6, <1>7, <1>8, <2>1, ApartSame
<1>10. ASSUME NEW x \in InUse(E, mem) \ {e}
       PROVE  FileKept(x) /\ mem'[RootSector][x] = mem[RootSector][x]
  <2>1. \A c \in Used(mem, x) : c \in Clusters
    BY UsedIn
  <2>2. \A c \in Used(mem, x) :
          \A p \in ToSet(puts) : ~(p.sector = FatSector(1, c) /\ p.key = c)
    BY <1>2, <2>1
  <2>3. x \in E \ {e} /\ SameFile(mem, mem', x)
    BY <1>6, <1>9
  <2> QED
    BY <2>2, <2>3, OtherKept
<1> QED
  BY <1>1, <1>4, <1>9, <1>10 DEF OnlyFile

(* A file that gets a cluster that was free.                               *)
LEMMA OnlyLonger ==
  ASSUME CacheOK, NEW puts \in Seq(Cells), Change(puts), UNCHANGED root_entries,
         Sound(Entries, mem), root_entries \in Nat,
         NEW e \in InUse(Entries, mem), NEW dent, NEW some, NEW got \in FreeClusters,
         Cell(RootSector, e, dent) \in ToSet(puts), ToSet(some) \subseteq ToSet(puts),
         \A p \in ToSet(puts) :
           p = Cell(RootSector, e, dent) \/ p \in ToSet(some) \/ OfData(p),
         \A p \in ToSet(some) : InTables(p),
         dent.name = mem[RootSector][e].name,
         dent.size \in Nat, dent.size >= mem[RootSector][e].size,
         dent.cluster = IF Long(mem, e) = 0 THEN got ELSE First(mem, e),
         GetsCluster(some, First(mem, e), Long(mem, e), got)
  PROVE  OnlyFile(e) /\ FileKept(e) /\ Long(mem', e) = Long(mem, e) + 1
<1> DEFINE E == Entries
           long == Long(mem, e)
           last == Way(mem, e)[long - 1]
<1>1. /\ e \in Entries /\ dent.name # NoName /\ RootPuts(puts, e, dent)
      /\ 0 .. e - 1 \subseteq InUse(Entries, mem)
  <2>1. e \in Entries /\ dent.name # NoName
    BY DEF InUse
  <2>2. 0 .. e \subseteq InUse(Entries, mem)
    BY DEF Sound, Dense
  <2>3. \A i \in 0 .. e - 1 : i \in 0 .. e
    BY <2>1 DEF Entries
  <2> QED
    BY <2>1, <2>2, <2>3 DEF RootPuts
<1>2. /\ InUse(E, mem') = InUse(E, mem) \union {e}
      /\ Dense(E, mem') /\ First(mem', e) = dent.cluster
      /\ \A x \in E \ {e} : First(mem', x) = First(mem, x)
  BY <1>1, RootUses
<1>3. /\ long \in Nat /\ long <= NumberCluster /\ Apart(E, mem) /\ NumberCluster \in Nat
      /\ \A i \in 0 .. long - 1 : Way(mem, e)[i] \in Used(mem, e)
      /\ Used(mem, e) \subseteq Clusters
  BY UsedIn, Numbers DEF Sound, Apart, Ends
<1>4. got \in Clusters /\ mem[FatSector(1, got)][got] = 0
  BY DEF FreeClusters, Entry, Valid
<1>5. \A x \in InUse(E, mem) : got \notin Used(mem, x)
  BY <1>3, <1>4 DEF Apart
<1>6. long # 0 => last \in Used(mem, e) /\ last \in Clusters /\ last # got
  <2>1. long # 0 => long - 1 \in 0 .. long - 1
    BY <1>3
  <2> QED
    BY <1>3, <1>5, <2>1
<1> DEFINE New(c) == IF c = got THEN LastCluster
                     ELSE IF long # 0 /\ c = last THEN got
                     ELSE mem[FatSector(1, c)][c]
<1>7. \A p : p \in ToSet(some) <=> \/ long # 0 /\ p \in TableCells(last, got)
                                   \/ p \in TableCells(got, LastCluster)
  BY DEF GetsCluster, Way
<1> HIDE DEF long, last
<1>8. ASSUME NEW fat \in {1, 2}, NEW c \in Clusters, NEW p \in ToSet(puts),
             p.sector = FatSector(fat, c), p.key = c
      PROVE  \/ c = got /\ p.value = LastCluster
             \/ long # 0 /\ c = last /\ p.value = got
  <2>1. p \in ToSet(some)
    BY <1>8, CellsApart
  <2> QED
    BY <1>7, <1>8, <2>1, CellsApart
<1>9. ASSUME NEW fat \in {1, 2}, NEW c \in Clusters
      PROVE  mem'[FatSector(fat, c)][c] = New(c)
  <2>1. CASE c = got
    <3>1. Cell(FatSector(fat, c), c, LastCluster) \in ToSet(puts)
      BY <1>7, <2>1, CellsApart
    <3>2. \A p \in ToSet(puts) :
            p.sector = FatSector(fat, c) /\ p.key = c => p.value = LastCluster
      BY <1>6, <1>8, <2>1
    <3> QED
      BY <2>1, <3>1, <3>2, TablePut
  <2>2. CASE long # 0 /\ c = last
    <3>1. Cell(FatSector(fat, c), c, got) \in ToSet(puts)
      BY <1>7, <2>2, CellsApart
    <3>2. \A p \in ToSet(puts) :
            p.sector = FatSector(fat, c) /\ p.key = c => p.value = got
      BY <1>6, <1>8, <2>2
    <3> QED
      BY <1>6, <2>2, <3>1, <3>2, TablePut
  <2>3. CASE c # got /\ ~(long # 0 /\ c = last)
    <3>1. \A p \in ToSet(puts) : ~(p.sector = FatSector(fat, c) /\ p.key = c)
      BY <1>8, <2>3
    <3>2. mem'[FatSector(fat, c)][c] = mem[FatSector(fat, c)][c]
      BY <3>1, TableKept
    <3>3. mem[FatSector(fat, c)][c] = mem[FatSector(1, c)][c]
      BY DEF Sound, TwoTables
    <3> QED
      BY <2>3, <3>2, <3>3
  <2> QED
    BY <2>1, <2>2, <2>3
<1>10. \A c \in Clusters : mem'[FatSector(1, c)][c] = New(c)
  BY <1>9
<1>11. TwoTables(mem')
  BY <1>9 DEF TwoTables
<1>12. /\ Apart(E, mem') /\ \A x \in InUse(E, mem) \ {e} : SameFile(mem, mem', x)
       /\ Long(mem', e) = Long(mem, e) + 1
       /\ \A i \in 0 .. Long(mem, e) - 1 : Way(mem', e)[i] = Way(mem, e)[i]
  <2>1. InUse(E, mem') = InUse(E, mem) /\ \A x \in InUse(E, mem) \ {e} : x \in E \ {e}
    BY <1>2 DEF InUse
  <2>2. \A x \in InUse(E, mem) \ {e} : First(mem', x) = First(mem, x)
    BY <1>2, <2>1
  <2>3. First(mem', e) = IF Long(mem, e) = 0 THEN got ELSE First(mem, e)
    BY <1>2
  <2>4. \A c \in Clusters : mem'[FatSector(1, c)][c] =
           IF c = got THEN LastCluster
           ELSE IF Long(mem, e) # 0 /\ c = Way(mem, e)[Long(mem, e) - 1] THEN got
           ELSE mem[FatSector(1, c)][c]
    BY <1>10 DEF long, last
  <2>5. e \in InUse(E, mem)
    OBVIOUS
  <2> HIDE DEF E
  <2> QED
    BY <1>3, <1>4, <2>1, <2>2, <2>3, <2>4, <2>5, ApartLonger
<1>13. ASSUME NEW x \in InUse(E, mem) \ {e}
       PROVE  FileKept(x) /\ mem'[RootSector][x] = mem[RootSector][x]
  <2>1. x \in Entries \ {e} /\ SameFile(mem, mem', x)
    BY <1>12 DEF InUse
  <2>2. \A c \in Used(mem, x) : c \in Clusters /\ c # got /\ ~(long # 0 /\ c = last)
    BY <1>3, <1>5, <1>6, UsedIn DEF Apart
  <2>3. \A c \in Used(mem, x) :
          \A p \in ToSet(puts) : ~(p.sector = FatSector(1, c) /\ p.key = c)
    BY <1>8, <2>2
  <2> QED
    BY <1>1, <2>1, <2>3, OtherKept
<1>14. FileKept(e)
  <2>1. Long(mem, e) \in Nat /\ Long(mem', e) >= Long(mem, e)
    BY <1>3, <1>12 DEF long
  <2>2. Long(mem, e) > 0 => dent.cluster = First(mem, e)
    BY <2>1
  <2>3. ASSUME NEW i \in 0 .. Long(mem, e) - 2, NEW p \in ToSet(puts)
        PROVE  LET c == Way(mem, e)[i] IN ~(p.sector = FatSector(1, c) /\ p.key = c)
    <3> DEFINE c == Way(mem, e)[i]
    <3>1. i \in 0 .. long - 1 /\ long - 1 \in 0 .. long - 1 /\ i # long - 1
      BY <1>3 DEF long
    <3>2. c \in Used(mem, e) /\ c \in Clusters /\ c # got
      BY <1>3, <1>5, <3>1
    <3>3. c # last
      BY <1>3, <3>1, OnceOnly DEF last, long, Way, Long
    <3> HIDE DEF c
    <3>4. ~(p.sector = FatSector(1, c) /\ p.key = c)
      BY <1>8, <3>2, <3>3
    <3> QED
      BY <3>4 DEF c
  <2> QED
    BY <1>1, <1>12, <2>1, <2>2, <2>3, SameKept
<1> QED
  BY <1>2, <1>11, <1>12, <1>13, <1>14 DEF OnlyFile

(* A file that is made empty.                                              *)
LEMMA OnlyEmptied ==
  ASSUME CacheOK, NEW puts \in Seq(Cells), Change(puts), UNCHANGED root_entries,
         Sound(Entries, mem), root_entries \in Nat,
         NEW e \in InUse(Entries, mem), NEW dent, NEW some,
         Cell(RootSector, e, dent) \in ToSet(puts), ToSet(some) \subseteq ToSet(puts),
         \A p \in ToSet(puts) :
           p = Cell(RootSector, e, dent) \/ p \in ToSet(some) \/ OfData(p),
         \A p \in ToSet(some) : InTables(p),
         dent.name # NoName, dent.cluster = 0,
         LosesClusters(some, First(mem, e), Long(mem, e))
  PROVE  OnlyFile(e) /\ Long(mem', e) = 0
<1> DEFINE E == Entries
<1>1. e \in Entries /\ RootPuts(puts, e, dent) /\ 0 .. e - 1 \subseteq InUse(Entries, mem)
  <2>1. e \in Entries
    BY DEF InUse
  <2>2. 0 .. e \subseteq InUse(Entries, mem)
    BY DEF Sound, Dense
  <2>3. \A i \in 0 .. e - 1 : i \in 0 .. e
    BY <2>1 DEF Entries
  <2> QED
    BY <2>1, <2>2, <2>3 DEF RootPuts
<1>2. /\ InUse(E, mem') = InUse(E, mem) \union {e}
      /\ Dense(E, mem') /\ First(mem', e) = dent.cluster
      /\ \A x \in E \ {e} : First(mem', x) = First(mem, x)
  BY <1>1, RootUses
<1>3. Apart(E, mem) /\ Used(mem, e) \subseteq Clusters
  BY UsedIn DEF Sound
<1>4. \A p : p \in ToSet(some) <=> \E c \in Used(mem, e) : p \in TableCells(c, 0)
  BY DEF LosesClusters, Used, Reach, Long
<1>5. ASSUME NEW fat \in {1, 2}, NEW c \in Clusters, NEW p \in ToSet(puts),
             p.sector = FatSector(fat, c), p.key = c
      PROVE  c \in Used(mem, e) /\ p.value = 0
  <2>1. p \in ToSet(some)
    BY <1>5, CellsApart
  <2> QED
    BY <1>4, <1>5, <2>1, CellsApart
<1>6. ASSUME NEW fat \in {1, 2}, NEW c \in Clusters
      PROVE  mem'[FatSector(fat, c)][c] =
               IF c \in Used(mem, e) THEN 0 ELSE mem[FatSector(1, c)][c]
  <2>1. CASE c \in Used(mem, e)
    <3>1. Cell(FatSector(fat, c), c, 0) \in ToSet(puts)
      BY <1>4, <2>1, CellsApart
    <3>2. \A p \in ToSet(puts) : p.sector = FatSector(fat, c) /\ p.key = c => p.value = 0
      BY <1>5
    <3> QED
      BY <2>1, <3>1, <3>2, TablePut
  <2>2. CASE c \notin Used(mem, e)
    <3>1. \A p \in ToSet(puts) : ~(p.sector = FatSector(fat, c) /\ p.key = c)
      BY <1>5, <2>2
    <3>2. mem'[FatSector(fat, c)][c] = mem[FatSector(fat, c)][c]
      BY <3>1, TableKept
    <3>3. mem[FatSector(fat, c)][c] = mem[FatSector(1, c)][c]
      BY DEF Sound, TwoTables
    <3> QED
      BY <2>2, <3>2, <3>3
  <2> QED
    BY <2>1, <2>2
<1>7. \A c \in Clusters : mem'[FatSector(1, c)][c] =
        IF c \in Used(mem, e) THEN 0 ELSE mem[FatSector(1, c)][c]
  BY <1>6
<1>8. TwoTables(mem')
  BY <1>6 DEF TwoTables
<1>9. /\ Apart(E, mem') /\ \A x \in InUse(E, mem) \ {e} : SameFile(mem, mem', x)
      /\ Long(mem', e) = 0
  <2>1. InUse(E, mem') = InUse(E, mem) /\ \A x \in InUse(E, mem) \ {e} : x \in E \ {e}
    BY <1>2 DEF InUse
  <2>2. \A x \in InUse(E, mem) \ {e} : First(mem', x) = First(mem, x)
    BY <1>2, <2>1
  <2>3. First(mem', e) = 0 /\ e \in InUse(E, mem)
    BY <1>2
  <2> HIDE DEF E
  <2> QED
    BY <1>3, <1>7, <2>1, <2>2, <2>3, ApartEmptied
<1>10. ASSUME NEW x \in InUse(E, mem) \ {e}
       PROVE  FileKept(x) /\ mem'[RootSector][x] = mem[RootSector][x]
  <2>1. x \in Entries \ {e} /\ SameFile(mem, mem', x)
    BY <1>9 DEF InUse
  <2>2. \A c \in Used(mem, x) : c \in Clusters /\ c \notin Used(mem, e)
    BY <1>3, UsedIn DEF Apart
  <2>3. \A c \in Used(mem, x) :
          \A p \in ToSet(puts) : ~(p.sector = FatSector(1, c) /\ p.key = c)
    BY <1>5, <2>2
  <2> QED
    BY <1>1, <2>1, <2>3, OtherKept
<1> QED
  BY <1>2, <1>8, <1>9, <1>10 DEF OnlyFile

-----------------------------------------------------------------------------
(* What an open file keeps is true of its entry in the directory, and no   *)
(* entry has two ao_file_dirent.                                           *)
OpenTrue(store, n, f, d) ==
  /\ d.entry \in Entries /\ store[RootSector][d.entry] = Dent(n, d.size, d.cluster)
  /\ InChain(store, f, d)

OpenFiles(store, files, dirents, names) ==
  \A v \in Users : files[v].busy =>
    names[v] \in Names /\ OpenTrue(store, names[v], files[v], dirents[files[v].dirent])

OneEach(dirents) ==
  \A c, d \in Dirents :
    c # d /\ dirents[d].entry \in Entries => dirents[c].entry # dirents[d].entry

(* The fields of an entry of the directory.                                *)
LEMMA DentIs ==
  ASSUME NEW n, NEW size, NEW cluster
  PROVE  LET dent == Dent(n, size, cluster)
         IN dent.name = n /\ dent.size = size /\ dent.cluster = cluster
BY DEF Dent

IsOpen(n, f, d) ==
  /\ d.entry \in InUse(Entries, mem) /\ First(mem, d.entry) = d.cluster
  /\ mem[RootSector][d.entry] = Dent(n, d.size, d.cluster)
  /\ mem[RootSector][d.entry].name = n /\ mem[RootSector][d.entry].size = d.size
  /\ InChain(mem, f, d) /\ n \in Names

(* An open file has an entry of its name.                                  *)
LEMMA OpenInUse ==
  ASSUME NEW files, NEW dirents, NEW names, OpenFiles(mem, files, dirents, names),
         NEW v \in Users, files[v].busy
  PROVE  IsOpen(names[v], files[v], dirents[files[v].dirent])
<1>1. names[v] # NoName
  BY FatAssumption DEF OpenFiles
<1> QED
  BY <1>1, DentIs DEF OpenFiles, OpenTrue, InUse, First, IsOpen

(* The cluster an open file keeps is still one of its chain when the file  *)
(* is kept.                                                                *)
LEMMA PlaceKept ==
  ASSUME NEW x \in Entries, FileKept(x), NEW f \in AoFile, NEW d, NEW after,
         InChain(mem, f, d), d.cluster = First(mem, x), after.cluster = First(mem', x)
  PROVE  InChain(mem', f, after)
<1> SUFFICES ASSUME f.cluster # 0
             PROVE  Passed(f) \in 0 .. NumberCluster
                    /\ f.cluster = Way(mem', x)[Passed(f)]
  BY DEF InChain, Way
<1>1. Passed(f) \in 0 .. NumberCluster /\ f.cluster = Way(mem, x)[Passed(f)]
  BY DEF InChain, Way
<1>2. f.cluster \in Clusters
  BY DEF AoFile, Starts
<1>3. Passed(f) < Long(mem, x) /\ Long(mem, x) \in Nat
  BY <1>1, <1>2, UsedIn DEF Valid
<1>4. Passed(f) \in 0 .. Long(mem, x) - 1
  BY <1>1, <1>3, Numbers
<1>5. Way(mem', x)[Passed(f)] = Way(mem, x)[Passed(f)]
  BY <1>4 DEF FileKept
<1> QED
  BY <1>1, <1>5

RootHas(e, n, size, first) == mem'[RootSector][e] = Dent(n, size, first)

PlacesAfter(files, after, d, e) ==
  /\ \A v \in Users : after[v].busy = files[v].busy
                      /\ after[v].dirent = files[v].dirent
  /\ \A v \in Users :
       IF files[v].busy /\ files[v].dirent = d
       THEN after[v].cluster = 0 \/ (after[v] = files[v] /\ FileKept(e))
       ELSE after[v] = files[v]

(* Every open file is true after the file of one of them has been resized, *)
(* if each of those that share its ao_file_dirent forgets its place or the *)
(* chain is kept.                                                          *)
LEMMA OpenAfter ==
  ASSUME NEW files \in [Users -> AoFile], NEW dirents \in [Dirents -> AoDirent],
         NEW names, OpenFiles(mem, files, dirents, names), OneEach(dirents),
         NEW u \in Users, files[u].busy,
         NEW after \in [Users -> AoFile], NEW opened,
         NEW size, NEW first, OnlyFile(dirents[files[u].dirent].entry),
         RootHas(dirents[files[u].dirent].entry, names[u], size, first),
         opened[files[u].dirent].entry = dirents[files[u].dirent].entry,
         opened[files[u].dirent].size = size, opened[files[u].dirent].cluster = first,
         \A c \in Dirents \ {files[u].dirent} : opened[c] = dirents[c],
         PlacesAfter(files, after, files[u].dirent, dirents[files[u].dirent].entry)
  PROVE  OpenFiles(mem', after, opened, names) /\ OneEach(opened)
<1> DEFINE dn == files[u].dirent
           e == dirents[dn].entry
<1>1. dn \in Dirents /\ e \in InUse(Entries, mem) /\ First(mem, e) = dirents[dn].cluster
      /\ mem[RootSector][e].name = names[u] /\ e \in Entries
  <2>1. dn \in Dirents
    BY DEF AoFile
  <2>2. /\ e \in InUse(Entries, mem) /\ First(mem, e) = dirents[dn].cluster
        /\ mem[RootSector][e].name = names[u]
    <3>1. IsOpen(names[u], files[u], dirents[dn])
      BY OpenInUse
    <3> QED
      BY ONLY <3>1 DEF IsOpen
  <2>3. e \in Entries
    BY <2>2 DEF InUse
  <2> QED
    BY <2>1, <2>2, <2>3
<1>2. /\ opened[dn].entry = e /\ opened[dn].size = size /\ opened[dn].cluster = first
      /\ First(mem', e) = first
  BY DentIs DEF First, RootHas
<1>3. OneEach(opened)
  <2>1. \A c \in Dirents : opened[c].entry = dirents[c].entry
    BY <1>2
  <2> QED
    BY <2>1 DEF OneEach
<1>4. ASSUME NEW v \in Users, after[v].busy
      PROVE  names[v] \in Names
             /\ OpenTrue(mem', names[v], after[v], opened[after[v].dirent])
  <2> DEFINE c == files[v].dirent
             x == dirents[c].entry
  <2>1. files[v].busy /\ after[v].dirent = c /\ c \in Dirents
    BY <1>4 DEF AoFile, PlacesAfter
  <2>2. /\ x \in InUse(Entries, mem) /\ First(mem, x) = dirents[c].cluster
        /\ mem[RootSector][x] = Dent(names[v], dirents[c].size, dirents[c].cluster)
        /\ mem[RootSector][x].name = names[v] /\ x \in Entries
        /\ InChain(mem, files[v], dirents[c]) /\ names[v] \in Names
    <3>1. /\ x \in InUse(Entries, mem) /\ First(mem, x) = dirents[c].cluster
          /\ mem[RootSector][x] = Dent(names[v], dirents[c].size, dirents[c].cluster)
          /\ mem[RootSector][x].name = names[v]
          /\ InChain(mem, files[v], dirents[c]) /\ names[v] \in Names
      <4>1. IsOpen(names[v], files[v], dirents[c])
        BY <2>1, OpenInUse
      <4> QED
        BY <4>1 DEF IsOpen
    <3>2. x \in Entries
      BY <3>1 DEF InUse
    <3> QED
      BY <3>1, <3>2
  <2>3. CASE c = dn
    <3>1. names[v] = names[u] /\ x = e
      BY <1>1, <2>2, <2>3
    <3>2. mem'[RootSector][e] = Dent(names[v], opened[dn].size, opened[dn].cluster)
      BY <1>2, <3>1 DEF RootHas
    <3>3. InChain(mem', after[v], opened[dn])
      <4>1. CASE after[v].cluster = 0
        BY <4>1 DEF InChain
      <4>2. CASE after[v] = files[v] /\ FileKept(e)
        <5>1. e \in Entries /\ files[v] \in AoFile /\ dirents[dn].cluster = First(mem, e)
              /\ opened[dn].cluster = First(mem', e) /\ InChain(mem, files[v], dirents[dn])
          BY <1>1, <1>2, <2>2, <2>3
        <5>2. InChain(mem', files[v], opened[dn])
          BY ONLY <4>2, <5>1, PlaceKept
        <5> QED
          BY <4>2, <5>2
      <4> QED
        BY <2>1, <2>3, <4>1, <4>2 DEF PlacesAfter
    <3> QED
      BY <1>1, <1>2, <2>1, <2>2, <2>3, <3>2, <3>3 DEF OpenTrue
  <2>4. CASE c # dn
    <3>1. after[v] = files[v] /\ opened[c] = dirents[c]
      BY <2>1, <2>4 DEF PlacesAfter
    <3>2. x # e
      BY <1>1, <2>1, <2>2, <2>4 DEF OneEach
    <3>3. FileKept(x) /\ mem'[RootSector][x] = mem[RootSector][x]
      BY <2>2, <3>2 DEF OnlyFile
    <3>4. First(mem', x) = opened[c].cluster
      BY <2>2, <3>1, <3>3 DEF First
    <3>5. InChain(mem', files[v], opened[c])
      BY <2>2, <3>3, <3>4, PlaceKept
    <3> QED
      BY <2>1, <2>2, <3>1, <3>3, <3>5 DEF OpenTrue
  <2> QED
    BY <2>3, <2>4
<1> QED
  BY <1>3, <1>4 DEF OpenFiles

-----------------------------------------------------------------------------
(* A file made longer or empty, in the table and in the directory.         *)
Resized(r, t, files, dirents, dn, size, first) ==
  LET d == dirents[dn]
      dent == Dent(mem[RootSector][d.entry].name, size, first)
  IN /\ r.ok = t.ok /\ r.short = t.short /\ TableResult(t)
     /\ IF size = d.size \/ ~t.ok
        THEN ToSet(r.puts) = {} /\ r.files = files /\ r.dirents = dirents
        ELSE /\ \A p : p \in ToSet(r.puts) <=>
                  p \in ToSet(t.puts) \/ p = Cell(RootSector, d.entry, dent)
             /\ r.files = IF ClustersFor(d.size) > ClustersFor(size)
                          THEN ForgetPlaces(files, dn, size, first) ELSE files
             /\ r.dirents[dn].entry = d.entry /\ r.dirents[dn].size = size
             /\ r.dirents[dn].cluster = first
             /\ \A c \in Dirents \ {dn} : r.dirents[c] = dirents[c]

(* What Resize returns, in the cases of its conditions.                    *)
LEMMA ResizeIs ==
  ASSUME CacheOK, FilesOK, NEW files \in [Users -> AoFile],
         NEW dirents \in [Dirents -> AoDirent], NEW u \in Users, NEW size \in Nat,
         dirents[files[u].dirent].entry \in Entries
  PROVE  LET f == files[u]
             d == dirents[f.dirent]
             t == InTable(f, d, size)
             first == IF FromHere(f, size) THEN d.cluster ELSE t.first
             r == Resize(files, dirents, u, size)
         IN Resized(r, t, files, dirents, f.dirent, size, first)
<1> DEFINE f == files[u]
           d == dirents[f.dirent]
           t == InTable(f, d, size)
           first == IF FromHere(f, size) THEN d.cluster ELSE t.first
           dent == Dent(mem[RootSector][d.entry].name, size, first)
           put == Put(RootSector, d.entry, dent)
           r == Resize(files, dirents, u, size)
<1>1. f \in AoFile /\ f.dirent \in Dirents
  BY DEF AoFile
<1>2. d \in AoDirent /\ d.entry \in Entries
  BY <1>1
<1>3. TableResult(t)
  BY <1>1, <1>2, InTableOK
<1>4. t.ok => first \in Starts
  BY <1>2, <1>3 DEF TableResult, AoDirent
<1>5. t.ok => put \in Seq(Cells) /\ ToSet(put) = {Cell(RootSector, d.entry, dent)}
  <2>1. t.ok => dent \in Holds(RootSector) /\ d.entry \in Keys(RootSector)
    BY <1>2, <1>4, RootCell, RootTyped DEF Dent
  <2> QED
    BY <2>1, RootCell, PutIs
<1>6. r = InDirectory(files, dirents, f, d, size, t)
  BY DEF Resize
<1> HIDE DEF t
<1>7. CASE size = d.size \/ ~t.ok
  <2>1. r = Sized(t, <<>>, files, dirents)
    BY <1>6, <1>7 DEF InDirectory
  <2>2. /\ r.puts = <<>> /\ r.files = files /\ r.dirents = dirents
        /\ r.ok = t.ok /\ r.short = t.short
    BY <2>1 DEF Sized
  <2> HIDE DEF r
  <2> QED
    BY <1>3, <1>7, <2>2, NoPut DEF r, t, Resized
<1>8. CASE ~(size = d.size \/ ~t.ok)
  <2> DEFINE nfiles == IF ClustersFor(d.size) > ClustersFor(size)
                       THEN ForgetPlaces(files, f.dirent, size, first) ELSE files
             ndirents == [dirents EXCEPT ![f.dirent].size = size,
                                         ![f.dirent].cluster = first]
  <2>1. r = Sized(t, t.puts \o put, nfiles, ndirents)
    BY <1>6, <1>8 DEF InDirectory
  <2>2. /\ ndirents[f.dirent].entry = d.entry /\ ndirents[f.dirent].size = size
        /\ ndirents[f.dirent].cluster = first
        /\ \A c \in Dirents \ {f.dirent} : ndirents[c] = dirents[c]
    <3> HIDE DEF first, f
    <3> QED
      BY <1>1, <1>4, <1>8 DEF AoDirent
  <2> HIDE DEF nfiles, ndirents, put, dent, first
  <2>3. /\ r.puts = t.puts \o put /\ r.files = nfiles /\ r.dirents = ndirents
        /\ r.ok = t.ok /\ r.short = t.short
    BY <2>1 DEF Sized
  <2> HIDE DEF r
  <2>4. \A x : x \in ToSet(t.puts \o put) <=> x \in ToSet(t.puts) \/ x \in ToSet(put)
    BY <1>3, <1>5, <1>8, ConcatSet DEF TableResult
  <2>5. \A p : p \in ToSet(r.puts) <=>
                 p \in ToSet(t.puts) \/ p = Cell(RootSector, d.entry, dent)
    BY <1>5, <1>8, <2>3, <2>4
  <2> QED
    BY <1>3, <1>8, <2>2, <2>3, <2>5 DEF r, t, first, dent, nfiles, Resized
<1> QED
  BY <1>7, <1>8

(* Chains are as long as the sizes ask when that of the changed file is.   *)
LEMMA SizesAfter ==
  ASSUME NEW e \in Entries, OnlyFile(e), SizesTrue(Entries, mem),
         Long(mem', e) = ClustersFor(mem'[RootSector][e].size)
  PROVE  SizesTrue(Entries, mem')
<1>1. \A x \in InUse(Entries, mem) \ {e} :
        Long(mem', x) = ClustersFor(mem'[RootSector][x].size)
  BY DEF OnlyFile, SameFile, SizesTrue
<1> QED
  BY <1>1 DEF OnlyFile, SizesTrue

(* The clusters of a file and the free ones are not more than there are.   *)
LEMMA RoomLeft ==
  ASSUME Apart(Entries, mem), NEW e \in InUse(Entries, mem)
  PROVE  Long(mem, e) + Cardinality(FreeClusters) <= NumberCluster
<1>1. Long(mem, e) \in Nat /\ Long(mem, e) <= NumberCluster /\ NumberCluster \in Nat
  BY UsedIn, Numbers DEF Apart, Ends
<1>2. Used(mem, e) \cap FreeClusters = {}
  BY DEF Apart, FreeClusters, Entry, Valid
<1>3. /\ IsFiniteSet(Used(mem, e)) /\ Used(mem, e) \subseteq Clusters
      /\ Cardinality(Used(mem, e)) = Long(mem, e)
  BY <1>1, ReachIn, CountReach DEF Used, Long
<1>4. IsFiniteSet(Clusters) /\ Cardinality(Clusters) = NumberCluster - 2
  <2>1. 2 \in Int /\ NumberCluster - 1 \in Int /\ ~(2 > NumberCluster - 1)
        /\ (NumberCluster - 1) - 2 + 1 = NumberCluster - 2
    BY Numbers
  <2> QED
    BY <2>1, FS_Interval DEF Clusters
<1>5. IsFiniteSet(FreeClusters) /\ Cardinality(FreeClusters) \in Nat
      /\ FreeClusters \subseteq Clusters
  BY FreeIs
<1>6. Cardinality(Used(mem, e) \union FreeClusters)
        = Cardinality(Used(mem, e)) + Cardinality(FreeClusters)
          - Cardinality(Used(mem, e) \cap FreeClusters)
  BY <1>3, <1>5, FS_Union
<1>7. Cardinality(Used(mem, e) \cap FreeClusters) = 0
  BY <1>2, FS_EmptySet
<1>8. Cardinality(Used(mem, e) \union FreeClusters) <= Cardinality(Clusters)
  <2>1. Used(mem, e) \union FreeClusters \in SUBSET Clusters
    BY <1>3, <1>5
  <2> QED
    BY <1>4, <2>1, FS_Subset
<1> QED
  BY <1>1, <1>3, <1>4, <1>5, <1>6, <1>7, <1>8

(* A file that has a size has a cluster.                                   *)
LEMMA SizeNone == ASSUME NEW n \in Nat PROVE n > 0 => ClustersFor(n) > 0
<1>1. n > 0 => n - 1 \in Nat /\ (n - 1) + 1 = n
  OBVIOUS
<1>2. n > 0 => ClustersFor(n) = ((n - 1) \div PerCluster) + 1
                /\ (n - 1) \div PerCluster \in Nat
  BY <1>1, ClustersForIs, Numbers, DivIs
<1> QED
  BY <1>2

(* What a file of the new size leaves of the file system.                  *)
Fits(r, e, d, size) ==
  /\ OnlyFile(e)
  /\ size # 0 \/ d.size = 0 => FileKept(e)
  /\ r.short \/ SizesTrue(Entries, mem')
  /\ r.ok => /\ ClustersFor(size) <= NumberCluster
             /\ IF r.short THEN Long(mem', e) < ClustersFor(size)
                ELSE Long(mem', e) = ClustersFor(size)

ResizeBefore(files, dirents, names, u, size) ==
  /\ CacheOK /\ FilesOK /\ Sound(Entries, mem) /\ UNCHANGED root_entries
  /\ files \in [Users -> AoFile] /\ dirents \in [Dirents -> AoDirent]
  /\ OpenFiles(mem, files, dirents, names) /\ OneEach(dirents)
  /\ u \in Users /\ files[u].busy /\ size \in Nat
  /\ size = 0 \/ size >= dirents[files[u].dirent].size

(* A file f that is open with the ao_file_dirent d, before its size is set.*)
FileBefore(f, d, n, size) ==
  LET e == d.entry
  IN /\ f \in AoFile /\ f.dirent \in Dirents /\ d \in AoDirent
     /\ e \in InUse(Entries, mem) /\ e \in Entries /\ n # NoName
     /\ mem[RootSector][e] = Dent(n, d.size, d.cluster)
     /\ mem[RootSector][e].name = n /\ mem[RootSector][e].size = d.size
     /\ First(mem, e) = d.cluster /\ InChain(mem, f, d)
     /\ Long(mem, e) = ClustersFor(d.size) /\ Long(mem, e) <= NumberCluster
     /\ Length(mem, d.cluster) = Long(mem, e)
     /\ 0 .. e - 1 \subseteq InUse(Entries, mem)
     /\ d.size \in Nat /\ ClustersFor(d.size) \in Nat
     /\ ClustersFor(size) \in Nat /\ NumberCluster \in Nat

(* The file to be resized, as its entry and its chain are before.          *)
LEMMA ResizeFile ==
  ASSUME NEW files, NEW dirents, NEW names, NEW u, NEW size,
         ResizeBefore(files, dirents, names, u, size)
  PROVE  FileBefore(files[u], dirents[files[u].dirent], names[u], size)
<1> DEFINE f == files[u]
           d == dirents[f.dirent]
           e == d.entry
<1>1. f \in AoFile /\ f.dirent \in Dirents /\ d \in AoDirent
  BY DEF ResizeBefore, AoFile
<1>2. /\ e \in InUse(Entries, mem) /\ First(mem, e) = d.cluster
      /\ mem[RootSector][e] = Dent(names[u], d.size, d.cluster)
      /\ mem[RootSector][e].name = names[u] /\ mem[RootSector][e].size = d.size
      /\ InChain(mem, f, d) /\ names[u] \in Names
  BY OpenInUse DEF ResizeBefore, IsOpen
<1>3. Long(mem, e) = ClustersFor(d.size) /\ Long(mem, e) <= NumberCluster
  BY <1>2 DEF ResizeBefore, Sound, SizesTrue, Apart, Ends
<1>4. e \in Entries /\ names[u] # NoName
  BY <1>2, FatAssumption DEF InUse
<1>5. 0 .. e - 1 \subseteq InUse(Entries, mem)
  <2>1. 0 .. e \subseteq InUse(Entries, mem)
    BY <1>2 DEF ResizeBefore, Sound, Dense
  <2>2. \A i \in 0 .. e - 1 : i \in 0 .. e
    BY <1>4 DEF Entries
  <2> QED
    BY <2>1, <2>2
<1>6. d.size \in Nat /\ size \in Nat
  BY <1>1 DEF AoDirent, ResizeBefore
<1>7. Length(mem, d.cluster) = Long(mem, e)
  BY <1>2 DEF Long
<1>8. ClustersFor(d.size) \in Nat /\ ClustersFor(size) \in Nat
      /\ NumberCluster \in Nat
  BY <1>6, ClustersForIs, Numbers
<1> QED
  BY <1>1, <1>2, <1>3, <1>4, <1>5, <1>6, <1>7, <1>8 DEF FileBefore

(* A file that needs no other number of clusters only changes its size.    *)
LEMMA ResizeInPlace ==
  ASSUME NEW files, NEW dirents, NEW names, NEW u, NEW size,
         ResizeBefore(files, dirents, names, u, size),
         NEW new \in Nat, new >= dirents[files[u].dirent].size,
         ClustersFor(new) = ClustersFor(dirents[files[u].dirent].size),
         NEW puts \in Seq(Cells), Change(puts),
         LET d == dirents[files[u].dirent]
             dent == Dent(names[u], new, d.cluster)
         IN /\ \A p \in ToSet(puts) : p = Cell(RootSector, d.entry, dent) \/ OfData(p)
            /\ \/ Cell(RootSector, d.entry, dent) \in ToSet(puts)
               \/ new = d.size
  PROVE  LET d == dirents[files[u].dirent]
             e == d.entry
         IN /\ OnlyFile(e) /\ FileKept(e) /\ SizesTrue(Entries, mem')
            /\ RootHas(e, names[u], new, d.cluster)
            /\ Long(mem', e) = ClustersFor(new)
<1> DEFINE d == dirents[files[u].dirent]
           e == d.entry
           dent == Dent(names[u], new, d.cluster)
<1>1. /\ e \in InUse(Entries, mem) /\ e \in Entries /\ names[u] # NoName
      /\ mem[RootSector][e] = Dent(names[u], d.size, d.cluster)
      /\ mem[RootSector][e].name = names[u] /\ mem[RootSector][e].size = d.size
      /\ First(mem, e) = d.cluster /\ d.size \in Nat
      /\ Long(mem, e) = ClustersFor(d.size) /\ Long(mem, e) <= NumberCluster
      /\ 0 .. e - 1 \subseteq InUse(Entries, mem)
  <2>1. FileBefore(files[u], d, names[u], size)
    BY ResizeFile
  <2> QED
    BY <2>1 DEF FileBefore
<1>2. /\ CacheOK /\ Sound(Entries, mem) /\ UNCHANGED root_entries
      /\ root_entries \in Nat
  BY DEF ResizeBefore, FilesOK
<1>3. /\ \A p \in ToSet(puts) : p = Cell(RootSector, e, dent) \/ OfData(p)
      /\ Cell(RootSector, e, dent) \in ToSet(puts) \/ dent = mem[RootSector][e]
      /\ new >= d.size
  BY <1>1
<1>4. dent.name = names[u] /\ dent.size = new /\ dent.cluster = d.cluster
  BY DentIs
<1> HIDE DEF dent, d, e
<1>5. RootPuts(puts, e, dent)
  BY <1>3 DEF RootPuts
<1>6. OnlyFile(e) /\ SameFile(mem, mem', e)
  BY <1>1, <1>2, <1>3, <1>4, <1>5, OnlyRoot
<1>7. mem'[RootSector][e] = dent
  BY <1>1, <1>2, <1>5, RootAfter
<1>8. Long(mem', e) = ClustersFor(new)
  BY <1>1, <1>6 DEF SameFile, e, d
<1>9. SizesTrue(Entries, mem')
  BY <1>1, <1>2, <1>4, <1>6, <1>7, <1>8, SizesAfter DEF Sound
<1>10. FileKept(e)
  <2>1. Long(mem, e) \in Nat /\ Long(mem', e) >= Long(mem, e)
    BY <1>6, UsedIn DEF SameFile
  <2>2. \A i \in 0 .. Long(mem, e) - 1 : Way(mem', e)[i] = Way(mem, e)[i]
    <3>1. \A i \in 0 .. Long(mem, e) - 1 : i \in 0 .. Long(mem, e)
      BY <2>1
    <3> QED
      BY <1>6, <3>1 DEF SameFile
  <2>3. ASSUME NEW i \in 0 .. Long(mem, e) - 2, NEW p \in ToSet(puts)
        PROVE  LET c == Way(mem, e)[i] IN ~(p.sector = FatSector(1, c) /\ p.key = c)
    <3>0. Long(mem, e) <= NumberCluster /\ NumberCluster \in Nat
      BY <1>1, Numbers
    <3>1. i \in 0 .. NumberCluster /\ i < Long(mem, e)
      BY <2>1, <3>0
    <3>2. Way(mem, e)[i] \in Clusters
      BY <3>1, UsedIn DEF Valid
    <3> QED
      BY <1>3, <3>2, CellsApart
  <2>4. dent.name = mem[RootSector][e].name /\ dent.size \in Nat
        /\ dent.size >= mem[RootSector][e].size
        /\ (Long(mem, e) > 0 => dent.cluster = First(mem, e))
    BY <1>1, <1>3, <1>4
  <2> QED
    BY <1>1, <1>2, <1>5, <2>1, <2>2, <2>3, <2>4, SameKept
<1> QED
  BY <1>6, <1>7, <1>8, <1>9, <1>10 DEF RootHas, dent, d, e

(* Where a file starts that was made longer.                               *)
StartsAt(first, c, got) == first = IF Length(mem, c) = 0 THEN got ELSE c

(* A file that takes a cluster is longer by it, and the others are kept.   *)
LEMMA ResizeLonger ==
  ASSUME NEW files, NEW dirents, NEW names, NEW u, NEW size,
         ResizeBefore(files, dirents, names, u, size),
         size > dirents[files[u].dirent].size,
         NEW puts \in Seq(Cells), Change(puts), NEW some, NEW got \in FreeClusters,
         NEW first, StartsAt(first, dirents[files[u].dirent].cluster, got),
         LET d == dirents[files[u].dirent]
             root == Cell(RootSector, d.entry, Dent(names[u], size, first))
         IN /\ \A p \in ToSet(puts) : p = root \/ p \in ToSet(some) \/ OfData(p)
            /\ root \in ToSet(puts) /\ ToSet(some) \subseteq ToSet(puts)
            /\ \A p \in ToSet(some) : InTables(p)
            /\ GetsCluster(some, d.cluster, Length(mem, d.cluster), got)
  PROVE  LET d == dirents[files[u].dirent]
             e == d.entry
         IN /\ OnlyFile(e) /\ FileKept(e) /\ RootHas(e, names[u], size, first)
            /\ Long(mem', e) = ClustersFor(d.size) + 1
<1> DEFINE d == dirents[files[u].dirent]
           e == d.entry
           dent == Dent(names[u], size, first)
           long == Length(mem, d.cluster)
<1>1. /\ e \in InUse(Entries, mem) /\ e \in Entries
      /\ mem[RootSector][e].name = names[u] /\ mem[RootSector][e].size = d.size
      /\ First(mem, e) = d.cluster /\ Long(mem, e) = long
      /\ Long(mem, e) = ClustersFor(d.size)
  <2>1. FileBefore(files[u], d, names[u], size)
    BY ResizeFile
  <2> QED
    BY <2>1 DEF FileBefore
<1>2. d.size \in Nat /\ size \in Nat /\ size >= d.size
  <2>1. d.size \in Nat
    BY ResizeFile DEF FileBefore
  <2>2. size \in Nat
    BY DEF ResizeBefore
  <2> HIDE DEF d
  <2>3. size > d.size
    BY DEF d
  <2> QED
    BY <2>1, <2>2, <2>3
<1>3. /\ CacheOK /\ Sound(Entries, mem) /\ UNCHANGED root_entries
      /\ root_entries \in Nat
  BY DEF ResizeBefore, FilesOK
<1>4. /\ \A p \in ToSet(puts) :
           p = Cell(RootSector, e, dent) \/ p \in ToSet(some) \/ OfData(p)
      /\ Cell(RootSector, e, dent) \in ToSet(puts) /\ ToSet(some) \subseteq ToSet(puts)
      /\ \A p \in ToSet(some) : InTables(p)
      /\ GetsCluster(some, d.cluster, long, got)
      /\ first = IF long = 0 THEN got ELSE d.cluster
  BY DEF StartsAt
<1>5. dent.name = names[u] /\ dent.size = size /\ dent.cluster = first
  BY DentIs
<1> HIDE DEF dent, d, e, long
<1>6. /\ dent.name = mem[RootSector][e].name
      /\ dent.size \in Nat /\ dent.size >= mem[RootSector][e].size
      /\ dent.cluster = IF Long(mem, e) = 0 THEN got ELSE First(mem, e)
  BY <1>1, <1>2, <1>4, <1>5
<1>7. GetsCluster(some, First(mem, e), Long(mem, e), got)
  BY <1>1, <1>4
<1>8. OnlyFile(e) /\ FileKept(e) /\ Long(mem', e) = Long(mem, e) + 1
  BY <1>1, <1>3, <1>4, <1>6, <1>7, OnlyLonger
<1>9. RootPuts(puts, e, dent)
  BY <1>4 DEF RootPuts
<1>10. mem'[RootSector][e] = dent
  BY <1>1, <1>3, <1>9, RootAfter
<1> QED
  BY <1>1, <1>8, <1>10 DEF RootHas, dent, e, d

(* A file made empty has no cluster left, and the others are kept.         *)
LEMMA ResizeEmpties ==
  ASSUME NEW files, NEW dirents, NEW names, NEW u,
         ResizeBefore(files, dirents, names, u, 0),
         NEW puts \in Seq(Cells), Change(puts), NEW some,
         LET d == dirents[files[u].dirent]
             root == Cell(RootSector, d.entry, Dent(names[u], 0, 0))
         IN /\ \A p \in ToSet(puts) : p = root \/ p \in ToSet(some) \/ OfData(p)
            /\ root \in ToSet(puts) /\ ToSet(some) \subseteq ToSet(puts)
            /\ \A p \in ToSet(some) : InTables(p)
            /\ LosesClusters(some, d.cluster, Length(mem, d.cluster))
  PROVE  LET e == dirents[files[u].dirent].entry
         IN /\ OnlyFile(e) /\ RootHas(e, names[u], 0, 0) /\ SizesTrue(Entries, mem')
            /\ Long(mem', e) = ClustersFor(0)
<1> DEFINE d == dirents[files[u].dirent]
           e == d.entry
           dent == Dent(names[u], 0, 0)
           long == Length(mem, d.cluster)
<1>1. /\ e \in InUse(Entries, mem) /\ e \in Entries /\ names[u] # NoName
      /\ First(mem, e) = d.cluster /\ Long(mem, e) = long
  <2>1. FileBefore(files[u], d, names[u], 0)
    BY ResizeFile
  <2> QED
    BY <2>1 DEF FileBefore
<1>2. /\ CacheOK /\ Sound(Entries, mem) /\ UNCHANGED root_entries
      /\ root_entries \in Nat
  BY DEF ResizeBefore, FilesOK
<1>3. /\ \A p \in ToSet(puts) :
           p = Cell(RootSector, e, dent) \/ p \in ToSet(some) \/ OfData(p)
      /\ Cell(RootSector, e, dent) \in ToSet(puts) /\ ToSet(some) \subseteq ToSet(puts)
      /\ \A p \in ToSet(some) : InTables(p)
      /\ LosesClusters(some, d.cluster, long)
  OBVIOUS
<1>4. dent.name = names[u] /\ dent.size = 0 /\ dent.cluster = 0
  BY DentIs
<1> HIDE DEF dent, d, e, long
<1>5. LosesClusters(some, First(mem, e), Long(mem, e)) /\ dent.name # NoName
  BY <1>1, <1>3, <1>4
<1>6. OnlyFile(e) /\ Long(mem', e) = 0
  BY <1>1, <1>2, <1>3, <1>4, <1>5, OnlyEmptied
<1>7. RootPuts(puts, e, dent)
  BY <1>3 DEF RootPuts
<1>8. mem'[RootSector][e] = dent
  BY <1>1, <1>2, <1>7, RootAfter
<1>9. Long(mem', e) = ClustersFor(0)
  BY <1>6, ClustersForIs
<1>10. SizesTrue(Entries, mem')
  BY <1>1, <1>2, <1>4, <1>6, <1>8, <1>9, SizesAfter DEF Sound
<1> QED
  BY <1>6, <1>8, <1>9, <1>10 DEF RootHas, dent, e, d

(* Everybody who has the file open that is made empty forgets its place.   *)
LEMMA ForgetsAll ==
  ASSUME NEW files \in [Users -> AoFile], NEW d
  PROVE  \A v \in Users :
           IF files[v].busy /\ files[v].dirent = d
           THEN ForgetPlaces(files, d, 0, 0)[v].cluster = 0
           ELSE ForgetPlaces(files, d, 0, 0)[v] = files[v]
BY DEF ForgetPlaces, AoFile

(* The file system is as it should be after a file has been made longer or *)
(* empty, unless the file has got one cluster and needs more.              *)
LEMMA ResizeFits ==
  ASSUME NEW files, NEW dirents, NEW names, NEW u, NEW size,
         ResizeBefore(files, dirents, names, u, size),
         NEW puts \in Seq(Cells), Change(puts),
         LET r == Resize(files, dirents, u, size)
         IN /\ ToSet(r.puts) \subseteq ToSet(puts)
            /\ \A p \in ToSet(puts) : p \in ToSet(r.puts) \/ OfData(p)
  PROVE  LET dn == files[u].dirent
             r == Resize(files, dirents, u, size)
         IN /\ Fits(r, dirents[dn].entry, dirents[dn], size)
            /\ OpenFiles(mem', r.files, r.dirents, names) /\ OneEach(r.dirents)
            /\ r.ok => r.dirents[dn].size = size
<1> DEFINE f == files[u]
           dn == f.dirent
           d == dirents[dn]
           e == d.entry
           t == InTable(f, d, size)
           first == IF FromHere(f, size) THEN d.cluster ELSE t.first
           dent == Dent(mem[RootSector][e].name, size, first)
           r == Resize(files, dirents, u, size)
<1>1. /\ f \in AoFile /\ dn \in Dirents /\ d \in AoDirent
      /\ e \in InUse(Entries, mem) /\ e \in Entries
      /\ mem[RootSector][e].name = names[u]
      /\ First(mem, e) = d.cluster /\ InChain(mem, f, d)
      /\ Long(mem, e) = ClustersFor(d.size) /\ Long(mem, e) <= NumberCluster
      /\ Length(mem, d.cluster) = Long(mem, e)
      /\ d.size \in Nat /\ ClustersFor(d.size) \in Nat
      /\ ClustersFor(size) \in Nat /\ NumberCluster \in Nat
  <2>1. FileBefore(files[u], d, names[u], size)
    BY ResizeFile
  <2> QED
    BY <2>1 DEF FileBefore
<1>2. /\ CacheOK /\ FilesOK /\ Sound(Entries, mem) /\ UNCHANGED root_entries
      /\ files \in [Users -> AoFile] /\ dirents \in [Dirents -> AoDirent]
      /\ OpenFiles(mem, files, dirents, names) /\ OneEach(dirents)
      /\ u \in Users /\ files[u].busy /\ size \in Nat
      /\ size = 0 \/ size >= d.size
  BY DEF ResizeBefore
<1>3. /\ r.ok = t.ok /\ r.short = t.short /\ TableResult(t)
      /\ IF size = d.size \/ ~t.ok
         THEN ToSet(r.puts) = {} /\ r.files = files /\ r.dirents = dirents
         ELSE /\ \A p : p \in ToSet(r.puts) <=>
                   p \in ToSet(t.puts) \/ p = Cell(RootSector, e, dent)
              /\ r.files = IF ClustersFor(d.size) > ClustersFor(size)
                           THEN ForgetPlaces(files, dn, size, first) ELSE files
              /\ r.dirents[dn].entry = e /\ r.dirents[dn].size = size
              /\ r.dirents[dn].cluster = first
              /\ \A c \in Dirents \ {dn} : r.dirents[c] = dirents[c]
  <2>1. /\ CacheOK /\ FilesOK /\ files \in [Users -> AoFile]
        /\ dirents \in [Dirents -> AoDirent] /\ u \in Users /\ size \in Nat
        /\ e \in Entries
    BY <1>1, <1>2
  <2>2. Resized(r, t, files, dirents, dn, size, first)
    BY <2>1, ResizeIs
  <2> HIDE DEF r, t, first
  <2> QED
    BY <2>2 DEF Resized
<1>4. /\ ToSet(r.puts) \subseteq ToSet(puts)
      /\ \A p \in ToSet(puts) : p \in ToSet(r.puts) \/ OfData(p)
  OBVIOUS
<1>5. ClustersFor(d.size) = ClustersFor(size) =>
        t = Result(d.cluster, <<>>, next_free, filesystem_full, TRUE, FALSE)
  BY DEF InTable
<1> DEFINE Good == /\ Fits(r, e, d, size)
                   /\ OpenFiles(mem', r.files, r.dirents, names) /\ OneEach(r.dirents)
                   /\ r.ok => r.dirents[dn].size = size
<1> HIDE DEF r, t
<1>12. Cell(RootSector, e, dent) = Cell(RootSector, e, Dent(names[u], size, first))
  BY <1>1
<1> SUFFICES Good
  BY DEF r
<1>6. ClustersFor(d.size) = ClustersFor(size) =>
        /\ t.ok = TRUE /\ t.short = FALSE /\ t.puts = <<>> /\ t.first = d.cluster
        /\ first = d.cluster
  BY <1>5 DEF Result
<1> HIDE DEF first, dent
<1>7. CASE size = d.size \/ ~t.ok
  <2>1. \A p \in ToSet(puts) : OfData(p)
    BY <1>3, <1>4, <1>7
  <2>2. /\ OnlyFile(e) /\ FileKept(e) /\ SizesTrue(Entries, mem')
        /\ RootHas(e, names[u], d.size, d.cluster)
        /\ Long(mem', e) = ClustersFor(d.size)
    <3>1. d.size \in Nat /\ d.size >= d.size
      BY <1>1
    <3> QED
      BY <2>1, <3>1, ResizeInPlace
  <2>3. OpenFiles(mem', files, dirents, names) /\ OneEach(dirents)
    <3>1. PlacesAfter(files, files, dn, e)
      BY <2>2 DEF PlacesAfter
    <3> QED
      BY <1>2, <2>2, <3>1, OpenAfter
  <2>4. r.ok => size = d.size /\ ~r.short
    BY <1>3, <1>6, <1>7
  <2>5. Fits(r, e, d, size)
    BY <1>1, <2>2, <2>4 DEF Fits
  <2> QED
    BY <1>3, <1>7, <2>3, <2>4, <2>5
<1>8. CASE ~(size = d.size \/ ~t.ok) /\ ClustersFor(d.size) = ClustersFor(size)
  <2>1. size > d.size
    <3>1. size = 0 => d.size = 0
      BY <1>1, <1>8, SizeNone, ClustersForIs
    <3> QED
      BY <1>1, <1>2, <1>8, <3>1
  <2>2. LET root == Cell(RootSector, e, Dent(names[u], size, d.cluster))
        IN (\A p \in ToSet(puts) : p = root \/ OfData(p)) /\ root \in ToSet(puts)
    BY <1>3, <1>4, <1>6, <1>8, <1>12, NoPut
  <2>3. /\ OnlyFile(e) /\ FileKept(e) /\ SizesTrue(Entries, mem')
        /\ RootHas(e, names[u], size, d.cluster)
        /\ Long(mem', e) = ClustersFor(size)
    <3>1. size \in Nat /\ size >= d.size /\ ClustersFor(size) = ClustersFor(d.size)
      BY <1>1, <1>2, <1>8, <2>1
    <3> QED
      BY <2>2, <3>1, ResizeInPlace
  <2>4. r.files = files
    BY <1>1, <1>3, <1>8
  <2>5. OpenFiles(mem', files, r.dirents, names) /\ OneEach(r.dirents)
    <3>1. /\ r.dirents[dn].entry = e /\ r.dirents[dn].size = size
          /\ r.dirents[dn].cluster = d.cluster
          /\ \A c \in Dirents \ {dn} : r.dirents[c] = dirents[c]
      BY <1>3, <1>6, <1>8
    <3>2. PlacesAfter(files, files, dn, e)
      BY <2>3 DEF PlacesAfter
    <3> QED
      BY <1>2, <2>3, <3>1, <3>2, OpenAfter
  <2>6. Fits(r, e, d, size)
    BY <1>1, <1>3, <1>6, <1>8, <2>3 DEF Fits
  <2> QED
    BY <1>3, <1>8, <2>4, <2>5, <2>6
<1>9. CASE ~(size = d.size \/ ~t.ok) /\ size > d.size
           /\ ClustersFor(d.size) # ClustersFor(size)
  <2>1. ClustersFor(size) > ClustersFor(d.size)
    <3>0. d.size \in Nat /\ size \in Nat /\ d.size <= size
      BY <1>1, <1>2, <1>9
    <3>1. ClustersFor(d.size) <= ClustersFor(size)
      BY <3>0, ClustersForIs
    <3>2. ClustersFor(d.size) \in Nat /\ ClustersFor(size) \in Nat
          /\ ClustersFor(d.size) # ClustersFor(size)
      BY <1>1, <1>9
    <3> QED
      BY <3>1, <3>2
  <2>2. PICK got \in FreeClusters :
          /\ GetsCluster(t.puts, d.cluster, Length(mem, d.cluster), got)
          /\ first = IF Length(mem, d.cluster) = 0 THEN got ELSE d.cluster
          /\ t.short <=> ClustersFor(size) > Length(mem, d.cluster) + 1
          /\ ClustersFor(size) - Length(mem, d.cluster) <= Cardinality(FreeClusters)
    BY <1>1, <1>2, <1>9, <2>1, TableGrows DEF t, first
  <2>3. LET root == Cell(RootSector, e, Dent(names[u], size, first))
        IN /\ \A p \in ToSet(puts) : p = root \/ p \in ToSet(t.puts) \/ OfData(p)
           /\ root \in ToSet(puts) /\ ToSet(t.puts) \subseteq ToSet(puts)
           /\ \A p \in ToSet(t.puts) : InTables(p)
    BY <1>3, <1>4, <1>9, <1>12 DEF TableResult
  <2>4. StartsAt(first, d.cluster, got)
    BY <2>2 DEF StartsAt
  <2>5. /\ OnlyFile(e) /\ FileKept(e) /\ RootHas(e, names[u], size, first)
        /\ Long(mem', e) = ClustersFor(d.size) + 1
    BY <1>9, <2>2, <2>3, <2>4, ResizeLonger
  <2>6. r.files = files
    <3>1. ~(ClustersFor(d.size) > ClustersFor(size))
      BY <1>1, <2>1
    <3>2. r.files = IF ClustersFor(d.size) > ClustersFor(size)
                    THEN ForgetPlaces(files, dn, size, first) ELSE files
      BY <1>3, <1>9
    <3> QED
      BY ONLY <3>1, <3>2
  <2>7. OpenFiles(mem', files, r.dirents, names) /\ OneEach(r.dirents)
    <3>1. /\ r.dirents[dn].entry = e /\ r.dirents[dn].size = size
          /\ r.dirents[dn].cluster = first
          /\ \A c \in Dirents \ {dn} : r.dirents[c] = dirents[c]
      BY <1>3, <1>9
    <3>2. PlacesAfter(files, files, dn, e)
      BY <2>5 DEF PlacesAfter
    <3> QED
      BY <1>2, <2>5, <3>1, <3>2, OpenAfter
  <2>8. ClustersFor(size) <= NumberCluster
    <3>1. Long(mem, e) + Cardinality(FreeClusters) <= NumberCluster
      BY <1>1, <1>2, RoomLeft DEF Sound
    <3>2. Cardinality(FreeClusters) \in Nat
      BY FreeIs
    <3>3. ClustersFor(size) - Long(mem, e) <= Cardinality(FreeClusters)
      BY <1>1, <2>2
    <3>4. Long(mem, e) \in Nat /\ ClustersFor(size) \in Nat /\ NumberCluster \in Nat
      BY <1>1
    <3> QED
      BY <3>1, <3>2, <3>3, <3>4
  <2>9. r.short <=> ClustersFor(size) > ClustersFor(d.size) + 1
    BY <1>1, <1>3, <2>2
  <2>10. IF r.short THEN Long(mem', e) < ClustersFor(size)
         ELSE Long(mem', e) = ClustersFor(size)
    <3>1. ClustersFor(size) \in Nat /\ ClustersFor(d.size) \in Nat
      BY <1>1
    <3> QED
      BY <2>1, <2>5, <2>9, <3>1
  <2>11. r.short \/ SizesTrue(Entries, mem')
    <3>1. mem'[RootSector][e].size = size
      BY <2>5, DentIs DEF RootHas
    <3>2. r.short \/ Long(mem', e) = ClustersFor(mem'[RootSector][e].size)
      BY <2>10, <3>1
    <3> QED
      BY <1>1, <1>2, <2>5, <3>2, SizesAfter DEF Sound
  <2>12. Fits(r, e, d, size)
    BY <2>5, <2>8, <2>10, <2>11 DEF Fits
  <2> QED
    BY <1>3, <1>9, <2>6, <2>7, <2>12
<1>10. CASE ~(size = d.size \/ ~t.ok) /\ size = 0
            /\ ClustersFor(d.size) # ClustersFor(size)
  <2>1. ClustersFor(0) = 0 /\ ClustersFor(d.size) # 0 /\ ClustersFor(d.size) > 0
    BY <1>1, <1>10, ClustersForIs
  <2>2. /\ first = 0 /\ t.ok /\ ~t.short
        /\ LosesClusters(t.puts, d.cluster, Length(mem, d.cluster))
    BY <1>1, <1>2, <1>10, <2>1, TableEmptied DEF t, first
  <2>3. LET root == Cell(RootSector, e, Dent(names[u], 0, 0))
        IN /\ \A p \in ToSet(puts) : p = root \/ p \in ToSet(t.puts) \/ OfData(p)
           /\ root \in ToSet(puts) /\ ToSet(t.puts) \subseteq ToSet(puts)
           /\ \A p \in ToSet(t.puts) : InTables(p)
    BY <1>3, <1>4, <1>10, <1>12, <2>2 DEF TableResult
  <2>4. /\ OnlyFile(e) /\ RootHas(e, names[u], 0, 0) /\ SizesTrue(Entries, mem')
        /\ Long(mem', e) = ClustersFor(0)
    <3>1. ResizeBefore(files, dirents, names, u, 0)
      BY <1>10
    <3> QED
      BY <2>2, <2>3, <3>1, ResizeEmpties
  <2>5. r.files = ForgetPlaces(files, dn, 0, 0)
    BY <1>3, <1>10, <2>1, <2>2
  <2>6. /\ r.files \in [Users -> AoFile]
        /\ \A v \in Users : r.files[v].busy = files[v].busy
                            /\ r.files[v].dirent = files[v].dirent
    <3>1. 0 \in Starts
      BY StartsTyped
    <3> QED
      BY <1>2, <2>5, <3>1, ForgetPlacesIs
  <2>7. \A v \in Users :
          IF files[v].busy /\ files[v].dirent = dn
          THEN r.files[v].cluster = 0 ELSE r.files[v] = files[v]
    BY <1>2, <2>5, ForgetsAll
  <2>8. OpenFiles(mem', r.files, r.dirents, names) /\ OneEach(r.dirents)
    <3>1. /\ r.dirents[dn].entry = e /\ r.dirents[dn].size = size
          /\ r.dirents[dn].cluster = first
          /\ \A c \in Dirents \ {dn} : r.dirents[c] = dirents[c]
      BY <1>3, <1>10, <2>2
    <3>2. RootHas(e, names[u], size, first)
      BY <1>10, <2>2, <2>4
    <3>3. PlacesAfter(files, r.files, dn, e)
      BY <2>6, <2>7 DEF PlacesAfter
    <3> QED
      BY <1>2, <2>4, <2>6, <3>1, <3>2, <3>3, OpenAfter
  <2>9. Fits(r, e, d, size)
    <3>1. size = 0 /\ d.size # 0
      BY <1>10
    <3>2. ~r.short
      BY <1>3, <2>2
    <3>3. ClustersFor(size) <= NumberCluster
      BY ONLY <1>1, <2>1, <3>1, Numbers
    <3>4. OnlyFile(e) /\ SizesTrue(Entries, mem') /\ Long(mem', e) = ClustersFor(size)
      BY <2>4, <3>1
    <3> QED
      BY ONLY <3>1, <3>2, <3>3, <3>4 DEF Fits
  <2> QED
    BY <1>3, <1>10, <2>8, <2>9
<1>11. size = 0 \/ size > d.size \/ size = d.size
  BY <1>1, <1>2
<1> QED
  BY <1>7, <1>8, <1>9, <1>10, <1>11 DEF r

-----------------------------------------------------------------------------
(* The place of a file.                                                    *)
LEMMA DivBelow ==
  ASSUME NEW a \in Nat, NEW b \in Nat, b > 0, NEW q \in Nat, a < b * q + b
  PROVE  a \div b <= q
<1>1. a \div b \in Nat /\ a % b \in 0 .. b - 1 /\ a = b * (a \div b) + (a % b)
  BY DivIs
<1> DEFINE n == a \div b
<1> HIDE DEF n
<1>2. ASSUME n >= q + 1 PROVE FALSE
  <2>1. b * n >= b * (q + 1) /\ b * (q + 1) = b * q + b
    BY <1>1, <1>2 DEF n
  <2>2. a >= b * n
    BY <1>1 DEF n
  <2> QED
    BY <1>1, <2>1, <2>2 DEF n
<1> QED
  BY <1>1, <1>2 DEF n

(* The place of an offset is found in the chain, or there is none because  *)
(* the chain is too short.                                                 *)
LEMMA PlacedTrue ==
  ASSUME NEW store, NEW f \in AoFile, NEW dirents, InChain(store, f, dirents[f.dirent]),
         f.offset \div PerCluster <= NumberCluster
  PROVE  LET c == dirents[f.dirent].cluster
             g == Placed(store, f, dirents)
             n == f.offset \div PerCluster
         IN /\ InChain(store, g, dirents[f.dirent])
            /\ n < Length(store, c) => OnCluster(g) /\ g.cluster = Chain(store, c)[n]
            /\ n >= Length(store, c) => ~OnCluster(g)
<1> DEFINE c == dirents[f.dirent].cluster
           g == Placed(store, f, dirents)
           n == f.offset \div PerCluster
           again == f.cluster = 0 \/ f.offset < f.cluster_offset
           from == IF again THEN c ELSE f.cluster
           passed == IF again THEN 0 ELSE f.cluster_offset \div PerCluster
           to == Chain(store, from)[n - passed]
<1>1. /\ f.offset \in Nat /\ f.cluster_offset \in Nat /\ PerCluster \in Nat
      /\ PerCluster > 0 /\ NumberCluster \in Nat
  BY Numbers DEF AoFile
<1>2. /\ n \in Nat /\ n <= NumberCluster /\ f.offset % PerCluster \in 0 .. PerCluster - 1
      /\ f.offset = PerCluster * n + (f.offset % PerCluster)
  BY <1>1, DivIs
<1>3. passed \in 0 .. NumberCluster /\ passed <= n /\ from = Chain(store, c)[passed]
  <2>1. CASE again
    <3>1. passed = 0 /\ from = c
      BY <2>1
    <3>2. Chain(store, c)[0] = c
      BY ChainIs
    <3>3. 0 \in 0 .. NumberCluster /\ 0 <= n
      BY <1>1, <1>2
    <3> HIDE DEF passed, from, c, n
    <3> QED
      BY <3>1, <3>2, <3>3
  <2>2. CASE ~again
    <3>1. passed = Passed(f) /\ from = f.cluster /\ f.cluster # 0
          /\ f.cluster_offset <= f.offset
      BY <1>1, <2>2 DEF Passed
    <3>2. passed \in 0 .. NumberCluster /\ from = Chain(store, c)[passed]
      BY <3>1 DEF InChain
    <3>3. f.cluster_offset \div PerCluster <= n
      BY <1>1, <3>1, DivMono
    <3> QED
      BY <2>2, <3>2, <3>3
  <2> QED
    BY <2>1, <2>2
<1>4. to = Chain(store, c)[n]
  <2>1. n - passed \in 0 .. NumberCluster - passed /\ passed + (n - passed) = n
    BY <1>1, <1>2, <1>3
  <2> HIDE DEF passed, from, n
  <2> QED
    BY <1>3, <2>1, ChainFrom
<1>5. Valid(to) <=> n < Length(store, c)
  <2>1. n \in 0 .. NumberCluster
    BY <1>1, <1>2
  <2> HIDE DEF to, n
  <2> QED
    BY <1>4, <2>1, ChainLength
<1>6. g = IF Valid(to) THEN [f EXCEPT !.cluster = to, !.cluster_offset = PerCluster * n]
          ELSE [f EXCEPT !.cluster = from, !.cluster_offset = PerCluster * passed]
  BY DEF Placed
<1> HIDE DEF g, to, from, passed, n
<1>7. ASSUME NEW k \in Nat PROVE (PerCluster * k) \div PerCluster = k
  <2>1. 0 \in 0 .. PerCluster - 1 /\ PerCluster * k + 0 = PerCluster * k
    BY <1>1
  <2> QED
    BY <1>1, <1>7, <2>1, DivUnique
<1>8. Length(store, c) \in Nat
  BY ChainLength, Numbers
<1>9. CASE Valid(to)
  <2>1. g.cluster = to /\ g.cluster_offset = PerCluster * n /\ g.offset = f.offset
    BY <1>6, <1>9 DEF AoFile
  <2>2. Passed(g) = n /\ n \in 0 .. NumberCluster
    BY <1>1, <1>2, <1>7, <2>1 DEF Passed
  <2>3. OnCluster(g)
    <3>1. PerCluster * n \in Nat
      BY <1>1, <1>2
    <3>2. f.offset < PerCluster * n + PerCluster
      <4> DEFINE pn == PerCluster * n
                 m == f.offset % PerCluster
      <4>1. pn \in Nat /\ m \in 0 .. PerCluster - 1 /\ f.offset = pn + m
        BY <1>2, <3>1
      <4> HIDE DEF pn, m
      <4>2. f.offset < pn + PerCluster
        BY <1>1, <4>1
      <4> QED
        BY <4>2 DEF pn
    <3> QED
      BY <1>9, <2>1, <3>2 DEF OnCluster
  <2>4. InChain(store, g, dirents[f.dirent])
    BY <1>4, <2>1, <2>2 DEF InChain
  <2> QED
    BY <1>2, <1>4, <1>5, <1>8, <1>9, <2>1, <2>3, <2>4 DEF n, g
<1>10. CASE ~Valid(to)
  <2>1. g.cluster = from /\ g.cluster_offset = PerCluster * passed /\ g.offset = f.offset
    BY <1>6, <1>10 DEF AoFile
  <2>2. Passed(g) = passed /\ passed \in Nat
    BY <1>3, <1>7, <2>1 DEF Passed
  <2>3. ASSUME OnCluster(g) PROVE FALSE
    <3>1. Valid(from) /\ f.offset < PerCluster * passed + PerCluster
      BY <2>1, <2>3 DEF OnCluster
    <3>2. n <= passed
      BY <1>1, <2>2, <3>1, DivBelow DEF n
    <3>3. n = passed
      BY <1>2, <1>3, <2>2, <3>2
    <3> QED
      BY <1>3, <1>4, <1>10, <3>1, <3>3
  <2>4. InChain(store, g, dirents[f.dirent])
    BY <1>3, <2>1, <2>2 DEF InChain
  <2> QED
    BY <1>2, <1>5, <1>8, <1>10, <2>3, <2>4 DEF n, g
<1> QED
  BY <1>9, <1>10

-----------------------------------------------------------------------------
(* What was written.                                                       *)
(***************************************************************************)
(* An entry e has what was written at an offset of the file of a name, and *)
(* has it in every value that the card may have: those of the directory,   *)
(* of the table up to the cluster it is in, and of that cluster.           *)
(***************************************************************************)
Has(store, e, n, offset) ==
  LET i == offset \div PerCluster IN
  /\ e \in Entries /\ store[RootSector][e].name = n
  /\ offset < store[RootSector][e].size /\ i < Long(store, e)
  /\ store[DataSector(Way(store, e)[i])][offset % PerCluster] = Mark(n, offset)

Settled(e, n, offset) ==
  LET i == offset \div PerCluster
      way == Way(mem, e)
  IN /\ \A y \in may[RootSector] :
          y[e].name = n /\ offset < y[e].size /\ y[e].cluster = First(mem, e)
     /\ \A j \in 0 .. i - 1 : \A y \in may[FatSector(1, way[j])] :
          y[way[j]] = way[j + 1]
     /\ \A y \in may[DataSector(way[i])] : y[offset % PerCluster] = Mark(n, offset)

WroteThere ==
  \A n \in Names : \A offset \in wrote[n] : \E e \in Entries : Has(mem, e, n, offset)

KeptThere ==
  \A n \in Names : \A offset \in kept[n] :
    \E e \in Entries : Has(mem, e, n, offset) /\ Settled(e, n, offset)

GhostsOK ==
  /\ wrote \in [Names -> SUBSET Nat] /\ kept \in [Names -> SUBSET Nat]
  /\ KeptThere
  /\ broken = "no" => WroteThere

(* A call changes what the clusters of a file have only to what belongs    *)
(* there.                                                                  *)
DataKept(x) ==
  \A i \in 0 .. Long(mem, x) - 1 : \A k \in 0 .. PerCluster - 1 :
    LET s == DataSector(Way(mem, x)[i])
        here == {mem[s][k], Mark(mem[RootSector][x].name, PerCluster * i + k)}
    IN mem'[s][k] \in here /\ \A y \in may'[s] \ may[s] : y[k] \in here

(* An offset is in one cell of one cluster.                                *)
LEMMA PlaceOf ==
  ASSUME NEW offset \in Nat
  PROVE  LET i == offset \div PerCluster
             k == offset % PerCluster
         IN i \in Nat /\ k \in 0 .. PerCluster - 1 /\ offset = PerCluster * i + k
  BY Numbers, DivIs

(* The entries of the directory after a call, in the cache and in what the *)
(* card may have.                                                          *)
LEMMA RootNext ==
  ASSUME CacheOK', UNCHANGED root_entries
  PROVE  /\ \A e \in Entries : mem'[RootSector][e] \in
                                 [name : Named, size : Nat, cluster : Starts]
         /\ \A y \in may'[RootSector] : \A e \in Entries :
              y[e] \in [name : Named, size : Nat, cluster : Starts]
<1>1. Contents(RootSector)' = Contents(RootSector)
  BY DEF Contents, Keys, Holds, Entries
<1>2. mem'[RootSector] \in Contents(RootSector)
      /\ may'[RootSector] \subseteq Contents(RootSector)
  <2>1. mem'[RootSector] \in may'[RootSector]
        /\ may'[RootSector] \subseteq Contents(RootSector)'
    BY RootCell DEF CacheOK
  <2> QED
    BY <1>1, <2>1
<1> QED
  BY <1>2, RootCell DEF Contents

(* A file that a call keeps has what it had.                               *)
LEMMA HasKept ==
  ASSUME CacheOK, CacheOK', UNCHANGED root_entries, NEW e, NEW n,
         NEW offset \in Nat, Has(mem, e, n, offset), FileKept(e), DataKept(e)
  PROVE  /\ Has(mem', e, n, offset)
         /\ Settled(e, n, offset) => Settled(e, n, offset)'
<1> DEFINE i == offset \div PerCluster
           k == offset % PerCluster
           s == DataSector(Way(mem, e)[i])
           way == Way(mem, e)
           long == Long(mem, e)
<1>1. i \in Nat /\ k \in 0 .. PerCluster - 1 /\ offset = PerCluster * i + k
  BY PlaceOf
<1>2. /\ e \in Entries /\ mem[RootSector][e].name = n
      /\ offset < mem[RootSector][e].size /\ i < long
      /\ mem[s][k] = Mark(n, offset)
  BY DEF Has
<1>3. mem[RootSector][e].size \in Nat /\ mem'[RootSector][e].size \in Nat
      /\ \A y \in may'[RootSector] : y[e].size \in Nat
  BY <1>2, RootTyped, RootNext
<1>4. long \in Nat /\ Long(mem', e) \in Nat
  BY UsedIn
<1>5. i \in 0 .. long - 1 /\ long > 0
  BY <1>1, <1>2, <1>4
<1> HIDE DEF i, k, way, long
<1>6. /\ mem'[RootSector][e].name = n /\ mem'[RootSector][e].size >= mem[RootSector][e].size
      /\ First(mem', e) = First(mem, e)
      /\ Long(mem', e) >= long
      /\ \A j \in 0 .. i : Way(mem', e)[j] = way[j]
  BY <1>1, <1>2, <1>4, <1>5 DEF FileKept, long, way
<1>7. \A y \in may'[RootSector] \ may[RootSector] :
        y[e].name = n /\ y[e].size >= mem[RootSector][e].size
        /\ y[e].cluster = First(mem, e)
  BY <1>2, <1>5 DEF FileKept, long
<1>8. \A j \in 0 .. i - 1 :
        LET c == way[j]
        IN mem'[FatSector(1, c)][c] = mem[FatSector(1, c)][c]
           /\ \A y \in may'[FatSector(1, c)] \ may[FatSector(1, c)] :
                y[c] = mem[FatSector(1, c)][c]
  <2>1. \A j \in 0 .. i - 1 : j \in 0 .. long - 2
    BY <1>1, <1>4, <1>5
  <2> QED
    BY <2>1 DEF FileKept, long, way
<1>9. mem'[s][k] = Mark(n, offset)
      /\ \A y \in may'[s] \ may[s] : y[k] = Mark(n, offset)
  <2>1. Mark(mem[RootSector][e].name, PerCluster * i + k) = Mark(n, offset)
    BY <1>1, <1>2
  <2>2. LET here == {mem[s][k], Mark(mem[RootSector][e].name, PerCluster * i + k)}
        IN mem'[s][k] \in here /\ \A y \in may'[s] \ may[s] : y[k] \in here
    BY <1>1, <1>5 DEF DataKept, way, long
  <2> QED
    BY <1>2, <2>1, <2>2
<1>10. \A j \in 0 .. i - 1 : way[j + 1] = mem[FatSector(1, way[j])][way[j]]
  <2> TAKE j \in 0 .. i - 1
  <2>1. /\ j \in 0 .. NumberCluster - 1 /\ j \in 0 .. NumberCluster /\ j < long
    BY <1>1, <1>4, <1>5, ChainLength, Numbers DEF long, Long
  <2>2. Valid(way[j])
    BY <2>1, UsedIn DEF way, long
  <2> QED
    BY <2>1, <2>2, ChainNext DEF way, Way
<1>11. Has(mem', e, n, offset)
  <2>1. Way(mem', e)[i] = way[i] /\ i < Long(mem', e)
        /\ offset < mem'[RootSector][e].size
    BY <1>1, <1>2, <1>3, <1>4, <1>6
  <2> QED
    BY <1>2, <1>6, <1>9, <2>1 DEF Has, i, k, way
<1>12. ASSUME Settled(e, n, offset) PROVE Settled(e, n, offset)'
  <2>1. /\ \A y \in may[RootSector] :
             y[e].name = n /\ offset < y[e].size /\ y[e].cluster = First(mem, e)
        /\ \A j \in 0 .. i - 1 : \A y \in may[FatSector(1, way[j])] :
             y[way[j]] = way[j + 1]
        /\ \A y \in may[s] : y[k] = Mark(n, offset)
    BY <1>12 DEF Settled, i, k, way
  <2>2. \A y \in may'[RootSector] :
          y[e].name = n /\ offset < y[e].size /\ y[e].cluster = First(mem', e)
    BY <1>2, <1>3, <1>6, <1>7, <2>1
  <2>3. \A j \in 0 .. i - 1 : \A y \in may'[FatSector(1, way[j])] :
          y[way[j]] = way[j + 1]
    BY <1>8, <1>10, <2>1
  <2>4. \A y \in may'[s] : y[k] = Mark(n, offset)
    BY <1>9, <2>1
  <2>5. \A j \in 0 .. i - 1 : Way(mem', e)[j] = way[j] /\ Way(mem', e)[j + 1] = way[j + 1]
    BY <1>1, <1>6
  <2>6. Way(mem', e)[i] = way[i]
    BY <1>1, <1>6
  <2> QED
    BY <2>2, <2>3, <2>4, <2>5, <2>6 DEF Settled, i, k, way
<1> QED
  BY <1>11, <1>12

(* What the calls do to what was written.  A file of the name cut is being *)
(* made empty.                                                             *)
KeepsFiles(cut) ==
  \A x \in InUse(Entries, mem) :
    mem[RootSector][x].name # cut => FileKept(x) /\ DataKept(x)

(* An entry that has something of a name is in use and has that name.      *)
LEMMA HasIs ==
  ASSUME NEW e, NEW n \in Names, NEW offset, Has(mem, e, n, offset)
  PROVE  e \in InUse(Entries, mem) /\ mem[RootSector][e].name = n
<1>1. n # NoName
  BY FatAssumption
<1> QED
  BY <1>1 DEF Has, InUse

(* What was written and what was flushed is there after a call that keeps  *)
(* the files it does not empty.                                            *)
LEMMA GhostsAfter ==
  ASSUME CacheOK, CacheOK', UNCHANGED root_entries, GhostsOK, broken = "no",
         NEW cut, KeepsFiles(cut),
         wrote' \in [Names -> SUBSET Nat], kept' \in [Names -> SUBSET Nat],
         \A n \in Names : kept'[n] \subseteq kept[n] /\ (n = cut => kept'[n] = {}),
         broken' = "no" =>
           \A n \in Names : \A offset \in wrote'[n] :
             \/ n # cut /\ offset \in wrote[n]
             \/ \E e \in Entries : Has(mem', e, n, offset)
  PROVE  GhostsOK'
<1>1. ASSUME NEW n \in Names, n # cut, NEW offset \in Nat, NEW e, Has(mem, e, n, offset)
      PROVE  /\ Has(mem', e, n, offset)
             /\ Settled(e, n, offset) => Settled(e, n, offset)'
  <2>1. FileKept(e) /\ DataKept(e)
    BY <1>1, HasIs DEF KeepsFiles
  <2> QED
    BY <1>1, <2>1, HasKept
<1>2. Entries' = Entries
  BY DEF Entries
<1>3. ASSUME NEW n \in Names, NEW offset \in kept'[n]
      PROVE  \E e \in Entries : Has(mem', e, n, offset) /\ Settled(e, n, offset)'
  <2>1. offset \in kept[n] /\ n # cut /\ offset \in Nat
    BY <1>3 DEF GhostsOK
  <2>2. PICK e \in Entries : Has(mem, e, n, offset) /\ Settled(e, n, offset)
    BY <2>1 DEF GhostsOK, KeptThere
  <2> QED
    BY <1>1, <2>1, <2>2
<1>4. ASSUME broken' = "no", NEW n \in Names, NEW offset \in wrote'[n]
      PROVE  \E e \in Entries : Has(mem', e, n, offset)
  <2>1. CASE n # cut /\ offset \in wrote[n]
    <3>1. offset \in Nat
      BY <2>1 DEF GhostsOK
    <3>2. PICK e \in Entries : Has(mem, e, n, offset)
      BY <2>1 DEF GhostsOK, WroteThere
    <3> QED
      BY <1>1, <2>1, <3>1, <3>2
  <2> QED
    BY <1>4, <2>1
<1>5. \A e, n, offset : Has(mem', e, n, offset) => Has(mem, e, n, offset)'
  BY <1>2 DEF Has
<1>6. KeptThere'
  BY <1>2, <1>3, <1>5 DEF KeptThere
<1>7. broken' = "no" => WroteThere'
  BY <1>2, <1>4, <1>5 DEF WroteThere
<1> QED
  BY <1>6, <1>7 DEF GhostsOK

(* Data sectors that are not written.                                      *)
LEMMA DataStays ==
  ASSUME CacheOK, NEW puts \in Seq(Cells), Change(puts), UNCHANGED root_entries,
         NEW c \in Clusters, NEW k \in 0 .. PerCluster - 1,
         \A p \in ToSet(puts) : ~(p.sector = DataSector(c) /\ p.key = k)
  PROVE  LET s == DataSector(c)
         IN mem'[s][k] = mem[s][k] /\ \A y \in may'[s] \ may[s] : y[k] = mem[s][k]
<1> DEFINE a == [mem |-> mem', may |-> may']
           s == DataSector(c)
<1>1. AfterOK(a, puts)
  BY CacheChanged
<1>2. s \in FatSectors /\ k \in Keys(s)
  BY DataCell
<1>3. Written(puts, s, k) = {}
  BY DEF Written
<1>4. \A p \in ToSet(puts) : ~(p.sector = s /\ p.key = k)
  OBVIOUS
<1> HIDE DEF s, a
<1>5. a.mem[s][k] = mem[s][k]
  BY <1>1, <1>2, <1>4, SameCell
<1>6. \A y \in a.may[s] \ may[s] : y[k] = mem[s][k]
  <2> TAKE y \in a.may[s] \ may[s]
  <2>1. y[k] \in Written(puts, s, k) \union {mem[s][k]}
    BY <1>1, <1>2 DEF AfterOK
  <2> QED
    BY <1>3, <2>1
<1> QED
  BY <1>5, <1>6 DEF a, s

(* A change of the tables and the directory keeps the data of every file.  *)
LEMMA NoData ==
  ASSUME CacheOK, NEW puts \in Seq(Cells), Change(puts), UNCHANGED root_entries,
         \A p \in ToSet(puts) : ~OfData(p),
         NEW x, Long(mem, x) <= NumberCluster
  PROVE  DataKept(x)
<1> SUFFICES ASSUME NEW i \in 0 .. Long(mem, x) - 1, NEW k \in 0 .. PerCluster - 1
             PROVE  LET s == DataSector(Way(mem, x)[i])
                    IN mem'[s][k] = mem[s][k]
                       /\ \A y \in may'[s] \ may[s] : y[k] = mem[s][k]
  BY DEF DataKept
<1>1. Long(mem, x) \in Nat
  BY UsedIn
<1>2. i \in 0 .. NumberCluster /\ i < Long(mem, x)
  <2>1. NumberCluster \in Nat
    BY Numbers
  <2> QED
    BY <1>1, <2>1
<1>3. Way(mem, x)[i] \in Clusters
  BY <1>2, UsedIn DEF Valid
<1>4. \A p \in ToSet(puts) : ~(p.sector = DataSector(Way(mem, x)[i]) /\ p.key = k)
  BY DEF OfData
<1> QED
  BY <1>3, <1>4, DataStays

(* A call that changes no sector, and a flush.                             *)
LEMMA GhostsSame ==
  ASSUME GhostsOK, UNCHANGED <<root_entries, cacheVars, wrote, kept>>,
         broken' = broken
  PROVE  GhostsOK'
<1>1. UNCHANGED <<mem, may>> /\ Entries' = Entries
  BY DEF cacheVars, Entries
<1>2. \A e, n, offset : /\ Has(mem, e, n, offset)' <=> Has(mem, e, n, offset)
                        /\ Settled(e, n, offset)' <=> Settled(e, n, offset)
  BY <1>1 DEF Has, Settled
<1>3. KeptThere' <=> KeptThere
  BY <1>1, <1>2 DEF KeptThere
<1>4. WroteThere' <=> WroteThere
  BY <1>1, <1>2 DEF WroteThere
<1> QED
  BY <1>3, <1>4 DEF GhostsOK

(* The sectors on which it depends that an entry has something.            *)
LEMMA HasAll ==
  ASSUME NEW store, NEW e, NEW n, NEW offset \in Nat, Has(store, e, n, offset)
  PROVE  LET i == offset \div PerCluster
             way == Way(store, e)
         IN /\ store[RootSector][e].name = n /\ offset < store[RootSector][e].size
            /\ i \in Nat /\ i \in 0 .. NumberCluster /\ RootSector \in FatSectors
            /\ \A j \in 0 .. i - 1 :
                 /\ FatSector(1, way[j]) \in FatSectors /\ way[j] \in Clusters
                 /\ store[FatSector(1, way[j])][way[j]] = way[j + 1]
            /\ DataSector(way[i]) \in FatSectors /\ way[i] \in Clusters
            /\ store[DataSector(way[i])][offset % PerCluster] = Mark(n, offset)
<1> DEFINE i == offset \div PerCluster
           way == Way(store, e)
<1>1. i \in Nat /\ i < Long(store, e) /\ Long(store, e) \in Nat
      /\ Long(store, e) <= NumberCluster + 1 /\ NumberCluster \in Nat
  BY PlaceOf, UsedIn, ChainLength, Numbers DEF Has, Long
<1>2. ASSUME NEW j \in 0 .. i PROVE way[j] \in Clusters
  <2>1. j \in 0 .. NumberCluster /\ j < Long(store, e)
    BY <1>1
  <2> QED
    BY <2>1, UsedIn DEF Valid
<1>3. ASSUME NEW j \in 0 .. i - 1
      PROVE  /\ FatSector(1, way[j]) \in FatSectors /\ way[j] \in Clusters
             /\ store[FatSector(1, way[j])][way[j]] = way[j + 1]
  <2>1. j \in 0 .. NumberCluster - 1 /\ j \in 0 .. i
    BY <1>1
  <2>2. way[j] \in Clusters /\ 1 \in {1, 2}
    BY <1>2, <2>1
  <2>3. FatSector(1, way[j]) \in FatSectors
    BY <2>2, TableCell
  <2> QED
    BY <2>1, <2>2, <2>3, ChainNext DEF way, Way, Valid
<1>4. way[i] \in Clusters /\ i \in 0 .. NumberCluster
  <2>1. i \in 0 .. i /\ i \in 0 .. NumberCluster
    BY <1>1
  <2> QED
    BY <1>2, <2>1
<1>5. DataSector(way[i]) \in FatSectors /\ RootSector \in FatSectors
  BY <1>4, DataCell, RootCell
<1> QED
  BY <1>1, <1>3, <1>4, <1>5 DEF Has

(* What an entry has is on the card when nothing else may be.              *)
LEMMA SettledNow ==
  ASSUME NEW e, NEW n, NEW offset \in Nat, Has(mem', e, n, offset),
         may' = [s \in FatSectors |-> {mem'[s]}]
  PROVE  Settled(e, n, offset)'
<1> DEFINE i == offset \div PerCluster
           way == Way(mem', e)
           k == offset % PerCluster
<1>1. /\ mem'[RootSector][e].name = n /\ offset < mem'[RootSector][e].size
      /\ RootSector \in FatSectors
      /\ \A j \in 0 .. i - 1 :
           /\ FatSector(1, way[j]) \in FatSectors
           /\ mem'[FatSector(1, way[j])][way[j]] = way[j + 1]
      /\ DataSector(way[i]) \in FatSectors
      /\ mem'[DataSector(way[i])][k] = Mark(n, offset)
  BY HasAll
<1> HIDE DEF i, way, k
<1>2. \A y \in may'[RootSector] :
        y[e].name = n /\ offset < y[e].size /\ y[e].cluster = First(mem', e)
  BY <1>1 DEF First
<1>3. \A j \in 0 .. i - 1 : \A y \in may'[FatSector(1, way[j])] :
        y[way[j]] = way[j + 1]
  BY <1>1
<1>4. \A y \in may'[DataSector(way[i])] : y[k] = Mark(n, offset)
  BY <1>1
<1> QED
  BY <1>2, <1>3, <1>4 DEF Settled, i, way, k

(* After a flush all that was written is on the card.                      *)
LEMMA GhostsFlushed ==
  ASSUME GhostsOK, UNCHANGED <<root_entries, mem, wrote, broken>>,
         may' = [s \in FatSectors |-> {mem[s]}], kept' = wrote, broken = "no"
  PROVE  GhostsOK'
<1>1. Entries' = Entries
  BY DEF Entries
<1>2. \A e, n, offset : Has(mem, e, n, offset)' <=> Has(mem, e, n, offset)
  BY <1>1 DEF Has
<1>3. mem' = mem /\ may' = [s \in FatSectors |-> {mem'[s]}]
  OBVIOUS
<1>4. KeptThere'
  <2> SUFFICES ASSUME NEW n \in Names, NEW offset \in kept'[n]
               PROVE  \E e \in Entries : Has(mem, e, n, offset)' /\ Settled(e, n, offset)'
    BY <1>1 DEF KeptThere
  <2>1. offset \in wrote[n] /\ offset \in Nat
    BY DEF GhostsOK
  <2>2. PICK e \in Entries : Has(mem, e, n, offset)
    BY <2>1 DEF GhostsOK, WroteThere
  <2>3. Has(mem', e, n, offset)
    BY <1>3, <2>2
  <2>4. Settled(e, n, offset)'
    BY <1>3, <2>1, <2>3, SettledNow
  <2> QED
    BY <1>2, <2>2, <2>4
<1>5. WroteThere'
  BY <1>1, <1>2 DEF GhostsOK, WroteThere
<1> QED
  BY <1>4, <1>5 DEF GhostsOK

-----------------------------------------------------------------------------
(* The calls, in a file system that is consistent.                         *)
Consistent(store, files, dirents, names) ==
  Sound(Entries, store) /\ OpenFiles(store, files, dirents, names) /\ OneEach(dirents)

ChainsOK == broken = "no" => Consistent(mem, file, ao_file_dirent, name)

Ready ==
  /\ Before /\ GhostsOK /\ Consistent(mem, file, ao_file_dirent, name)
  /\ name \in [Users -> Named]

CallKeeps(u, n) ==
  /\ broken' = "no" =>
       Consistent(mem', file', ao_file_dirent', [name EXCEPT ![u] = n])
  /\ GhostsOK'

(* An open file has an ao_file_dirent in use.                              *)
LEMMA OpenDirent ==
  ASSUME Before, NEW v \in Users, file[v].busy
  PROVE  file[v].dirent \in Dirents /\ ao_file_dirent[file[v].dirent].entry \in Entries
         /\ ao_file_dirent[file[v].dirent] # NoDirent
<1>1. file[v] \in AoFile /\ ao_file_dirent[file[v].dirent].entry \in Entries
  BY DEF Before, FilesOK, DirentsOK
<1>2. NoDirent.entry \notin Entries
  BY NoFileTyped DEF Before
<1>3. file[v].dirent \in Dirents
  BY <1>1 DEF AoFile
<1> QED
  BY <1>1, <1>2, <1>3

(* A file at its first cluster is in its chain.                            *)
LEMMA AtStart ==
  ASSUME NEW store, NEW f, NEW d, f.cluster_offset = 0, f.cluster = d.cluster
  PROVE  InChain(store, f, d)
<1>1. f.cluster_offset \div PerCluster = 0 /\ 0 \in 0 .. NumberCluster
  <2>1. 0 \in Nat /\ 0 \in 0 .. PerCluster - 1 /\ PerCluster * 0 + 0 = 0
        /\ 0 \in 0 .. NumberCluster
    BY Numbers
  <2>2. (PerCluster * 0 + 0) \div PerCluster = 0
    BY <2>1, Numbers, DivUnique
  <2> QED
    BY <2>1, <2>2
<1>2. Passed(f) = 0
  BY <1>1 DEF Passed
<1>3. Chain(store, d.cluster)[0] = d.cluster
  BY ChainIs
<1> QED
  BY <1>1, <1>2, <1>3 DEF InChain

(* A file that is opened is true, and the others stay so.                  *)
Opens(o, u, n, e) ==
  /\ o.files \in [Users -> AoFile] /\ o.dirents \in [Dirents -> AoDirent]
  /\ o.files[u].busy /\ o.dirents[o.files[u].dirent].entry = e
  /\ OpenFiles(mem, o.files, o.dirents, [name EXCEPT ![u] = n])
  /\ OneEach(o.dirents)

(* A file that is opened gets the entry of its name, and shares its        *)
(* ao_file_dirent with whoever has it open.                                *)
LEMMA OpenedTrue ==
  ASSUME Ready, NEW u \in Users, ~file[u].busy, NEW n \in Names, Exists(n)
  PROVE  /\ Opens(Opened(u, EntryOf(n)), u, n, EntryOf(n))
         /\ EntryOf(n) \in Entries /\ mem[RootSector][EntryOf(n)].name = n
<1> DEFINE e == EntryOf(n)
           d == DirentFor(e)
           o == Opened(u, e)
           names == [name EXCEPT ![u] = n]
           old == ao_file_dirent
<1>1. CacheOK /\ FilesOK /\ DirentsOK /\ root_entries \in Nat
  BY DEF Ready, Before, FilesOK
<1>2. e \in Entries /\ mem[RootSector][e].name = n
  <2>1. e # root_entries
    BY <1>1, EntryOfIs DEF Exists
  <2> QED
    BY <1>1, <2>1, EntryOfIs
<1>3. /\ OpenedAt(o, u, d, e)
      /\ o.files[u].cluster = o.dirents[d].cluster
      /\ IF old[d].entry = e THEN o.dirents = old
         ELSE /\ old[d] = NoDirent
              /\ \A c \in Dirents : old[c].entry # e
              /\ o.dirents[d].size = mem[RootSector][e].size
              /\ o.dirents[d].cluster = mem[RootSector][e].cluster
  BY <1>1, <1>2, OpenedIs
<1> HIDE DEF o, d, e
<1>4. /\ d \in Dirents
      /\ o.files \in [Users -> AoFile] /\ o.dirents \in [Dirents -> AoDirent]
      /\ o.files[u].busy /\ o.files[u].dirent = d
      /\ o.files[u].offset = 0 /\ o.files[u].cluster_offset = 0
      /\ \A v \in Users \ {u} : o.files[v] = file[v]
      /\ o.dirents[d].entry = e
      /\ \A c \in Dirents \ {d} : o.dirents[c] = old[c]
  BY <1>3 DEF OpenedAt
<1>5. OpenFiles(mem, file, old, name) /\ OneEach(old)
  BY DEF Ready, Consistent
<1>6. mem[RootSector][e] = Dent(n, o.dirents[d].size, o.dirents[d].cluster)
  <2>1. CASE old[d].entry = e
    <3>1. old[d] # NoDirent
      BY <1>1, <1>2, <2>1, NoFileTyped
    <3>2. PICK v \in Users : file[v].busy /\ file[v].dirent = d
      BY <1>1, <1>4, <3>1 DEF DirentsOK, Opening
    <3>3. IsOpen(name[v], file[v], old[d])
      BY <1>5, <3>2, OpenInUse
    <3>4. mem[RootSector][e] = Dent(name[v], old[d].size, old[d].cluster)
          /\ mem[RootSector][e].name = name[v]
      BY <2>1, <3>3 DEF IsOpen
    <3> QED
      BY <1>2, <1>3, <2>1, <3>4
  <2>2. CASE old[d].entry # e
    <3>1. mem[RootSector][e] \in [name : Named, size : Nat, cluster : Starts]
      BY <1>1, <1>2, RootTyped
    <3>2. mem[RootSector][e] = Dent(n, mem[RootSector][e].size, mem[RootSector][e].cluster)
      BY <1>2, <3>1 DEF Dent
    <3> QED
      BY <1>3, <2>2, <3>2
  <2> QED
    BY <2>1, <2>2
<1>7. OpenTrue(mem, n, o.files[u], o.dirents[d])
  BY <1>2, <1>3, <1>4, <1>6, AtStart DEF OpenTrue
<1>8. ASSUME NEW v \in Users \ {u}, o.files[v].busy
      PROVE  /\ name[v] \in Names
             /\ OpenTrue(mem, name[v], o.files[v], o.dirents[o.files[v].dirent])
  <2>1. file[v].busy /\ o.files[v] = file[v]
    BY <1>4, <1>8
  <2>2. o.dirents[file[v].dirent] = old[file[v].dirent]
    <3>1. file[v].dirent \in Dirents /\ old[file[v].dirent] # NoDirent
      BY <2>1, OpenDirent DEF Ready
    <3> QED
      BY <1>3, <1>4, <3>1
  <2>3. name[v] \in Names /\ OpenTrue(mem, name[v], file[v], old[file[v].dirent])
    BY <1>5, <2>1 DEF OpenFiles
  <2> QED
    BY <2>1, <2>2, <2>3
<1>9. OpenFiles(mem, o.files, o.dirents, names)
  <2>1. names[u] = n /\ \A v \in Users \ {u} : names[v] = name[v]
    BY DEF Ready
  <2>2. ASSUME NEW v \in Users, o.files[v].busy
        PROVE  names[v] \in Names
               /\ OpenTrue(mem, names[v], o.files[v], o.dirents[o.files[v].dirent])
    <3>1. CASE v = u
      BY <1>4, <1>7, <2>1, <3>1
    <3>2. CASE v # u
      BY <1>8, <2>1, <2>2, <3>2
    <3> QED
      BY <3>1, <3>2
  <2> HIDE DEF names
  <2> QED
    BY <2>2 DEF OpenFiles
<1>10. OneEach(o.dirents)
  <2>1. CASE old[d].entry = e
    BY <1>3, <1>5, <2>1
  <2>2. CASE old[d].entry # e
    <3>1. \A c \in Dirents : old[c].entry # e
      BY <1>3, <2>2
    <3>2. \A c \in Dirents \ {d} : o.dirents[c].entry = old[c].entry
      BY <1>4
    <3>3. \A a, c \in Dirents :
            a # c /\ old[c].entry \in Entries => old[a].entry # old[c].entry
      BY <1>5 DEF OneEach
    <3> QED
      BY <1>4, <3>1, <3>2, <3>3 DEF OneEach
  <2> QED
    BY <2>1, <2>2
<1>11. o.dirents[o.files[u].dirent].entry = e
  BY <1>4
<1>12. Opens(o, u, n, e)
  BY <1>4, <1>9, <1>10, <1>11 DEF Opens
<1> QED
  BY <1>2, <1>12 DEF e, o

(* ao_fat_open keeps all.                                                  *)
LEMMA OpenKeeps ==
  ASSUME Ready, NEW u \in Users, ~file[u].busy, NEW n \in Names, Exists(n),
         ao_fat_open(u, n)
  PROVE  CallKeeps(u, n)
<1> DEFINE o == Opened(u, EntryOf(n))
<1>1. Opens(o, u, n, EntryOf(n))
  BY OpenedTrue
<1> HIDE DEF o
<1>2. /\ file' = o.files /\ ao_file_dirent' = o.dirents
      /\ UNCHANGED <<cacheVars, wrote, kept, broken>>
  BY DEF ao_fat_open, o
<1>3. UNCHANGED root_entries /\ GhostsOK /\ Sound(Entries, mem)
  BY DEF Ready, Before, Consistent
<1>4. mem' = mem
  BY <1>2 DEF cacheVars
<1>5. GhostsOK'
  BY <1>2, <1>3, GhostsSame
<1>6. /\ OpenFiles(mem, o.files, o.dirents, [name EXCEPT ![u] = n])
      /\ OneEach(o.dirents)
  BY <1>1 DEF Opens
<1>7. Consistent(mem', file', ao_file_dirent', [name EXCEPT ![u] = n])
  BY <1>2, <1>3, <1>4, <1>6 DEF Consistent
<1> QED
  BY <1>5, <1>7 DEF CallKeeps

(* No chain is longer than the card.                                       *)
LEMMA ShortFiles ==
  ASSUME Sound(Entries, mem), NEW x \in InUse(Entries, mem)
  PROVE  Long(mem, x) <= NumberCluster
BY DEF Sound, Apart, Ends

(* A file made empty: the others keep what they have.                      *)
LEMMA CreatOldKeeps ==
  ASSUME Ready, NEW u \in Users, ~file[u].busy, NEW n \in Names, Exists(n),
         CreatOld(u, n)
  PROVE  CallKeeps(u, n)
<1> DEFINE e == EntryOf(n)
           o == Opened(u, e)
           names == [name EXCEPT ![u] = n]
           r == Resize(o.files, o.dirents, u, 0)
           dn == o.files[u].dirent
<1>1. Opens(o, u, n, e) /\ e \in Entries /\ mem[RootSector][e].name = n
  BY OpenedTrue
<1>2. /\ Change(r.puts) /\ file' = r.files /\ ao_file_dirent' = r.dirents
      /\ wrote' = [wrote EXCEPT ![n] = {}] /\ kept' = [kept EXCEPT ![n] = {}]
      /\ broken' = broken
  BY DEF CreatOld, Resizing
<1> HIDE DEF e, o, r
<1>3. /\ o.files \in [Users -> AoFile] /\ o.dirents \in [Dirents -> AoDirent]
      /\ o.files[u].busy /\ o.dirents[dn].entry = e
      /\ OpenFiles(mem, o.files, o.dirents, names) /\ OneEach(o.dirents)
  BY <1>1 DEF Opens
<1>4. /\ CacheOK /\ FilesOK /\ UNCHANGED root_entries /\ broken = "no"
      /\ GhostsOK /\ Sound(Entries, mem)
  BY DEF Ready, Before, Consistent
<1>5. 0 \in Nat
  OBVIOUS
<1>6. r.puts \in Seq(Cells)
      /\ \A p \in ToSet(r.puts) : InTables(p) \/ p.sector = RootSector
  <2>1. SizedOK(r, o.files, o.dirents, dn)
    BY <1>1, <1>3, <1>4, <1>5, ResizeOK DEF r
  <2> QED
    BY <2>1 DEF SizedOK
<1>7. r.ok /\ ~r.short
  BY <1>3, <1>4, ToNothing DEF r
<1>8. ResizeBefore(o.files, o.dirents, names, u, 0)
  BY <1>3, <1>4, <1>5 DEF ResizeBefore
<1>9. /\ Fits(r, e, o.dirents[dn], 0)
      /\ OpenFiles(mem', r.files, r.dirents, names) /\ OneEach(r.dirents)
  <2>1. ToSet(r.puts) \subseteq ToSet(r.puts)
        /\ \A p \in ToSet(r.puts) : p \in ToSet(r.puts) \/ OfData(p)
    OBVIOUS
  <2> QED
    BY <1>2, <1>3, <1>6, <1>8, <2>1, ResizeFits DEF r
<1>10. OnlyFile(e) /\ SizesTrue(Entries, mem')
  BY <1>7, <1>9 DEF Fits
<1>11. Sound(Entries, mem')
  BY <1>10 DEF Sound, OnlyFile
<1>12. Consistent(mem', file', ao_file_dirent', names)
  BY <1>2, <1>9, <1>11 DEF Consistent
<1>13. KeepsFiles(n)
  <2> SUFFICES ASSUME NEW x \in InUse(Entries, mem), mem[RootSector][x].name # n
               PROVE  FileKept(x) /\ DataKept(x)
    BY DEF KeepsFiles
  <2>1. FileKept(x)
    BY <1>1, <1>10 DEF OnlyFile
  <2>2. \A p \in ToSet(r.puts) : ~OfData(p)
    BY <1>6, DataApart
  <2>3. Long(mem, x) <= NumberCluster
    BY <1>4, ShortFiles
  <2>4. DataKept(x)
    BY <1>2, <1>4, <1>6, <2>2, <2>3, NoData
  <2> QED
    BY <2>1, <2>4
<1>14. GhostsOK'
  <2>1. CacheOK'
    BY <1>2, <1>4, <1>6, CacheChanged
  <2>2. wrote \in [Names -> SUBSET Nat] /\ kept \in [Names -> SUBSET Nat]
    BY <1>4 DEF GhostsOK
  <2>3. wrote' \in [Names -> SUBSET Nat] /\ kept' \in [Names -> SUBSET Nat]
    BY <1>2, <2>2
  <2>4. \A m \in Names : kept'[m] \subseteq kept[m] /\ (m = n => kept'[m] = {})
    BY <1>2, <2>2
  <2>5. \A m \in Names : \A offset \in wrote'[m] : m # n /\ offset \in wrote[m]
    BY <1>2, <2>2
  <2> QED
    BY <1>4, <1>13, <2>1, <2>3, <2>4, <2>5, GhostsAfter
<1> QED
  BY <1>12, <1>14 DEF CallKeeps

(* A file created in a free entry of the directory.                        *)
LEMMA CreatNewKeeps ==
  ASSUME Ready, NEW u \in Users, ~file[u].busy, NEW n \in Names, ~RootFull,
         CreatNew(u, n)
  PROVE  CallKeeps(u, n)
<1> DEFINE e == EntryOf(NoName)
           dent == Dent(n, 0, 0)
           puts == Put(RootSector, e, dent)
           names == [name EXCEPT ![u] = n]
           old == ao_file_dirent
           dirents == [old EXCEPT ![0] = [entry |-> e, size |-> 0, cluster |-> 0]]
           o == OpenAt(u, 0, dirents, old[0].cluster)
<1>1. /\ CacheOK /\ FilesOK /\ DirentsOK /\ UNCHANGED root_entries /\ broken = "no"
      /\ GhostsOK /\ Sound(Entries, mem) /\ root_entries \in Nat
      /\ OpenFiles(mem, file, old, name) /\ OneEach(old)
      /\ name \in [Users -> Named]
  BY DEF Ready, Before, Consistent, FilesOK
<1>2. /\ e \in Entries /\ mem[RootSector][e].name = NoName
      /\ \A x \in Entries : mem[RootSector][x].name = NoName => e <= x
  <2>1. e # root_entries
    BY DEF RootFull
  <2> QED
    BY <1>1, <2>1, EntryOfIs
<1>3. /\ Change(puts) /\ file' = o.files /\ ao_file_dirent' = o.dirents
      /\ broken' = IF old[0] = NoDirent THEN broken ELSE "mixed"
      /\ UNCHANGED <<wrote, kept>>
  BY DEF CreatNew
<1> HIDE DEF e
<1>4. n # NoName /\ dent.name = n /\ dent.size = 0 /\ dent.cluster = 0
  BY FatAssumption DEF Dent
<1>5. /\ puts \in Seq(Cells)
      /\ \A p \in ToSet(puts) : p = Cell(RootSector, e, dent)
      /\ Cell(RootSector, e, dent) \in ToSet(puts)
  <2>1. e \in Keys(RootSector) /\ dent \in Holds(RootSector) /\ RootSector \in FatSectors
    BY <1>2, RootCell DEF Named, Dent, Starts
  <2> QED
    BY <2>1, PutIs
<1>6. e \notin InUse(Entries, mem) /\ 0 .. e - 1 \subseteq InUse(Entries, mem)
  <2>1. ASSUME NEW x \in 0 .. e - 1 PROVE x \in InUse(Entries, mem)
    <3>1. x \in Entries /\ ~(e <= x)
      BY <1>1, <1>2, <2>1 DEF Entries
    <3> QED
      BY <1>2, <3>1 DEF InUse
  <2> QED
    BY <1>2, <2>1 DEF InUse
<1> HIDE DEF puts
<1>7. OnlyFile(e) /\ Long(mem', e) = 0 /\ mem'[RootSector][e] = dent
  <2>1. RootPuts(puts, e, dent)
    BY <1>5 DEF RootPuts
  <2>2. \A p \in ToSet(puts) : p = Cell(RootSector, e, dent) \/ OfData(p)
    BY <1>5
  <2>3. mem'[RootSector][e] = dent
    BY <1>1, <1>2, <1>3, <1>5, <2>1, RootAfter
  <2> HIDE DEF dent
  <2> QED
    BY <1>1, <1>2, <1>3, <1>4, <1>5, <1>6, <2>1, <2>2, <2>3, OnlyRoot
<1>8. SizesTrue(Entries, mem')
  <2>1. Long(mem', e) = ClustersFor(mem'[RootSector][e].size)
    BY <1>4, <1>7, ClustersForIs
  <2> QED
    BY <1>1, <1>2, <1>7, <2>1, SizesAfter DEF Sound
<1>9. Sound(Entries, mem')
  BY <1>7, <1>8 DEF Sound, OnlyFile
<1>10. ASSUME old[0] = NoDirent
       PROVE  OpenFiles(mem', o.files, o.dirents, names) /\ OneEach(o.dirents)
  <2>1. 0 \in Dirents /\ NoDirent.cluster = 0
    BY TwoDirents DEF NoDirent
  <2>2. /\ o.dirents = dirents
        /\ o.files[u].dirent = 0 /\ o.files[u].cluster = 0
        /\ \A v \in Users \ {u} : o.files[v] = file[v]
    BY <1>1, <1>10, <2>1 DEF OpenAt, FilesOK
  <2>3. /\ dirents[0].entry = e /\ dirents[0].size = 0 /\ dirents[0].cluster = 0
        /\ \A c \in Dirents \ {0} : dirents[c] = old[c]
    BY <1>1, <2>1 DEF FilesOK
  <2>4. ASSUME NEW v \in Users \ {u}, file[v].busy
        PROVE  LET d == old[file[v].dirent]
               IN /\ file[v].dirent \in Dirents \ {0} /\ file[v] \in AoFile
                  /\ IsOpen(name[v], file[v], d) /\ d.entry \in InUse(Entries, mem) \ {e}
    <3>1. file[v].dirent \in Dirents /\ old[file[v].dirent] # NoDirent
      BY <2>4, OpenDirent DEF Ready
    <3>2. file[v].dirent # 0
      BY <1>10, <3>1
    <3>3. IsOpen(name[v], file[v], old[file[v].dirent])
      BY <1>1, <2>4, OpenInUse
    <3> QED
      BY <1>1, <1>6, <3>1, <3>2, <3>3 DEF IsOpen, FilesOK
  <2>5. ASSUME NEW v \in Users \ {u}, file[v].busy
        PROVE  name[v] \in Names /\ OpenTrue(mem', name[v], file[v], dirents[file[v].dirent])
    <3> DEFINE d == old[file[v].dirent]
               x == d.entry
    <3>1. /\ dirents[file[v].dirent] = d /\ file[v] \in AoFile
          /\ IsOpen(name[v], file[v], d) /\ x \in InUse(Entries, mem) \ {e}
      BY <2>3, <2>4, <2>5
    <3> HIDE DEF d
    <3>2. FileKept(x) /\ mem'[RootSector][x] = mem[RootSector][x] /\ x \in Entries
      BY <1>7, <3>1 DEF OnlyFile, InUse
    <3>3. /\ First(mem, x) = d.cluster /\ InChain(mem, file[v], d) /\ name[v] \in Names
          /\ mem[RootSector][x] = Dent(name[v], d.size, d.cluster)
      BY <3>1 DEF IsOpen
    <3>4. First(mem', x) = d.cluster
      BY <3>2, <3>3 DEF First
    <3>5. InChain(mem', file[v], d)
      BY <3>1, <3>2, <3>3, <3>4, PlaceKept
    <3> QED
      BY <3>1, <3>2, <3>3, <3>5 DEF OpenTrue
  <2>6. OpenTrue(mem', n, o.files[u], dirents[0])
    BY <1>2, <1>7, <2>2, <2>3 DEF OpenTrue, InChain
  <2>7. \A c \in Dirents : old[c].entry # e
    <3> SUFFICES ASSUME NEW c \in Dirents, old[c].entry = e PROVE FALSE
      OBVIOUS
    <3>1. old[c] # NoDirent
      BY <1>1, <1>2, NoFileTyped
    <3>2. PICK v \in Users : file[v].busy /\ file[v].dirent = c
      BY <1>1, <3>1 DEF DirentsOK, Opening
    <3>3. IsOpen(name[v], file[v], old[c])
      BY <1>1, <3>2, OpenInUse
    <3> QED
      BY <1>6, <3>3 DEF IsOpen
  <2>8. OneEach(o.dirents)
    <3>1. \A a, c \in Dirents :
            a # c /\ old[c].entry \in Entries => old[a].entry # old[c].entry
      BY <1>1 DEF OneEach
    <3>2. \A c \in Dirents : dirents[c].entry = IF c = 0 THEN e ELSE old[c].entry
      BY <2>3
    <3> HIDE DEF dirents
    <3> QED
      BY <2>2, <2>7, <3>1, <3>2 DEF OneEach
  <2>9. names[u] = n /\ \A v \in Users \ {u} : names[v] = name[v]
    BY <1>1
  <2> HIDE DEF names, o, dirents
  <2>10. ASSUME NEW v \in Users, o.files[v].busy
         PROVE  names[v] \in Names
                /\ OpenTrue(mem', names[v], o.files[v], o.dirents[o.files[v].dirent])
    <3>1. CASE v = u
      BY <2>2, <2>6, <2>9, <3>1
    <3>2. CASE v # u
      BY <2>2, <2>5, <2>9, <2>10, <3>2
    <3> QED
      BY <3>1, <3>2
  <2> QED
    BY <2>8, <2>10 DEF OpenFiles
<1>11. broken' = "no" => Consistent(mem', file', ao_file_dirent', names)
  <2>1. broken' = "no" => old[0] = NoDirent
    BY <1>3
  <2> HIDE DEF o
  <2> QED
    BY <1>3, <1>9, <1>10, <2>1 DEF Consistent
<1>12. KeepsFiles(NoName)
  <2> SUFFICES ASSUME NEW x \in InUse(Entries, mem)
               PROVE  FileKept(x) /\ DataKept(x)
    BY DEF KeepsFiles
  <2>1. FileKept(x)
    BY <1>6, <1>7 DEF OnlyFile
  <2>2. \A p \in ToSet(puts) : ~OfData(p)
    <3>1. Cell(RootSector, e, dent).sector = RootSector
      BY DEF Cell
    <3> QED
      BY <1>5, <3>1, RootCell DEF OfData
  <2>3. Long(mem, x) <= NumberCluster
    BY <1>1, ShortFiles
  <2>4. DataKept(x)
    BY <1>1, <1>3, <1>5, <2>2, <2>3, NoData
  <2> QED
    BY <2>1, <2>4
<1>13. GhostsOK'
  <2>1. CacheOK'
    BY <1>1, <1>3, <1>5, CacheChanged
  <2>2. wrote \in [Names -> SUBSET Nat] /\ kept \in [Names -> SUBSET Nat]
        /\ NoName \notin Names
    BY <1>1, FatAssumption DEF GhostsOK
  <2>3. wrote' = wrote /\ kept' = kept
    BY <1>3
  <2> QED
    BY <1>1, <1>12, <2>1, <2>2, <2>3, GhostsAfter
<1> QED
  BY <1>11, <1>13 DEF CallKeeps

-----------------------------------------------------------------------------
(* A write: its data comes after the changes of the table.                 *)
LEMMA AfterAppend ==
  ASSUME NEW S, NEW s \in Seq(S), NEW x \in S, NEW base
  PROVE  FoldLeft(Changed, base, Append(s, x)) =
           Changed(FoldLeft(Changed, base, s), x)
<1> DEFINE t == Append(s, x)
<1>1. /\ t \in Seq(S) /\ Len(s) \in Nat /\ Len(t) = Len(s) + 1
      /\ t[Len(s) + 1] = x /\ \A k \in 1 .. Len(s) : t[k] = s[k]
  OBVIOUS
<1> HIDE DEF t
<1>2. PICK a : Follows(a, s, base) /\ FoldLeft(Changed, base, s) = a[Len(s)]
  BY FoldFollows
<1>3. PICK b : Follows(b, t, base) /\ FoldLeft(Changed, base, t) = b[Len(t)]
  BY <1>1, FoldFollows
<1>4. /\ a[0] = base /\ \A k \in 1 .. Len(s) : a[k] = Changed(a[k - 1], s[k])
      /\ b[0] = base /\ \A k \in 1 .. Len(t) : b[k] = Changed(b[k - 1], t[k])
  BY <1>2, <1>3 DEF Follows
<1> DEFINE P == {k \in Nat : k <= Len(s) => a[k] = b[k]}
<1>5. P = Nat
  <2>1. 0 \in P
    BY <1>4
  <2>2. ASSUME NEW k \in P PROVE k + 1 \in P
    <3>1. k \in Nat
      OBVIOUS
    <3>2. ASSUME k + 1 <= Len(s) PROVE a[k + 1] = b[k + 1]
      <4>1. /\ k + 1 \in 1 .. Len(s) /\ k + 1 \in 1 .. Len(t)
            /\ k <= Len(s) /\ (k + 1) - 1 = k
        BY <1>1, <3>1, <3>2
      <4>2. a[k] = b[k]
        BY <4>1
      <4>3. a[k + 1] = Changed(a[k], s[k + 1]) /\ b[k + 1] = Changed(b[k], t[k + 1])
        BY <1>4, <4>1
      <4> QED
        BY <1>1, <4>1, <4>2, <4>3
    <3> QED
      BY <3>1, <3>2
  <2>3. P \in SUBSET Nat
    OBVIOUS
  <2> HIDE DEF P
  <2> QED
    BY <2>1, <2>2, <2>3, NatSet
<1>6. a[Len(s)] = b[Len(s)]
  <2>1. Len(s) \in P
    BY <1>1, <1>5
  <2> QED
    BY <1>1, <2>1
<1>7. b[Len(t)] = Changed(b[Len(s)], x)
  <2>1. Len(t) \in 1 .. Len(t) /\ Len(t) - 1 = Len(s) /\ t[Len(t)] = x
    BY <1>1
  <2> QED
    BY <1>4, <2>1
<1>8. FoldLeft(Changed, base, t) = Changed(FoldLeft(Changed, base, s), x)
  BY <1>2, <1>3, <1>6, <1>7
<1> QED
  BY <1>8 DEF t

(* The chains are those of the table alone.                                *)
LEMMA ChainsSame ==
  ASSUME NEW store, NEW other,
         \A c \in Clusters : other[FatSector(1, c)][c] = store[FatSector(1, c)][c]
  PROVE  \A c : Chain(other, c) = Chain(store, c)
<1> TAKE c
<1>1. NumberCluster \in 0 .. NumberCluster
  BY Numbers
<1>2. \A i \in 0 .. NumberCluster - 1 :
        LET d == Chain(store, c)[i]
        IN Valid(d) => other[FatSector(1, d)][d] = store[FatSector(1, d)][d]
  BY DEF Valid
<1>3. \A i \in 0 .. NumberCluster : Chain(other, c)[i] = Chain(store, c)[i]
  BY <1>1, <1>2, ChainSame
<1> DEFINE a == Chain(store, c)
           b == Chain(other, c)
<1>4. a = [i \in 0 .. NumberCluster |-> Link(a, store, c, i)]
      /\ b = [i \in 0 .. NumberCluster |-> Link(b, other, c, i)]
  BY ChainIs
<1> HIDE DEF a, b
<1>5. \A i \in 0 .. NumberCluster : b[i] = a[i]
  BY <1>3 DEF a, b
<1>6. a = b
  BY <1>4, <1>5
<1> QED
  BY <1>6 DEF a, b

(* The place of a file is the same before its data is written.             *)
LEMMA PlacedSame ==
  ASSUME CacheOK, NEW puts \in Seq(Cells), NEW c \in Clusters,
         NEW k \in 0 .. PerCluster - 1, NEW v \in Holds(DataSector(c))
  PROVE  LET data == Put(DataSector(c), k, v)
         IN \A f, dirents : Placed(After(puts \o data).mem, f, dirents) =
                              Placed(After(puts).mem, f, dirents)
<1> DEFINE p == Cell(DataSector(c), k, v)
           data == Put(DataSector(c), k, v)
           base == [mem |-> mem, may |-> may]
           a == After(puts)
           b == After(puts \o data)
<1>1. data = <<p>>
  BY DEF Put, Cell
<1>2. p \in Cells
  <2>1. DataSector(c) \in FatSectors /\ k \in Keys(DataSector(c))
    BY DataCell
  <2> QED
    BY <2>1 DEF Cells, Cell
<1> HIDE DEF p
<1>3. puts \o data = Append(puts, p)
  BY <1>1
<1>4. b = Changed(a, p)
  BY <1>2, <1>3, AfterAppend DEF After
<1>5. AfterOK(a, puts)
  BY AfterIs
<1>6. \A d \in Clusters : b.mem[FatSector(1, d)] = a.mem[FatSector(1, d)]
  <2> TAKE d \in Clusters
  <2>1. a.mem = [s \in FatSectors |-> a.mem[s]] /\ FatSector(1, d) \in FatSectors
        /\ FatSector(1, d) # DataSector(c)
    BY <1>5, TableCell DEF AfterOK
  <2>2. p.sector = DataSector(c)
    BY DEF p, Cell
  <2>3. b.mem = [a.mem EXCEPT ![p.sector] = [a.mem[p.sector] EXCEPT ![p.key] = p.value]]
    BY <1>4 DEF Changed
  <2> HIDE DEF a, b
  <2> QED
    BY <2>1, <2>2, <2>3
<1> HIDE DEF a, b
<1>7. \A d : Chain(b.mem, d) = Chain(a.mem, d)
  BY <1>6, ChainsSame
<1>8. \A f, dirents : Placed(b.mem, f, dirents) = Placed(a.mem, f, dirents)
  <2> TAKE f, dirents
  <2> DEFINE again == f.cluster = 0 \/ f.offset < f.cluster_offset
             from == IF again THEN dirents[f.dirent].cluster ELSE f.cluster
             passed == IF again THEN 0 ELSE f.cluster_offset \div PerCluster
             i == f.offset \div PerCluster - passed
             Place(to) ==
               IF Valid(to)
               THEN [f EXCEPT !.cluster = to,
                              !.cluster_offset = PerCluster * (f.offset \div PerCluster)]
               ELSE [f EXCEPT !.cluster = from, !.cluster_offset = PerCluster * passed]
  <2>1. \A store : Placed(store, f, dirents) = Place(Chain(store, from)[i])
    BY DEF Placed
  <2>2. Chain(b.mem, from) = Chain(a.mem, from)
    BY <1>7
  <2> HIDE DEF from, i, Place
  <2> QED
    BY <2>1, <2>2
<1> QED
  BY <1>8 DEF a, b

(* The changes of a write in the table and the directory, to which what it *)
(* writes comes on top.                                                    *)
GrowsTrue(u, r) ==
  LET dn == file[u].dirent
      e == ao_file_dirent[dn].entry
  IN /\ dn \in Dirents /\ e \in InUse(Entries, mem) /\ file[u] \in AoFile
     /\ mem[RootSector][e].name = name[u] /\ name[u] \in Names
     /\ r.files = file /\ r.dirents \in [Dirents -> AoDirent]
     /\ r.dirents[dn].entry = e
     /\ OpenFiles(mem', file, r.dirents, name) /\ OneEach(r.dirents)
     /\ Apart(Entries, mem') /\ InUse(Entries, mem') = InUse(Entries, mem)
     /\ r.short \/ Sound(Entries, mem')
     /\ \A x \in InUse(Entries, mem) : FileKept(x)
     /\ r.ok => /\ file[u].offset \div PerCluster <= NumberCluster
                /\ file[u].offset < r.dirents[dn].size

(* The size that ao_fat_write sets, with any data on top of it, keeps the  *)
(* files true.                                                             *)
LEMMA GrowsKeeps ==
  ASSUME Ready, NEW u \in Users, file[u].busy, NEW puts \in Seq(Cells), Change(puts),
         ToSet(Grows(u).puts) \subseteq ToSet(puts),
         \A p \in ToSet(puts) : p \in ToSet(Grows(u).puts) \/ OfData(p)
  PROVE  GrowsTrue(u, Grows(u))
<1> DEFINE size == WriteSize(u)
           dn == file[u].dirent
           d == ao_file_dirent[dn]
           e == d.entry
           r == Grows(u)
           t == InTable(file[u], d, size)
           first == IF FromHere(file[u], size) THEN d.cluster ELSE t.first
<1>1. /\ CacheOK /\ FilesOK /\ DirentsOK /\ UNCHANGED root_entries
      /\ Sound(Entries, mem) /\ OpenFiles(mem, file, ao_file_dirent, name)
      /\ OneEach(ao_file_dirent)
      /\ file \in [Users -> AoFile] /\ ao_file_dirent \in [Dirents -> AoDirent]
  BY DEF Ready, Before, Consistent, FilesOK
<1>2. dn \in Dirents /\ e \in Entries /\ d \in AoDirent /\ file[u] \in AoFile
  BY <1>1, OpenDirent DEF Ready
<1>3. file[u].offset \in Nat /\ d.size \in Nat
  BY <1>2 DEF AoFile, AoDirent
<1>4. size \in Nat /\ size >= d.size /\ size > file[u].offset /\ size # 0
  BY <1>3 DEF WriteSize, AtEnd
<1>5. /\ r = Resize(file, ao_file_dirent, u, size)
      /\ SizedOK(r, file, ao_file_dirent, dn)
  BY <1>1, GrowsIs
<1>6. ResizeBefore(file, ao_file_dirent, name, u, size)
  BY <1>1, <1>4 DEF ResizeBefore
<1>7. /\ mem[RootSector][e].name = name[u] /\ e \in InUse(Entries, mem)
      /\ name[u] \in Names
  <2>1. IsOpen(name[u], file[u], d)
    BY <1>1, OpenInUse
  <2> QED
    BY <2>1 DEF IsOpen
<1> HIDE DEF size, r, t, first
<1>8. /\ Fits(r, e, d, size)
      /\ OpenFiles(mem', r.files, r.dirents, name) /\ OneEach(r.dirents)
      /\ r.ok => r.dirents[dn].size = size
  BY <1>5, <1>6, ResizeFits DEF r
<1>9. /\ OnlyFile(e) /\ FileKept(e)
      /\ r.short \/ SizesTrue(Entries, mem')
      /\ r.ok => ClustersFor(size) <= NumberCluster
  BY <1>4, <1>8 DEF Fits
<1>10. r.files = file
  <2>1. Resized(r, t, file, ao_file_dirent, dn, size, first)
    BY <1>1, <1>2, <1>4, <1>5, ResizeIs DEF t, first
  <2>2. ~(ClustersFor(d.size) > ClustersFor(size))
    <3>1. /\ ClustersFor(d.size) \in Nat /\ ClustersFor(size) \in Nat
          /\ ClustersFor(d.size) <= ClustersFor(size)
      BY <1>3, <1>4, ClustersForIs
    <3> QED
      BY <3>1
  <2> QED
    BY <2>1, <2>2 DEF Resized
<1>11. r.dirents \in [Dirents -> AoDirent] /\ r.dirents[dn].entry = e
  BY <1>2, <1>5 DEF SizedOK
<1>12. /\ Apart(Entries, mem') /\ InUse(Entries, mem') = InUse(Entries, mem)
       /\ r.short \/ Sound(Entries, mem')
  BY <1>7, <1>9 DEF OnlyFile, Sound
<1>13. \A x \in InUse(Entries, mem) : FileKept(x)
  BY <1>9 DEF OnlyFile
<1>14. r.ok => /\ file[u].offset \div PerCluster <= NumberCluster
               /\ file[u].offset < r.dirents[dn].size
  <2>1. /\ ClustersFor(size) > file[u].offset \div PerCluster
        /\ file[u].offset \div PerCluster \in Nat
    BY <1>3, <1>4, ClustersPassed
  <2>2. ClustersFor(size) \in Nat /\ NumberCluster \in Nat
    BY <1>4, ClustersForIs, Numbers
  <2> QED
    BY <1>4, <1>8, <1>9, <2>1, <2>2
<1>15. GrowsTrue(u, r)
  BY <1>2, <1>7, <1>8, <1>10, <1>11, <1>12, <1>13, <1>14 DEF GrowsTrue
<1> QED
  BY <1>15 DEF r

(* A file that moves in its chain stays true.                              *)
LEMMA PlaceTrue ==
  ASSUME NEW store, NEW files, files = [v \in Users |-> files[v]], NEW dirents, NEW names,
         OpenFiles(store, files, dirents, names), NEW u \in Users, files[u].busy, NEW g,
         InChain(store, g, dirents[files[u].dirent]),
         g.busy = files[u].busy, g.dirent = files[u].dirent
  PROVE  OpenFiles(store, [files EXCEPT ![u] = g], dirents, names)
<1> DEFINE after == [files EXCEPT ![u] = g]
<1>1. after[u] = g /\ \A v \in Users \ {u} : after[v] = files[v]
  OBVIOUS
<1>2. names[u] \in Names /\ OpenTrue(store, names[u], files[u], dirents[files[u].dirent])
  BY DEF OpenFiles
<1>3. OpenTrue(store, names[u], g, dirents[files[u].dirent])
  BY <1>2 DEF OpenTrue
<1> HIDE DEF after
<1>4. ASSUME NEW v \in Users, after[v].busy
      PROVE  names[v] \in Names
             /\ OpenTrue(store, names[v], after[v], dirents[after[v].dirent])
  <2>1. CASE v = u
    BY <1>1, <1>2, <1>3, <2>1
  <2>2. CASE v # u
    <3>1. after[v] = files[v]
      BY <1>1, <2>2
    <3> QED
      BY <1>4, <3>1 DEF OpenFiles
  <2> QED
    BY <2>1, <2>2
<1>5. OpenFiles(store, after, dirents, names)
  BY <1>4 DEF OpenFiles
<1> QED
  BY <1>5 DEF after

(* A write that writes no data keeps all.                                  *)
LEMMA NoDataKeeps ==
  ASSUME Ready, NEW puts \in Seq(Cells), Change(puts),
         \A p \in ToSet(puts) : ~OfData(p),
         \A x \in InUse(Entries, mem) : FileKept(x),
         UNCHANGED <<wrote, kept>>
  PROVE  GhostsOK'
<1>1. /\ CacheOK /\ UNCHANGED root_entries /\ broken = "no" /\ GhostsOK
      /\ Sound(Entries, mem)
  BY DEF Ready, Before, Consistent
<1>2. CacheOK'
  BY <1>1, CacheChanged
<1>3. KeepsFiles(NoName)
  <2> SUFFICES ASSUME NEW x \in InUse(Entries, mem)
               PROVE  FileKept(x) /\ DataKept(x)
    BY DEF KeepsFiles
  <2>1. Long(mem, x) <= NumberCluster
    BY <1>1, ShortFiles
  <2> QED
    BY <1>1, <2>1, NoData
<1>4. wrote \in [Names -> SUBSET Nat] /\ kept \in [Names -> SUBSET Nat]
      /\ NoName \notin Names
  BY <1>1, FatAssumption DEF GhostsOK
<1>5. wrote' = wrote /\ kept' = kept
  OBVIOUS
<1> QED
  BY <1>1, <1>2, <1>3, <1>4, <1>5, GhostsAfter

(* A cell of a cluster is written with what belongs there, or not at all.  *)
LEMMA DataWritten ==
  ASSUME CacheOK, NEW puts \in Seq(Cells), Change(puts), UNCHANGED root_entries,
         NEW c \in Clusters, NEW k \in 0 .. PerCluster - 1, NEW v,
         \A p \in ToSet(puts) : p.sector = DataSector(c) /\ p.key = k => p.value = v
  PROVE  LET s == DataSector(c)
             here == {mem[s][k], v}
         IN mem'[s][k] \in here /\ \A y \in may'[s] \ may[s] : y[k] \in here
<1> DEFINE a == [mem |-> mem', may |-> may']
           s == DataSector(c)
<1>1. AfterOK(a, puts)
  BY CacheChanged
<1>2. s \in FatSectors /\ k \in Keys(s)
  BY DataCell
<1>3. Written(puts, s, k) \subseteq {v}
  BY DEF Written
<1> HIDE DEF s, a
<1>4. a.mem[s][k] \in Written(puts, s, k) \union {mem[s][k]}
  BY <1>1, <1>2 DEF AfterOK
<1>5. \A y \in a.may[s] \ may[s] : y[k] \in Written(puts, s, k) \union {mem[s][k]}
  BY <1>1, <1>2 DEF AfterOK
<1>6. a.mem[s][k] \in {mem[s][k], v} /\ \A y \in a.may[s] \ may[s] : y[k] \in {mem[s][k], v}
  BY <1>3, <1>4, <1>5
<1> QED
  BY <1>6 DEF a, s

(* The data of a write, in the cluster that the file has for it.           *)
DataOf(puts, r, c, k, v) ==
  /\ \A p \in ToSet(puts) : p \in ToSet(r.puts) \/ p = Cell(DataSector(c), k, v)
  /\ Cell(DataSector(c), k, v) \in ToSet(puts)
  /\ \A p \in ToSet(r.puts) : ~OfData(p)

(* The data of a write is in a cluster of its own file, so that the other  *)
(* files keep theirs and this file what it had.                            *)
LEMMA OwnData ==
  ASSUME Ready, NEW u \in Users, NEW r, GrowsTrue(u, r),
         NEW puts \in Seq(Cells), Change(puts), NEW i \in 0 .. NumberCluster,
         NEW k \in 0 .. PerCluster - 1,
         LET e == ao_file_dirent[file[u].dirent].entry
         IN /\ i < Long(mem', e)
            /\ DataOf(puts, r, Way(mem', e)[i], k, Mark(name[u], PerCluster * i + k)),
         NEW x \in InUse(Entries, mem)
  PROVE  DataKept(x)
<1> DEFINE e == ao_file_dirent[file[u].dirent].entry
           v == Mark(name[u], PerCluster * i + k)
           c == Way(mem', e)[i]
<1>1. /\ CacheOK /\ UNCHANGED root_entries /\ Sound(Entries, mem)
  BY DEF Ready, Before, Consistent
<1>2. /\ e \in InUse(Entries, mem) /\ mem[RootSector][e].name = name[u]
      /\ Apart(Entries, mem') /\ InUse(Entries, mem') = InUse(Entries, mem)
      /\ FileKept(x)
  BY DEF GrowsTrue
<1>3. i < Long(mem', e) /\ DataOf(puts, r, c, k, v)
  OBVIOUS
<1>4. Long(mem, x) \in Nat /\ Long(mem, x) <= NumberCluster /\ NumberCluster \in Nat
      /\ Long(mem', x) \in Nat /\ Long(mem', e) \in Nat
  BY <1>1, ShortFiles, UsedIn, Numbers
<1>5. i \in 0 .. Long(mem', e) - 1
  BY <1>3, <1>4
<1> SUFFICES ASSUME NEW j \in 0 .. Long(mem, x) - 1, NEW m \in 0 .. PerCluster - 1
             PROVE  LET s == DataSector(Way(mem, x)[j])
                        here == {mem[s][m], Mark(mem[RootSector][x].name, PerCluster * j + m)}
                    IN mem'[s][m] \in here /\ \A y \in may'[s] \ may[s] : y[m] \in here
  BY DEF DataKept
<1> DEFINE d == Way(mem, x)[j]
           w == Mark(mem[RootSector][x].name, PerCluster * j + m)
<1>6. d \in Clusters
  <2>1. j \in 0 .. NumberCluster /\ j < Long(mem, x)
    BY <1>4
  <2> QED
    BY <2>1, UsedIn DEF Valid
<1>7. ASSUME d = c PROVE x = e /\ j = i
  <2>1. Way(mem', x)[j] = d /\ j \in 0 .. Long(mem', x) - 1
    <3>1. Way(mem', x)[j] = d /\ Long(mem', x) >= Long(mem, x)
      BY <1>2 DEF FileKept
    <3> QED
      BY <1>4, <3>1
  <2>2. d \in Used(mem', x) /\ d \in Used(mem', e)
    BY <1>5, <1>7, <2>1, UsedIn
  <2>3. x = e
    BY <1>2, <2>2 DEF Apart
  <2>4. Length(mem', First(mem', e)) <= NumberCluster
    BY <1>2 DEF Apart, Ends, Long
  <2>5. j = i
    <3>1. /\ i \in 0 .. Length(mem', First(mem', e)) - 1
          /\ j \in 0 .. Length(mem', First(mem', e)) - 1
          /\ Chain(mem', First(mem', e))[j] = Chain(mem', First(mem', e))[i]
      BY <1>5, <1>7, <2>1, <2>3 DEF Long, Way
    <3> QED
      BY <2>4, <3>1, OnceOnly
  <2> QED
    BY <2>3, <2>5
<1> HIDE DEF c, d
<1>8. \A p \in ToSet(puts) : p.sector = DataSector(d) /\ p.key = m => p.value = w
  <2> SUFFICES ASSUME NEW p \in ToSet(puts), p.sector = DataSector(d), p.key = m
               PROVE  p.value = w
    OBVIOUS
  <2>1. p = Cell(DataSector(c), k, v)
    BY <1>3 DEF DataOf, OfData
  <2>2. DataSector(c) = DataSector(d) /\ k = m /\ p.value = v
    <3> HIDE DEF v
    <3> QED
      BY <2>1, OneCell
  <2>3. c = d
    BY <1>6, <2>2, DataCell
  <2>4. x = e /\ j = i
    BY <1>7, <2>3
  <2> QED
    BY <1>2, <2>2, <2>4
<1>9. LET s == DataSector(d)
          here == {mem[s][m], w}
      IN mem'[s][m] \in here /\ \A y \in may'[s] \ may[s] : y[m] \in here
  <2> HIDE DEF w
  <2> QED
    BY <1>1, <1>6, <1>8, DataWritten
<1> QED
  BY <1>9 DEF d

(* A cell of data that is put is there after the write.                    *)
LEMMA DataThere ==
  ASSUME CacheOK, NEW puts \in Seq(Cells), Change(puts), UNCHANGED root_entries,
         NEW r, NEW c \in Clusters, NEW k \in 0 .. PerCluster - 1, NEW v,
         DataOf(puts, r, c, k, v)
  PROVE  mem'[DataSector(c)][k] = v
<1> DEFINE a == [mem |-> mem', may |-> may']
           s == DataSector(c)
<1>1. AfterOK(a, puts)
  BY CacheChanged
<1>2. s \in FatSectors /\ k \in Keys(s)
  BY DataCell
<1>3. Cell(s, k, v) \in ToSet(puts)
  BY DEF DataOf
<1>4. \A p \in ToSet(puts) : p.sector = s /\ p.key = k => p.value = v
  BY OneCell DEF DataOf, OfData
<1> HIDE DEF s, a
<1>5. a.mem[s][k] = v
  BY <1>1, <1>2, <1>3, <1>4, NewCell
<1> QED
  BY <1>5 DEF a, s

(* The place of a file in a table in which it has grown.                   *)
PlaceIn(u, r, f) ==
  LET dn == file[u].dirent
      e == ao_file_dirent[dn].entry
      i == file[u].offset \div PerCluster
  IN /\ InChain(mem', f, r.dirents[dn])
     /\ f \in AoFile /\ f.busy = file[u].busy /\ f.dirent = dn
     /\ f.offset = file[u].offset /\ i \in 0 .. NumberCluster
     /\ OnCluster(f) => i < Long(mem', e) /\ f.cluster = Way(mem', e)[i]
     /\ e \in Entries /\ mem'[RootSector][e].name = name[u]
     /\ file[u].offset < mem'[RootSector][e].size

(* A write that got its cluster finds the place of its offset.             *)
LEMMA PlaceFound ==
  ASSUME Ready, NEW u \in Users, file[u].busy, NEW r, GrowsTrue(u, r), r.ok
  PROVE  PlaceIn(u, r, Placed(mem', file[u], r.dirents))
<1> DEFINE dn == file[u].dirent
           e == ao_file_dirent[dn].entry
           i == file[u].offset \div PerCluster
           f == Placed(mem', file[u], r.dirents)
           d == r.dirents[dn]
<1>1. /\ OpenFiles(mem', file, r.dirents, name) /\ file[u] \in AoFile /\ d.entry = e
      /\ i <= NumberCluster /\ file[u].offset < d.size
      /\ r.dirents \in [Dirents -> AoDirent]
  BY DEF GrowsTrue
<1>2. file[u].offset \in Nat /\ i \in Nat /\ i \in 0 .. NumberCluster
  <2>1. file[u].offset \in Nat
    BY <1>1 DEF AoFile
  <2>2. i \in Nat
    BY <2>1, PlaceOf
  <2> QED
    BY <1>1, <2>1, <2>2, Numbers
<1>3. OpenTrue(mem', name[u], file[u], d)
  BY <1>1 DEF OpenFiles
<1>4. /\ e \in Entries /\ mem'[RootSector][e] = Dent(name[u], d.size, d.cluster)
      /\ InChain(mem', file[u], d)
  BY <1>1, <1>3 DEF OpenTrue
<1>5. /\ mem'[RootSector][e].name = name[u] /\ mem'[RootSector][e].size = d.size
      /\ First(mem', e) = d.cluster
  BY <1>4, DentIs DEF First
<1>6. /\ InChain(mem', f, d)
      /\ i < Length(mem', d.cluster) => OnCluster(f) /\ f.cluster = Chain(mem', d.cluster)[i]
      /\ i >= Length(mem', d.cluster) => ~OnCluster(f)
  <2> HIDE DEF d
  <2>1. InChain(mem', file[u], r.dirents[file[u].dirent])
    BY <1>4 DEF d
  <2> QED
    BY <1>1, <2>1, PlacedTrue DEF d
<1>7. f \in AoFile /\ f.busy = file[u].busy /\ f.dirent = dn /\ f.offset = file[u].offset
  <2>1. \A store : \A g \in AoFile :
          LET h == Placed(store, g, r.dirents)
          IN h \in AoFile /\ h.busy = g.busy /\ h.dirent = g.dirent
             /\ h.offset = g.offset
    BY <1>1, PlacedIs
  <2> QED
    BY <1>1, <2>1
<1>8. OnCluster(f) => i < Long(mem', e) /\ f.cluster = Way(mem', e)[i]
  <2>1. Long(mem', e) = Length(mem', d.cluster) /\ Way(mem', e) = Chain(mem', d.cluster)
        /\ Long(mem', e) \in Nat
    BY <1>5, UsedIn DEF Long, Way
  <2> HIDE DEF f, d
  <2> QED
    BY <1>2, <1>6, <2>1
<1> HIDE DEF f
<1>9. PlaceIn(u, r, f)
  BY <1>1, <1>2, <1>4, <1>5, <1>6, <1>7, <1>8 DEF PlaceIn
<1> QED
  BY <1>9 DEF f

(* A task that keeps its name.                                             *)
LEMMA SameNames ==
  ASSUME name \in [Users -> Named], NEW u \in Users
  PROVE  [name EXCEPT ![u] = name[u]] = name
OBVIOUS

(* A write that is refused or that finds no cluster.                       *)
LEMMA NotWrittenKeeps ==
  ASSUME Ready, NEW u \in Users, file[u].busy, NEW r, r = Grows(u),
         Change(r.puts), ao_file_dirent' = r.dirents, UNCHANGED <<wrote, kept>>,
         broken' = IF r.short THEN "short" ELSE broken,
         \/ file' = r.files
         \/ r.ok /\ file' = [r.files EXCEPT ![u] = Placed(mem', file[u], r.dirents)]
  PROVE  CallKeeps(u, name[u])
<1>1. /\ CacheOK /\ FilesOK /\ DirentsOK /\ name \in [Users -> Named]
      /\ file = [v \in Users |-> file[v]]
  BY DEF Ready, Before, FilesOK
<1>2. r.puts \in Seq(Cells)
      /\ \A p \in ToSet(r.puts) : InTables(p) \/ p.sector = RootSector
  <2>1. SizedOK(r, file, ao_file_dirent, file[u].dirent)
    BY <1>1, GrowsIs
  <2> QED
    BY <2>1 DEF SizedOK
<1>3. GrowsTrue(u, r)
  BY <1>2, GrowsKeeps
<1>4. /\ OpenFiles(mem', file, r.dirents, name) /\ OneEach(r.dirents) /\ r.files = file
      /\ r.short \/ Sound(Entries, mem')
      /\ \A x \in InUse(Entries, mem) : FileKept(x)
  BY <1>3 DEF GrowsTrue
<1>5. OpenFiles(mem', file', r.dirents, name)
  <2>1. CASE file' = r.files
    BY <1>4, <2>1
  <2>2. CASE r.ok /\ file' = [r.files EXCEPT ![u] = Placed(mem', file[u], r.dirents)]
    <3> DEFINE f == Placed(mem', file[u], r.dirents)
    <3>1. PlaceIn(u, r, f)
      BY <1>3, <2>2, PlaceFound
    <3> HIDE DEF f
    <3>2. InChain(mem', f, r.dirents[file[u].dirent]) /\ f.busy = file[u].busy
          /\ f.dirent = file[u].dirent
      BY <3>1 DEF PlaceIn
    <3>3. OpenFiles(mem', file, r.dirents, name) 
          /\ file[u].busy /\ file = [v \in Users |-> file[v]]
      BY <1>1, <1>4
    <3>4. OpenFiles(mem', [file EXCEPT ![u] = f], r.dirents, name)
      BY <3>2, <3>3, PlaceTrue
    <3> QED
      BY <1>4, <2>2, <3>4 DEF f
  <2> QED
    BY <2>1, <2>2
<1>6. broken' = "no" => Consistent(mem', file', ao_file_dirent', name)
  <2>1. broken' = "no" => Sound(Entries, mem')
    BY <1>4
  <2> QED
    BY <1>4, <1>5, <2>1 DEF Consistent
<1>7. GhostsOK'
  <2>1. \A p \in ToSet(r.puts) : ~OfData(p)
    BY <1>2, DataApart
  <2> QED
    BY <1>2, <1>4, <2>1, NoDataKeeps
<1> QED
  BY <1>1, <1>6, <1>7, SameNames DEF CallKeeps

(* A write that puts its data keeps what was written and adds to it.       *)
LEMMA WrittenKeeps ==
  ASSUME Ready, NEW u \in Users, file[u].busy, NEW r, r = Grows(u),
         NEW f, f = Placed(After(r.puts).mem, file[u], r.dirents),
         WriteDone(u, r, f), ao_file_dirent' = r.dirents, UNCHANGED kept,
         broken' = IF r.short THEN "short" ELSE broken
  PROVE  CallKeeps(u, name[u])
<1> DEFINE dn == file[u].dirent
           e == ao_file_dirent[dn].entry
           n == name[u]
           offset == file[u].offset
           i == offset \div PerCluster
           k == offset % PerCluster
           c == f.cluster
           v == Mark(n, offset)
           data == Put(DataSector(c), k, v)
           puts == r.puts \o data
           g == [f EXCEPT !.offset = @ + 1]
<1>1. /\ CacheOK /\ FilesOK /\ DirentsOK /\ name \in [Users -> Named]
      /\ GhostsOK /\ broken = "no" /\ UNCHANGED root_entries /\ Sound(Entries, mem)
      /\ OpenFiles(mem, file, ao_file_dirent, name)
      /\ file[u] \in AoFile /\ offset \in Nat
  BY DEF Ready, Before, Consistent, FilesOK, AoFile
<1>2. /\ r.puts \in Seq(Cells)
      /\ \A p \in ToSet(r.puts) : InTables(p) \/ p.sector = RootSector
      /\ r.dirents \in [Dirents -> AoDirent]
  <2>1. SizedOK(r, file, ao_file_dirent, file[u].dirent)
    BY <1>1, GrowsIs
  <2> QED
    BY <2>1 DEF SizedOK
<1>3. f \in AoFile /\ f.offset = offset /\ f.busy = file[u].busy /\ f.dirent = dn
  <2>1. \A store : \A h \in AoFile :
          LET q == Placed(store, h, r.dirents)
          IN q \in AoFile /\ q.busy = h.busy /\ q.dirent = h.dirent
             /\ q.offset = h.offset
    BY <1>2, PlacedIs
  <2> QED
    BY <1>1, <2>1
<1>4. r.ok /\ OnCluster(f) /\ c \in Clusters
  BY DEF WriteDone, OnCluster, Valid
<1>5. /\ i \in Nat /\ k \in 0 .. PerCluster - 1 /\ offset = PerCluster * i + k
      /\ v = Mark(n, PerCluster * i + k)
  BY <1>1, PlaceOf
<1>6. v \in Holds(DataSector(c)) /\ n \in Named /\ n \in Names
  <2>1. n \in Named
    BY <1>1
  <2>2. Holds(DataSector(c)) = Named \X Nat
    BY <1>4, DataCell
  <2>3. n \in Names
    BY <1>1 DEF OpenFiles
  <2> QED
    BY <1>1, <2>1, <2>2, <2>3 DEF Mark
<1>7. /\ Change(puts) /\ file' = [r.files EXCEPT ![u] = g]
      /\ wrote' = [wrote EXCEPT ![n] = @ \union {offset}]
  BY <1>3 DEF WriteDone, Resizing
<1>8. f = Placed(mem', file[u], r.dirents)
  <2>1. \A h, dirents : Placed(After(puts).mem, h, dirents) =
                          Placed(After(r.puts).mem, h, dirents)
    <3> HIDE DEF v, k, c
    <3> QED
      BY <1>1, <1>2, <1>4, <1>5, <1>6, PlacedSame
  <2>2. mem' = After(puts).mem
    BY <1>7 DEF Change
  <2> QED
    BY <2>1, <2>2
<1> HIDE DEF v
<1>9. /\ data \in Seq(Cells) /\ \A x : x \in ToSet(data) <=> x = Cell(DataSector(c), k, v)
  <2>1. DataSector(c) \in FatSectors /\ k \in Keys(DataSector(c))
    BY <1>4, <1>5, DataCell
  <2> HIDE DEF k, c
  <2>2. data \in Seq(Cells) /\ ToSet(data) = {Cell(DataSector(c), k, v)}
    BY <1>6, <2>1, PutIs
  <2> QED
    BY <2>2
<1> HIDE DEF data
<1>10. /\ puts \in Seq(Cells)
       /\ \A x : x \in ToSet(puts) <=>
                 x \in ToSet(r.puts) \/ x = Cell(DataSector(c), k, v)
  BY <1>2, <1>9, ConcatSet
<1> HIDE DEF puts, c, k
<1>11. DataOf(puts, r, c, k, v)
  BY <1>2, <1>10, DataApart DEF DataOf
<1>12. GrowsTrue(u, r)
  <2>1. OfData(Cell(DataSector(c), k, v))
    <3> DEFINE q == Cell(DataSector(c), k, v)
    <3>1. q.sector = DataSector(c)
      BY OneCell
    <3> HIDE DEF q
    <3>2. OfData(q)
      BY <3>1 DEF OfData
    <3> QED
      BY <3>2 DEF q
  <2> QED
    BY <1>7, <1>10, <2>1, GrowsKeeps
<1>13. PlaceIn(u, r, f)
  BY <1>4, <1>8, <1>12, PlaceFound
<1>14. /\ InChain(mem', f, r.dirents[dn]) /\ i \in 0 .. NumberCluster
       /\ i < Long(mem', e) /\ c = Way(mem', e)[i]
       /\ e \in Entries /\ mem'[RootSector][e].name = n
       /\ offset < mem'[RootSector][e].size
  BY <1>4, <1>13 DEF PlaceIn, c
<1>15. OpenFiles(mem', file', r.dirents, name)
  <2>1. g.busy = file[u].busy /\ g.dirent = file[u].dirent /\ g.cluster = f.cluster
        /\ g.cluster_offset = f.cluster_offset
    BY <1>3 DEF AoFile
  <2> HIDE DEF g
  <2>2. InChain(mem', g, r.dirents[file[u].dirent])
    BY <1>14, <2>1 DEF InChain, Passed
  <2>3. OpenFiles(mem', file, r.dirents, name) /\ r.files = file
    BY <1>12 DEF GrowsTrue
  <2>4. file = [w \in Users |-> file[w]]
    BY <1>1 DEF FilesOK
  <2>5. u \in Users /\ file[u].busy
    BY <1>1
  <2>6. OpenFiles(mem', [file EXCEPT ![u] = g], r.dirents, name)
    BY ONLY <2>1, <2>2, <2>3, <2>4, <2>5, PlaceTrue
  <2> QED
    BY <1>7, <2>3, <2>6
<1>16. broken' = "no" => Consistent(mem', file', ao_file_dirent', name)
  <2>1. OneEach(r.dirents) /\ (r.short \/ Sound(Entries, mem'))
    BY <1>12 DEF GrowsTrue
  <2>2. broken' = "no" => ~r.short
    OBVIOUS
  <2> QED
    BY <1>15, <2>1, <2>2 DEF Consistent
<1>17. KeepsFiles(NoName)
  <2> SUFFICES ASSUME NEW x \in InUse(Entries, mem)
               PROVE  FileKept(x) /\ DataKept(x)
    BY DEF KeepsFiles
  <2>1. FileKept(x)
    BY <1>12 DEF GrowsTrue
  <2>2. DataOf(puts, r, Way(mem', e)[i], k, Mark(n, PerCluster * i + k))
    BY <1>5, <1>11, <1>14
  <2>3. DataKept(x)
    <3> HIDE DEF i
    <3> QED
      BY <1>5, <1>7, <1>10, <1>12, <1>14, <2>2, OwnData
  <2> QED
    BY <2>1, <2>3
<1>18. Has(mem', e, n, offset)
  <2>1. mem'[DataSector(c)][k] = v
    BY <1>1, <1>4, <1>5, <1>7, <1>10, <1>11, DataThere
  <2> QED
    BY <1>14, <2>1 DEF Has, k, v
<1>19. GhostsOK'
  <2>1. CacheOK'
    BY <1>1, <1>7, <1>10, CacheChanged
  <2>2. wrote \in [Names -> SUBSET Nat] /\ kept \in [Names -> SUBSET Nat]
        /\ NoName \notin Names
    BY <1>1, FatAssumption DEF GhostsOK
  <2>3. wrote' \in [Names -> SUBSET Nat] /\ kept' = kept
    BY <1>1, <1>6, <1>7, <2>2
  <2>4. \A m \in Names : \A o \in wrote'[m] :
          \/ m # NoName /\ o \in wrote[m]
          \/ \E x \in Entries : Has(mem', x, m, o)
    <3> SUFFICES ASSUME NEW m \in Names, NEW o \in wrote'[m]
                 PROVE  o \in wrote[m] \/ \E x \in Entries : Has(mem', x, m, o)
      BY <2>2
    <3>1. o \in wrote[m] \/ (m = n /\ o = offset)
      BY <1>7, <2>2
    <3> QED
      BY <1>14, <1>18, <3>1
  <2> QED
    BY <1>1, <1>17, <2>1, <2>2, <2>3, <2>4, GhostsAfter
<1> QED
  BY <1>1, <1>16, <1>19, SameNames DEF CallKeeps

(* ao_fat_write keeps all.                                                 *)
LEMMA WriteKeeps ==
  ASSUME Ready, NEW u \in Users, file[u].busy, ao_fat_write(u)
  PROVE  CallKeeps(u, name[u])
<1> DEFINE r == Grows(u)
           f == Placed(After(r.puts).mem, file[u], r.dirents)
<1>1. /\ \/ WriteRefused(r) \/ WriteDone(u, r, f) \/ WriteLost(u, r, f)
      /\ broken' = IF r.short THEN "short" ELSE broken
      /\ UNCHANGED kept
  BY DEF ao_fat_write
<1>2. CASE WriteDone(u, r, f)
  <2>1. ao_file_dirent' = r.dirents
    BY <1>2 DEF WriteDone, Resizing
  <2> HIDE DEF r, f
  <2>2. r = Grows(u) /\ f = Placed(After(r.puts).mem, file[u], r.dirents)
    BY DEF r, f
  <2> QED
    BY <1>1, <1>2, <2>1, <2>2, WrittenKeeps
<1>3. CASE WriteRefused(r)
  <2>1. /\ Change(r.puts) /\ ao_file_dirent' = r.dirents /\ UNCHANGED <<wrote, kept>>
        /\ file' = r.files
    BY <1>1, <1>3 DEF WriteRefused, Resizing
  <2> HIDE DEF r, f
  <2>2. r = Grows(u)
    BY DEF r
  <2> QED
    BY <1>1, <2>1, <2>2, NotWrittenKeeps
<1>4. CASE WriteLost(u, r, f)
  <2>1. /\ Change(r.puts) /\ ao_file_dirent' = r.dirents /\ UNCHANGED <<wrote, kept>>
        /\ r.ok /\ file' = [r.files EXCEPT ![u] = f]
    BY <1>1, <1>4 DEF WriteLost, Resizing
  <2>2. f = Placed(mem', file[u], r.dirents)
    BY <2>1 DEF Change
  <2> HIDE DEF r, f
  <2>3. r = Grows(u)
    BY DEF r
  <2> QED
    BY <1>1, <2>1, <2>2, <2>3, NotWrittenKeeps
<1> QED
  BY <1>1, <1>2, <1>3, <1>4

-----------------------------------------------------------------------------
(* The calls that write nothing.                                           *)
LEMMA QuietKeeps ==
  ASSUME Ready, NEW u \in Users, NEW n, UNCHANGED <<cacheVars, wrote, kept, broken>>,
         OpenFiles(mem, file', ao_file_dirent', [name EXCEPT ![u] = n]),
         OneEach(ao_file_dirent')
  PROVE  CallKeeps(u, n)
<1>1. UNCHANGED root_entries /\ GhostsOK /\ Sound(Entries, mem)
  BY DEF Ready, Before, Consistent
<1>2. mem' = mem
  BY DEF cacheVars
<1>3. GhostsOK'
  BY <1>1, GhostsSame
<1>4. Consistent(mem', file', ao_file_dirent', [name EXCEPT ![u] = n])
  BY <1>1, <1>2 DEF Consistent
<1> QED
  BY <1>3, <1>4 DEF CallKeeps

(* The file of the user moves.                                             *)
LEMMA MovesKeeps ==
  ASSUME Ready, NEW u \in Users, file[u].busy, NEW g,
         InChain(mem, g, ao_file_dirent[file[u].dirent]),
         g.busy = file[u].busy, g.dirent = file[u].dirent,
         file' = [file EXCEPT ![u] = g],
         UNCHANGED <<cacheVars, ao_file_dirent, wrote, kept, broken>>
  PROVE  CallKeeps(u, name[u])
<1>1. /\ OpenFiles(mem, file, ao_file_dirent, name) /\ OneEach(ao_file_dirent)
      /\ name \in [Users -> Named] /\ file = [v \in Users |-> file[v]]
  BY DEF Ready, Before, Consistent, FilesOK
<1>2. OpenFiles(mem, [file EXCEPT ![u] = g], ao_file_dirent, name)
  BY <1>1, PlaceTrue
<1>3. OpenFiles(mem, file', ao_file_dirent', [name EXCEPT ![u] = name[u]])
  BY <1>1, <1>2, SameNames
<1> QED
  BY <1>1, <1>3, QuietKeeps

(* The chain of an open file.                                              *)
LEMMA FileOpen ==
  ASSUME Ready, NEW u \in Users, file[u].busy
  PROVE  LET d == ao_file_dirent[file[u].dirent]
         IN /\ file[u] \in AoFile /\ d \in AoDirent /\ file[u].dirent \in Dirents
            /\ d.entry \in InUse(Entries, mem) /\ InChain(mem, file[u], d)
            /\ Length(mem, d.cluster) = ClustersFor(d.size)
            /\ Length(mem, d.cluster) <= NumberCluster
<1> DEFINE d == ao_file_dirent[file[u].dirent]
<1>1. /\ OpenFiles(mem, file, ao_file_dirent, name) /\ Sound(Entries, mem)
      /\ file \in [Users -> AoFile] /\ ao_file_dirent \in [Dirents -> AoDirent]
  BY DEF Ready, Before, Consistent, FilesOK
<1>2. IsOpen(name[u], file[u], d)
  BY <1>1, OpenInUse
<1>3. file[u] \in AoFile /\ file[u].dirent \in Dirents
  BY <1>1 DEF AoFile
<1>4. d \in AoDirent
  BY <1>1, <1>3
<1> HIDE DEF d
<1>5. /\ d.entry \in InUse(Entries, mem) /\ First(mem, d.entry) = d.cluster
      /\ mem[RootSector][d.entry].size = d.size /\ InChain(mem, file[u], d)
  BY <1>2 DEF IsOpen
<1>6. /\ Long(mem, d.entry) = ClustersFor(d.size) /\ Long(mem, d.entry) <= NumberCluster
  BY <1>1, <1>5, ShortFiles DEF Sound, SizesTrue
<1>7. Long(mem, d.entry) = Length(mem, d.cluster)
  BY <1>5 DEF Long
<1> QED
  BY <1>3, <1>4, <1>5, <1>6, <1>7 DEF d

(* ao_fat_read moves the file and writes nothing.                          *)
LEMMA ReadKeeps ==
  ASSUME Ready, NEW u \in Users, file[u].busy, ~AtEnd(u), ao_fat_read(u)
  PROVE  CallKeeps(u, name[u])
<1> DEFINE d == ao_file_dirent[file[u].dirent]
           f == Placed(mem, file[u], ao_file_dirent)
           next == [f EXCEPT !.offset = @ + 1]
           g == IF OnCluster(f) THEN next ELSE f
<1>1. /\ file[u] \in AoFile /\ d \in AoDirent /\ InChain(mem, file[u], d)
      /\ Length(mem, d.cluster) = ClustersFor(d.size)
      /\ Length(mem, d.cluster) <= NumberCluster
  BY FileOpen
<1>2. file[u].offset \in Nat /\ d.size \in Nat /\ file[u].offset < d.size
  BY <1>1 DEF AtEnd, AoFile, AoDirent
<1>3. file[u].offset \div PerCluster <= NumberCluster
  <2>1. /\ ClustersFor(d.size) > file[u].offset \div PerCluster
        /\ file[u].offset \div PerCluster \in Nat
    BY <1>2, ClustersPassed
  <2>2. ClustersFor(d.size) \in Nat /\ NumberCluster \in Nat
    BY <1>2, ClustersForIs, Numbers
  <2> QED
    BY <1>1, <2>1, <2>2
<1>4. InChain(mem, f, d)
  BY <1>1, <1>3, PlacedTrue
<1>5. f \in AoFile /\ f.busy = file[u].busy /\ f.dirent = file[u].dirent
  <2>1. ao_file_dirent \in [Dirents -> AoDirent]
    BY DEF Ready, Before, FilesOK
  <2>2. \A store : \A h \in AoFile :
          LET q == Placed(store, h, ao_file_dirent)
          IN q \in AoFile /\ q.busy = h.busy /\ q.dirent = h.dirent
    BY <2>1, PlacedIs
  <2> QED
    BY <1>1, <2>2
<1>6. /\ file' = [file EXCEPT ![u] = g]
      /\ UNCHANGED <<cacheVars, ao_file_dirent, wrote, kept, broken>>
  BY DEF ao_fat_read
<1> HIDE DEF f
<1>7. InChain(mem, next, d) /\ next.busy = file[u].busy /\ next.dirent = file[u].dirent
  <2>1. /\ next.busy = f.busy /\ next.dirent = f.dirent
        /\ next.cluster = f.cluster /\ next.cluster_offset = f.cluster_offset
    BY <1>5 DEF AoFile
  <2> HIDE DEF next
  <2> QED
    BY <1>4, <1>5, <2>1 DEF InChain, Passed
<1> HIDE DEF next
<1>8. InChain(mem, g, d) /\ g.busy = file[u].busy /\ g.dirent = file[u].dirent
  BY <1>4, <1>5, <1>7
<1> HIDE DEF g
<1> QED
  BY <1>6, <1>8, MovesKeeps

(* ao_fat_seek to the end moves the file and writes nothing.               *)
LEMMA SeekKeeps ==
  ASSUME Ready, NEW u \in Users, file[u].busy, SeekEnd(u)
  PROVE  CallKeeps(u, name[u])
<1> DEFINE d == ao_file_dirent[file[u].dirent]
           g == [file[u] EXCEPT !.offset = d.size]
<1>1. file[u] \in AoFile /\ InChain(mem, file[u], d)
  BY FileOpen
<1>2. /\ file' = [file EXCEPT ![u] = g]
      /\ UNCHANGED <<cacheVars, ao_file_dirent, wrote, kept, broken>>
  BY DEF SeekEnd
<1>3. /\ g.busy = file[u].busy /\ g.dirent = file[u].dirent
      /\ g.cluster = file[u].cluster /\ g.cluster_offset = file[u].cluster_offset
  BY <1>1 DEF AoFile
<1> HIDE DEF g
<1>4. InChain(mem, g, d)
  BY <1>1, <1>3 DEF InChain, Passed
<1> QED
  BY <1>2, <1>3, <1>4, MovesKeeps

(* A call that fails before anything is opened: the name is only taken.    *)
LEMMA FailsKeeps ==
  ASSUME Ready, NEW u \in Users, ~file[u].busy, NEW n, CallFails
  PROVE  CallKeeps(u, n)
<1>1. /\ OpenFiles(mem, file, ao_file_dirent, name) /\ OneEach(ao_file_dirent)
      /\ name \in [Users -> Named]
  BY DEF Ready, Consistent
<1>2. UNCHANGED <<cacheVars, file, ao_file_dirent, wrote, kept, broken>>
  BY DEF CallFails
<1>3. \A v \in Users \ {u} : [name EXCEPT ![u] = n][v] = name[v]
  BY <1>1
<1>4. OpenFiles(mem, file', ao_file_dirent', [name EXCEPT ![u] = n])
  BY <1>1, <1>2, <1>3 DEF OpenFiles
<1> QED
  BY <1>1, <1>2, <1>4, QuietKeeps

(* A flush: what was written is on the card from now on.                   *)
LEMMA FlushKeeps ==
  ASSUME Ready, ao_fat_sync
  PROVE  mem' = mem /\ broken' = "no" /\ GhostsOK'
<1>1. /\ Before /\ UNCHANGED root_entries /\ GhostsOK /\ broken = "no"
  BY DEF Ready, Before
<1>2. /\ UNCHANGED <<mem, broken>> /\ may' = [s \in FatSectors |-> {mem[s]}]
  BY <1>1, Flushed
<1>3. kept' = wrote /\ wrote' = wrote
  BY DEF ao_fat_sync
<1> QED
  BY <1>1, <1>2, <1>3, GhostsFlushed

(* ao_fat_sync brings what was written to the card.                        *)
LEMMA SyncKeeps ==
  ASSUME Ready, NEW u \in Users, ao_fat_sync, UNCHANGED <<file, ao_file_dirent>>
  PROVE  CallKeeps(u, name[u])
<1>1. mem' = mem /\ GhostsOK'
  BY FlushKeeps
<1>2. Consistent(mem, file, ao_file_dirent, name) /\ name \in [Users -> Named]
  BY DEF Ready
<1>3. Consistent(mem', file', ao_file_dirent', [name EXCEPT ![u] = name[u]])
  BY <1>1, <1>2, SameNames
<1> QED
  BY <1>1, <1>3 DEF CallKeeps

(* ao_fat_close sets the file free and its ao_file_dirent with the last    *)
(* file that has it, and flushes.                                          *)
LEMMA CloseKeeps ==
  ASSUME Ready, NEW u \in Users, file[u].busy, NEW n, ao_fat_close(u)
  PROVE  CallKeeps(u, n)
<1> DEFINE dn == file[u].dirent
           old == ao_file_dirent
           shared == \E v \in Users \ {u} : Opening(v, dn)
           names == [name EXCEPT ![u] = n]
<1>1. /\ file' = [file EXCEPT ![u] = NoFile] /\ ao_fat_sync
      /\ ao_file_dirent' = IF shared THEN old ELSE [old EXCEPT ![dn] = NoDirent]
  BY DEF ao_fat_close, ReleaseDirent, Opening
<1>2. mem' = mem /\ GhostsOK'
  BY <1>1, FlushKeeps
<1>3. /\ Sound(Entries, mem) /\ OpenFiles(mem, file, old, name) /\ OneEach(old)
      /\ name \in [Users -> Named] /\ FilesOK
      /\ file \in [Users -> AoFile] /\ old \in [Dirents -> AoDirent]
  BY DEF Ready, Before, Consistent, FilesOK
<1>4. dn \in Dirents /\ NoDirent.entry \notin Entries /\ ~NoFile.busy
  BY <1>3, NoFileTyped DEF AoFile, NoFile
<1>5. OpenFiles(mem, file', ao_file_dirent', names)
  <2> SUFFICES ASSUME NEW v \in Users, file'[v].busy
               PROVE  names[v] \in Names
                      /\ OpenTrue(mem, names[v], file'[v], ao_file_dirent'[file'[v].dirent])
    BY DEF OpenFiles
  <2>1. v # u /\ file'[v] = file[v] /\ file[v].busy
    BY <1>1, <1>3, <1>4
  <2>2. names[v] = name[v]
    BY <1>3, <2>1
  <2>3. file[v].dirent = dn => shared
    BY <2>1 DEF Opening
  <2>4. ao_file_dirent'[file[v].dirent] = old[file[v].dirent]
    <3>1. file[v].dirent \in Dirents
      BY <1>3 DEF AoFile
    <3> HIDE DEF shared
    <3> QED
      BY <1>1, <1>3, <2>3, <3>1
  <2> HIDE DEF names
  <2> QED
    BY <1>3, <2>1, <2>2, <2>4 DEF OpenFiles
<1>6. OneEach(ao_file_dirent')
  <2> HIDE DEF shared
  <2>1. CASE shared
    BY <1>1, <1>3, <2>1
  <2>2. CASE ~shared
    <3>1. \A c \in Dirents :
            ao_file_dirent'[c].entry = IF c = dn THEN NoDirent.entry ELSE old[c].entry
      BY <1>1, <1>3, <2>2
    <3>2. \A c, d \in Dirents :
            c # d /\ old[d].entry \in Entries => old[c].entry # old[d].entry
      BY <1>3 DEF OneEach
    <3> QED
      BY <1>4, <3>1, <3>2 DEF OneEach
  <2> QED
    BY <2>1, <2>2
<1>7. Consistent(mem', file', ao_file_dirent', names)
  BY <1>2, <1>3, <1>5, <1>6 DEF Consistent
<1> QED
  BY <1>2, <1>7 DEF CallKeeps

(* What a call keeps is kept in the next state.                            *)
LEMMA KeptNext ==
  ASSUME UNCHANGED root_entries, NEW u, NEW n, CallKeeps(u, n),
         name' = [name EXCEPT ![u] = n]
  PROVE  (ChainsOK /\ GhostsOK)'
<1>1. broken' = "no" => Consistent(mem', file', ao_file_dirent', name')
  BY DEF CallKeeps
<1>2. Entries' = Entries
  BY DEF Entries
<1>3. ASSUME broken' = "no"
      PROVE  Consistent(mem, file, ao_file_dirent, name)'
  <2>1. /\ Sound(Entries, mem') /\ OpenFiles(mem', file', ao_file_dirent', name')
        /\ OneEach(ao_file_dirent')
    BY <1>1, <1>3 DEF Consistent
  <2>2. Sound(Entries, mem)'
    BY <1>2, <2>1
  <2>3. OpenFiles(mem, file, ao_file_dirent, name)'
    BY <1>2, <2>1 DEF OpenFiles, OpenTrue
  <2>4. OneEach(ao_file_dirent)'
    BY <1>2, <2>1 DEF OneEach
  <2> QED
    BY <2>2, <2>3, <2>4 DEF Consistent
<1> QED
  BY <1>3 DEF ChainsOK, CallKeeps

-----------------------------------------------------------------------------
(* The steps of the two tasks.                                             *)
CardKept == ChainsOK /\ GhostsOK

(* What the calls may rely on is so between any two of them.               *)
LEMMA IsReady ==
  ASSUME FatTyped, FullIsFull, CardKept, broken = "no", UNCHANGED root_entries
  PROVE  Ready /\ TasksOK
BY DEF Ready, Before, FatTyped, CardKept, ChainsOK, TasksOK

(* ao_fat_creat keeps all, in its three cases.                             *)
LEMMA CreatKeeps ==
  ASSUME Ready, NEW u \in Users, ~file[u].busy, NEW n \in Names, ao_fat_creat(u, n)
  PROVE  CallKeeps(u, n)
<1>1. CASE Exists(n) /\ CreatOld(u, n)
  BY <1>1, CreatOldKeeps
<1>2. CASE ~RootFull /\ CreatNew(u, n)
  BY <1>2, CreatNewKeeps
<1> QED
  BY <1>1, <1>2 DEF ao_fat_creat

(* A task that has made a call goes on.                                    *)
LEMMA StepKeeps ==
  ASSUME UNCHANGED root_entries, NEW u, NEW n, CallKeeps(u, n), NEW to, Goes(u, to, n)
  PROVE  CardKept'
BY KeptNext DEF Goes, CardKept

(* Each step of the log task.                                              *)
LEMMA LogKeeps ==
  ASSUME FatTyped, FullIsFull, CardKept, UNCHANGED root_entries, LogStep
  PROVE  CardKept'
<1> DEFINE u == "log"
<1>0. broken = "no" /\ u \in Users
  BY DEF LogStep, LogDay, LogOpens, LogSeeks, LogCreates, LogWrites, LogSyncs, At, Users
<1>1. Ready /\ TasksOK
  BY <1>0, IsReady
<1>2. /\ task[u] \in {"seek", "write", "sync"} => file[u].busy
      /\ task[u] \in {"open", "creat"} => ~file[u].busy /\ name[u] \in Names
  BY <1>1 DEF TasksOK
<1>3. ASSUME NEW day \in Days, LogDay(day) PROVE CardKept'
  <2>1. Goes(u, "open", day)
    BY <1>3 DEF LogDay
  <2>2. CallKeeps(u, day)
    <3>1. CASE file[u].busy /\ ao_fat_close(u)
      BY <1>0, <1>1, <3>1, CloseKeeps
    <3>2. CASE ~file[u].busy /\ CallFails
      BY <1>0, <1>1, <3>2, FailsKeeps
    <3> QED
      BY <1>3, <3>1, <3>2 DEF LogDay
  <2> QED
    BY <2>1, <2>2, StepKeeps
<1>4. CASE LogOpens
  <2>1. ~file[u].busy /\ name[u] \in Names
    BY <1>2, <1>4 DEF LogOpens, At
  <2>2. CASE Exists(name[u]) /\ ao_fat_open(u, name[u]) /\ Goes(u, "seek", name[u])
    BY <1>0, <1>1, <2>1, <2>2, OpenKeeps, StepKeeps
  <2>3. CASE CallFails /\ Goes(u, "creat", name[u])
    BY <1>0, <1>1, <2>1, <2>3, FailsKeeps, StepKeeps
  <2> QED
    BY <1>4, <2>2, <2>3 DEF LogOpens
<1>5. CASE LogSeeks
  <2>1. file[u].busy /\ SeekEnd(u) /\ Goes(u, "write", name[u])
    BY <1>2, <1>5 DEF LogSeeks, At
  <2> QED
    BY <1>0, <1>1, <2>1, SeekKeeps, StepKeeps
<1>6. CASE LogCreates
  <2>1. ~file[u].busy /\ name[u] \in Names
    BY <1>2, <1>6 DEF LogCreates, At
  <2>2. CASE ao_fat_creat(u, name[u]) /\ Goes(u, "write", name[u])
    BY <1>0, <1>1, <2>1, <2>2, CreatKeeps, StepKeeps
  <2>3. CASE CallFails /\ Goes(u, "idle", name[u])
    BY <1>0, <1>1, <2>1, <2>3, FailsKeeps, StepKeeps
  <2> QED
    BY <1>6, <2>2, <2>3 DEF LogCreates
<1>7. CASE LogWrites
  <2>1. file[u].busy /\ ao_fat_write(u) /\ Goes(u, "sync", name[u])
    BY <1>2, <1>7 DEF LogWrites, At
  <2> QED
    BY <1>0, <1>1, <2>1, WriteKeeps, StepKeeps
<1>8. CASE LogSyncs
  <2>1. ao_fat_sync /\ UNCHANGED <<file, ao_file_dirent>> /\ Goes(u, "idle", name[u])
    BY <1>8 DEF LogSyncs
  <2> QED
    BY <1>0, <1>1, <2>1, SyncKeeps, StepKeeps
<1> HIDE DEF u
<1> QED
  BY <1>3, <1>4, <1>5, <1>6, <1>7, <1>8 DEF LogStep

(* Each step of the console's commands on files.                           *)
LEMMA FilesKeep ==
  ASSUME FatTyped, FullIsFull, CardKept, UNCHANGED root_entries, FilesStep
  PROVE  CardKept'
<1> DEFINE u == "console"
<1>0. broken = "no" /\ u \in Users
  BY DEF FilesStep, Dump, Type, DumpReads, TypeWrites, ConsoleCloses, At, Users
<1>1. Ready /\ TasksOK
  BY <1>0, IsReady
<1>2. (task[u] = "idle" <=> ~file[u].busy) /\ Typed \subseteq Names
  BY <1>1 DEF TasksOK, Names
<1>3. ASSUME NEW n \in Names, Dump(n) PROVE CardKept'
  <2>1. Exists(n) /\ ao_fat_open(u, n) /\ Goes(u, "read", n) /\ ~file[u].busy
    BY <1>2, <1>3 DEF Dump, At
  <2> QED
    BY <1>0, <1>1, <2>1, OpenKeeps, StepKeeps
<1>4. ASSUME NEW n \in Typed, Type(n) PROVE CardKept'
  <2>1. ao_fat_creat(u, n) /\ Goes(u, "type", n) /\ ~file[u].busy /\ n \in Names
    BY <1>2, <1>4 DEF Type, At
  <2> QED
    BY <1>0, <1>1, <2>1, CreatKeeps, StepKeeps
<1>5. CASE DumpReads
  <2>1. file[u].busy /\ ~AtEnd(u) /\ ao_fat_read(u)
    BY <1>2, <1>5 DEF DumpReads, At
  <2>2. PICK to \in {"read", "close"} : Goes(u, to, name[u])
    BY <1>5 DEF DumpReads
  <2> QED
    BY <1>0, <1>1, <2>1, <2>2, ReadKeeps, StepKeeps
<1>6. CASE TypeWrites
  <2>1. file[u].busy /\ ao_fat_write(u)
    BY <1>2, <1>6 DEF TypeWrites, At
  <2>2. PICK to \in {"type", "close"} : Goes(u, to, name[u])
    BY <1>6 DEF TypeWrites
  <2> QED
    BY <1>0, <1>1, <2>1, <2>2, WriteKeeps, StepKeeps
<1>7. CASE ConsoleCloses
  <2>1. file[u].busy /\ ao_fat_close(u) /\ Goes(u, "idle", NoName)
    BY <1>2, <1>7 DEF ConsoleCloses, At
  <2> QED
    BY <1>0, <1>1, <2>1, CloseKeeps, StepKeeps
<1> HIDE DEF u
<1> QED
  BY <1>3, <1>4, <1>5, <1>6, <1>7 DEF FilesStep

-----------------------------------------------------------------------------
(* After the power has failed.                                             *)
LEMMA SoundSame ==
  ASSUME NEW E, NEW store, NEW other, Sound(E, store),
         other[RootSector] = store[RootSector],
         \A fat \in {1, 2}, c \in Clusters :
           other[FatSector(fat, c)] = store[FatSector(fat, c)]
  PROVE  Sound(E, other)
<1>1. \A c : Chain(other, c) = Chain(store, c)
  BY ChainsSame
<1>2. \A e : First(other, e) = First(store, e)
  BY DEF First
<1>3. \A c : Length(other, c) = Length(store, c)
  BY <1>1 DEF Length
<1>4. \A c : Reach(other, c) = Reach(store, c)
  BY <1>1, <1>3 DEF Reach
<1>5. /\ \A e : Way(other, e) = Way(store, e) /\ Long(other, e) = Long(store, e)
      /\ \A e : Used(other, e) = Used(store, e)
  BY <1>1, <1>2, <1>3, <1>4 DEF Way, Long, Used
<1>6. InUse(E, other) = InUse(E, store)
  BY DEF InUse
<1>7. \A c \in Clusters : /\ other[FatSector(1, c)] = store[FatSector(1, c)]
                          /\ other[FatSector(2, c)] = store[FatSector(2, c)]
  OBVIOUS
<1>8. TwoTables(other)
  BY <1>7 DEF Sound, TwoTables
<1>9. Dense(E, other)
  BY <1>6 DEF Sound, Dense
<1>10. \A e : Ends(other, e) <=> Ends(store, e)
  BY <1>5 DEF Ends
<1>11. Apart(E, other)
  BY <1>5, <1>6, <1>7, <1>10 DEF Sound, Apart
<1>12. SizesTrue(E, other)
  BY <1>5, <1>6 DEF Sound, SizesTrue
<1> QED
  BY <1>8, <1>9, <1>11, <1>12 DEF Sound

(* A store put together of what the card may have.                         *)
LEMMA JoinedIn ==
  ASSUME NEW fats \in SUBSET {1, 2}, NEW layout \in Layouts(fats),
         NEW data \in OnCard(DataSectors)
  PROVE  LET store == Joined(layout, data)
         IN /\ store[RootSector] = layout[RootSector]
            /\ store[RootSector] \in may[RootSector]
            /\ \A fat \in fats, c \in Clusters :
                 /\ store[FatSector(fat, c)] = layout[FatSector(fat, c)]
                 /\ store[FatSector(fat, c)] \in may[FatSector(fat, c)]
            /\ \A c \in Clusters : store[DataSector(c)] \in may[DataSector(c)]
<1> DEFINE store == Joined(layout, data)
<1>1. PICK tables \in OnCard(TableSectors(fats)), root \in may[RootSector] :
        layout = Joined(tables, [s \in {RootSector} |-> root])
  BY DEF Layouts
<1>2. /\ DOMAIN tables = TableSectors(fats)
      /\ \A s \in TableSectors(fats) : tables[s] \in may[s]
      /\ DOMAIN data = DataSectors /\ \A s \in DataSectors : data[s] \in may[s]
  BY DEF OnCard
<1>3. /\ RootSector \notin TableSectors(fats)
      /\ \A c \in Clusters : DataSector(c) \notin TableSectors(fats) \union {RootSector}
  BY TableCell, RootCell DEF TableSectors
<1>4. /\ layout = [s \in TableSectors(fats) \union {RootSector} |->
                     IF s \in TableSectors(fats) THEN tables[s] ELSE root]
  BY <1>1, <1>2 DEF Joined
<1>5. /\ layout[RootSector] = root
      /\ \A s \in TableSectors(fats) : layout[s] = tables[s]
      /\ DOMAIN layout = TableSectors(fats) \union {RootSector}
  BY <1>3, <1>4
<1> HIDE DEF store
<1>6. store = [s \in TableSectors(fats) \union {RootSector} \union DataSectors |->
                 IF s \in TableSectors(fats) \union {RootSector} THEN layout[s] ELSE data[s]]
  BY <1>2, <1>5 DEF Joined, store
<1>7. \A c \in Clusters : store[DataSector(c)] = data[DataSector(c)]
                          /\ DataSector(c) \in DataSectors
  BY <1>3, <1>6 DEF DataSectors
<1>8. \A fat \in fats, c \in Clusters : FatSector(fat, c) \in TableSectors(fats)
  BY DEF TableSectors
<1>9. store[RootSector] = root
  BY <1>5, <1>6
<1>10. \A fat \in fats, c \in Clusters :
         store[FatSector(fat, c)] = layout[FatSector(fat, c)]
         /\ store[FatSector(fat, c)] \in may[FatSector(fat, c)]
  BY <1>2, <1>5, <1>6, <1>8
<1> QED
  BY <1>2, <1>5, <1>7, <1>9, <1>10 DEF store

(* What is settled is in all that the card may have.                       *)
LEMMA SettledHas ==
  ASSUME NEW e, NEW n, NEW offset \in Nat, Has(mem, e, n, offset),
         Settled(e, n, offset), NEW store,
         store[RootSector] \in may[RootSector],
         \A c \in Clusters : /\ store[FatSector(1, c)] \in may[FatSector(1, c)]
                             /\ store[DataSector(c)] \in may[DataSector(c)]
  PROVE  Has(store, e, n, offset)
<1> DEFINE i == offset \div PerCluster
           k == offset % PerCluster
           way == Way(mem, e)
           c == First(mem, e)
<1>1. /\ i \in Nat /\ i \in 0 .. NumberCluster
      /\ \A j \in 0 .. i - 1 :
           way[j] \in Clusters /\ mem[FatSector(1, way[j])][way[j]] = way[j + 1]
      /\ way[i] \in Clusters
  BY HasAll
<1>2. /\ \A y \in may[RootSector] : y[e].name = n /\ offset < y[e].size /\ y[e].cluster = c
      /\ \A j \in 0 .. i - 1 : \A y \in may[FatSector(1, way[j])] : y[way[j]] = way[j + 1]
      /\ \A y \in may[DataSector(way[i])] : y[k] = Mark(n, offset)
  BY DEF Settled
<1>3. e \in Entries
  BY DEF Has
<1>4. way = Chain(mem, c)
  BY DEF Way
<1> HIDE DEF i, k, way, c
<1>5. /\ store[RootSector][e].name = n /\ offset < store[RootSector][e].size
      /\ First(store, e) = c
  BY <1>2 DEF First
<1>6. \A j \in 0 .. i - 1 :
        store[FatSector(1, way[j])][way[j]] = mem[FatSector(1, way[j])][way[j]]
  BY <1>1, <1>2
<1>7. \A j \in 0 .. i : Chain(store, c)[j] = way[j]
  <2>1. \A j \in 0 .. i - 1 :
          LET d == Chain(mem, c)[j]
          IN Valid(d) => store[FatSector(1, d)][d] = mem[FatSector(1, d)][d]
    BY <1>4, <1>6
  <2>2. \A j \in 0 .. i : Chain(store, c)[j] = Chain(mem, c)[j]
    BY <1>1, <2>1, ChainSame
  <2> QED
    BY <1>4, <2>2
<1>8. Way(store, e)[i] = way[i]
  BY <1>1, <1>5, <1>7 DEF Way
<1>9. i < Long(store, e)
  <2>1. Valid(Way(store, e)[i])
    BY <1>1, <1>8 DEF Valid
  <2> QED
    BY <1>1, <2>1, UsedIn
<1>10. store[DataSector(way[i])][k] = Mark(n, offset)
  BY <1>1, <1>2
<1> QED
  BY <1>3, <1>5, <1>8, <1>9, <1>10 DEF Has, i, k

(* The power fails: the card has one value of each sector that it may      *)
(* have. What was flushed is in all of them. The model goes on from tables *)
(* that pass check_fs.                                                     *)
LEMMA RebootKeeps ==
  ASSUME FatTyped, CardKept, UNCHANGED root_entries, FatReboot
  PROVE  CardKept'
<1>1. /\ file' = [u \in Users |-> NoFile] /\ ao_file_dirent' = [d \in Dirents |-> NoDirent]
      /\ wrote' = kept /\ kept' = kept /\ broken' = "no"
  BY DEF FatReboot
<1>2. PICK layout \in Layouts({1, 2}), data \in OnCard(DataSectors) :
        check_fs(layout) /\ mem' = Joined(layout, data)
  BY DEF FatReboot
<1>3. may' = [s \in FatSectors |-> {mem'[s]}]
  BY DEF FatReboot, Store!PowerFails
<1>4. Entries' = Entries /\ {1, 2} \in SUBSET {1, 2}
  BY DEF Entries
<1>5. /\ mem'[RootSector] = layout[RootSector] /\ mem'[RootSector] \in may[RootSector]
      /\ \A fat \in {1, 2}, c \in Clusters :
           /\ mem'[FatSector(fat, c)] = layout[FatSector(fat, c)]
           /\ mem'[FatSector(fat, c)] \in may[FatSector(fat, c)]
      /\ \A c \in Clusters : mem'[DataSector(c)] \in may[DataSector(c)]
  BY <1>2, <1>4, JoinedIn
<1>6. Sound(Entries, mem')
  BY <1>2, <1>5, CheckIs, SoundSame
<1>7. ~NoFile.busy /\ NoDirent.entry = root_entries /\ root_entries \notin Entries
  BY DEF NoFile, NoDirent, Entries, FatTyped, FilesOK
<1>8. ChainsOK'
  <2>1. OpenFiles(mem, file, ao_file_dirent, name)'
    BY <1>1, <1>7 DEF OpenFiles
  <2>2. OneEach(ao_file_dirent)'
    BY <1>1, <1>4, <1>7 DEF OneEach
  <2>3. Sound(Entries, mem)'
    BY <1>4, <1>6
  <2> QED
    BY <2>1, <2>2, <2>3 DEF ChainsOK, Consistent
<1>9. ASSUME NEW n \in Names, NEW offset \in kept[n]
      PROVE  \E e \in Entries : Has(mem', e, n, offset) /\ Settled(e, n, offset)'
  <2>1. offset \in Nat
    BY <1>9 DEF CardKept, GhostsOK
  <2>2. PICK e \in Entries : Has(mem, e, n, offset) /\ Settled(e, n, offset)
    BY <1>9 DEF CardKept, GhostsOK, KeptThere
  <2>3. \A c \in Clusters : mem'[FatSector(1, c)] \in may[FatSector(1, c)]
    BY <1>5
  <2>4. Has(mem', e, n, offset)
    BY <1>5, <2>1, <2>2, <2>3, SettledHas
  <2>5. Settled(e, n, offset)'
    BY <1>3, <2>1, <2>4, SettledNow
  <2> QED
    BY <2>4, <2>5
<1>10. \A e, n, offset : Has(mem', e, n, offset) => Has(mem, e, n, offset)'
  BY <1>4 DEF Has
<1>11. KeptThere' /\ WroteThere'
  BY <1>1, <1>4, <1>9, <1>10 DEF KeptThere, WroteThere
<1>12. GhostsOK'
  BY <1>1, <1>11 DEF GhostsOK, CardKept
<1> QED
  BY <1>8, <1>12 DEF CardKept

(* A new card has no file.                                                 *)
LEMMA NewCardIs ==
  /\ \A e \in Entries : NewCard[RootSector][e].name = NoName
  /\ \A fat \in {1, 2}, c \in Clusters : NewCard[FatSector(fat, c)][c] = 0
<1>1. RootSector \in FatSectors /\ RootSector[1] = "root"
  BY DEF FatSectors, RootSector
<1>2. NewCard[RootSector] = [e \in Entries |-> NoDent]
  BY <1>1 DEF NewCard, NewSector
<1>3. NoDent.name = NoName
  BY DEF NoDent, Dent
<1>4. ASSUME NEW fat \in {1, 2}, NEW c \in Clusters
      PROVE  NewCard[FatSector(fat, c)][c] = 0
  <2> DEFINE s == FatSector(fat, c)
  <2>1. s \in FatSectors
    BY TableCell
  <2>2. s[1] = "fat" /\ s[3] = c \div PerSector
    BY DEF FatSector
  <2> HIDE DEF s
  <2>3. NewCard[s] = [d \in {x \in Clusters : x \div PerSector = s[3]} |-> 0]
    BY <2>1, <2>2 DEF NewCard, NewSector
  <2> QED
    BY <2>2, <2>3 DEF s
<1> HIDE DEF NewCard
<1> QED
  BY <1>2, <1>3, <1>4

(* An empty card.                                                          *)
LEMMA InitKept == ASSUME FatInit PROVE CardKept
<1>1. /\ mem = NewCard /\ broken = "no"
      /\ wrote = [n \in Names |-> {}] /\ kept = [n \in Names |-> {}]
      /\ file = [u \in Users |-> NoFile] /\ ao_file_dirent = [d \in Dirents |-> NoDirent]
  BY DEF FatInit, RamInit
<1>2. root_entries \in Nat
  BY FatAssumption DEF FatInit
<1>3. InUse(Entries, mem) = {}
  BY <1>1, NewCardIs DEF InUse
<1>4. \A fat \in {1, 2}, c \in Clusters : mem[FatSector(fat, c)][c] = 0
  BY <1>1, NewCardIs
<1>5. Sound(Entries, mem)
  <2>1. TwoTables(mem)
    BY <1>4 DEF TwoTables
  <2>2. Dense(Entries, mem) /\ SizesTrue(Entries, mem)
    BY <1>3 DEF Dense, SizesTrue
  <2>3. Apart(Entries, mem)
    BY <1>3, <1>4 DEF Apart
  <2> QED
    BY <2>1, <2>2, <2>3 DEF Sound
<1>6. ~NoFile.busy /\ NoDirent.entry = root_entries /\ root_entries \notin Entries
  BY <1>2 DEF NoFile, NoDirent, Entries
<1>7. OpenFiles(mem, file, ao_file_dirent, name) /\ OneEach(ao_file_dirent)
  BY <1>1, <1>6 DEF OpenFiles, OneEach
<1>8. GhostsOK
  BY <1>1 DEF GhostsOK, KeptThere, WroteThere
<1> QED
  BY <1>5, <1>7, <1>8 DEF CardKept, ChainsOK, Consistent

(* A step that changes nothing of the file system.                         *)
LEMMA CardSame ==
  ASSUME CardKept, UNCHANGED fatVars
  PROVE  CardKept'
<1>1. UNCHANGED <<root_entries, mem, may, file, ao_file_dirent, name, wrote, kept, broken>>
  BY DEF fatVars, cacheVars
<1>2. Entries' = Entries /\ UNCHANGED <<root_entries, cacheVars, wrote, kept>>
  BY <1>1 DEF Entries, cacheVars
<1>3. GhostsOK'
  BY <1>1, <1>2, GhostsSame DEF CardKept
<1>4. ASSUME broken = "no" PROVE Consistent(mem, file, ao_file_dirent, name)'
  <2>1. /\ Sound(Entries, mem) /\ OpenFiles(mem, file, ao_file_dirent, name)
        /\ OneEach(ao_file_dirent)
    BY <1>4 DEF CardKept, ChainsOK, Consistent
  <2>2. Sound(Entries, mem)'
    BY <1>1, <1>2, <2>1
  <2>3. OpenFiles(mem, file, ao_file_dirent, name)'
    BY <1>1, <1>2, <2>1 DEF OpenFiles, OpenTrue
  <2>4. OneEach(ao_file_dirent)'
    BY <1>1, <1>2, <2>1 DEF OneEach
  <2> QED
    BY <2>2, <2>3, <2>4 DEF Consistent
<1> QED
  BY <1>1, <1>3, <1>4 DEF CardKept, ChainsOK

(* The inductive invariant: between two calls the card is consistent, and  *)
(* what was written and flushed is there.                                  *)
LEMMA CardInv == FatSpec => []CardKept
<1>1. FatInit => CardKept
  BY InitKept
<1>2. FatTyped /\ FullIsFull /\ CardKept /\ [FatNext]_fatVars => CardKept'
  <2> SUFFICES ASSUME FatTyped, FullIsFull, CardKept, [FatNext]_fatVars
               PROVE  CardKept'
    OBVIOUS
  <2>1. CASE LogStep /\ UNCHANGED root_entries
    BY <2>1, LogKeeps
  <2>2. CASE FilesStep /\ UNCHANGED root_entries
    BY <2>2, FilesKeep
  <2>3. CASE FatReboot /\ UNCHANGED root_entries
    BY <2>3, RebootKeeps
  <2>4. CASE UNCHANGED fatVars
    BY <2>4, CardSame
  <2> QED
    BY <2>1, <2>2, <2>3, <2>4 DEF FatNext
<1>3. FatSpec => [](FatTyped /\ FullIsFull)
  BY FatInv
<1> QED
  BY <1>1, <1>2, <1>3, PTL DEF FatSpec

(* The file system passes check_fs between two calls.                      *)
THEOREM CardSound == FatSpec => []CheckFs
<1>1. CardKept => CheckFs
  BY CheckIs DEF CardKept, ChainsOK, Consistent, CheckFs
<1> QED
  BY <1>1, CardInv, PTL

(* What an entry has is what a reader of its name gets.                    *)
LEMMA HasReads ==
  ASSUME NEW store, NEW e, NEW n, NEW offset \in Nat, Has(store, e, n, offset)
  PROVE  Reads(store, n, offset)
<1> DEFINE i == offset \div PerCluster
           c == Way(store, e)[i]
<1>1. /\ e \in Entries /\ store[RootSector][e].name = n
      /\ offset < store[RootSector][e].size
      /\ store[DataSector(c)][offset % PerCluster] = Mark(n, offset)
  BY DEF Has
<1>2. c \in Clusters
  BY HasAll
<1> QED
  BY <1>1, <1>2 DEF Reads, Valid, Way, First

(* What was written to a file is what is read from it, and what an open    *)
(* file keeps of its entry and its place is true.                          *)
THEOREM FilesAreTrue == FatSpec => []FilesTrue
<1>1. CardKept => FilesTrue
  <2> SUFFICES ASSUME CardKept, broken = "no"
               PROVE  /\ \A n \in Names : \A offset \in wrote[n] : Reads(mem, n, offset)
                      /\ \A u \in Users : file[u].busy =>
                           LET f == file[u]
                               d == ao_file_dirent[f.dirent]
                           IN /\ mem[RootSector][d.entry] = Dent(name[u], d.size, d.cluster)
                              /\ f.cluster # 0 =>
                                   f.cluster = Chain(mem, d.cluster)[f.cluster_offset \div PerCluster]
    BY DEF FilesTrue
  <2>1. ASSUME NEW n \in Names, NEW offset \in wrote[n] PROVE Reads(mem, n, offset)
    <3>1. offset \in Nat
      BY <2>1 DEF CardKept, GhostsOK
    <3>2. PICK e \in Entries : Has(mem, e, n, offset)
      BY <2>1 DEF CardKept, GhostsOK, WroteThere
    <3> QED
      BY <3>1, <3>2, HasReads
  <2>2. ASSUME NEW u \in Users, file[u].busy
        PROVE  LET f == file[u]
                   d == ao_file_dirent[f.dirent]
               IN /\ mem[RootSector][d.entry] = Dent(name[u], d.size, d.cluster)
                  /\ f.cluster # 0 =>
                       f.cluster = Chain(mem, d.cluster)[f.cluster_offset \div PerCluster]
    <3>1. OpenTrue(mem, name[u], file[u], ao_file_dirent[file[u].dirent])
      BY <2>2 DEF CardKept, ChainsOK, Consistent, OpenFiles
    <3> QED
      BY <3>1 DEF OpenTrue, InChain, Passed
  <2> QED
    BY <2>1, <2>2
<1> QED
  BY <1>1, CardInv, PTL

(* What a flush has brought to the card stays on it, whatever sectors are  *)
(* written of later calls before the power fails.                          *)
THEOREM FlushedStays == FatSpec => []FlushedKept
<1>1. CardKept => FlushedKept
  <2> SUFFICES ASSUME CardKept, NEW n \in Names, NEW offset \in kept[n],
                      NEW layout \in Layouts({1}), NEW data \in OnCard(DataSectors)
               PROVE  Reads(Joined(layout, data), n, offset)
    BY DEF FlushedKept
  <2> DEFINE store == Joined(layout, data)
  <2>1. offset \in Nat
    BY DEF CardKept, GhostsOK
  <2>2. PICK e \in Entries : Has(mem, e, n, offset) /\ Settled(e, n, offset)
    BY DEF CardKept, GhostsOK, KeptThere
  <2>3. {1} \in SUBSET {1, 2} /\ 1 \in {1}
    OBVIOUS
  <2>4. /\ store[RootSector] \in may[RootSector]
        /\ \A fat \in {1}, c \in Clusters :
             store[FatSector(fat, c)] \in may[FatSector(fat, c)]
        /\ \A c \in Clusters : store[DataSector(c)] \in may[DataSector(c)]
    BY <2>3, JoinedIn
  <2> HIDE DEF store
  <2>5. \A c \in Clusters : /\ store[FatSector(1, c)] \in may[FatSector(1, c)]
                            /\ store[DataSector(c)] \in may[DataSector(c)]
    BY <2>3, <2>4
  <2>6. Has(store, e, n, offset)
    BY <2>1, <2>2, <2>4, <2>5, SettledHas
  <2>7. Reads(store, n, offset)
    BY <2>1, <2>6, HasReads
  <2> QED
    BY <2>7 DEF store
<1> QED
  BY <1>1, CardInv, PTL

=============================================================================

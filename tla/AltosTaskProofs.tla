--------------------------- MODULE AltosTaskProofs ---------------------------
(***************************************************************************)
(* The scheduler loses no task, keeps its alarm queue consistent and wakes *)
(* its tasks on time, for every number of tasks, channels and timeouts and *)
(* every width of the tick counter.  First comes what the operations on    *)
(* lists do, for lists of any length.  Inv is inductive, and so is         *)
(* TimeInv on top of it; each lemma below is one action.                   *)
(***************************************************************************)
EXTENDS AltosMutex, WellFoundedInduction, TLAPS

(* Induction over the naturals for a set: the least number outside it      *)
(* would have its predecessor inside.                                      *)
LEMMA SetInduction ==
  ASSUME NEW P \in SUBSET Nat, 0 \in P, \A n \in P : n + 1 \in P
  PROVE  P = Nat
<1>1. SUFFICES ASSUME Nat \ P # {} PROVE FALSE
  OBVIOUS
<1>2. PICK x \in Nat \ P : \A y \in Nat \ P : ~(<<y, x>> \in OpToRel(<, Nat))
  BY <1>1, NatLessThanWellFounded, WFMin
<1>3. \A y \in Nat \ P : ~(y < x)
  BY <1>2 DEF OpToRel
<1>4. x # 0
  BY <1>2
<1>5. x - 1 \in Nat /\ x - 1 < x /\ x = (x - 1) + 1
  BY <1>4
<1>6. x - 1 \in P
  BY <1>3, <1>5
<1> QED
  BY <1>2, <1>5, <1>6

(* The body of the recursion in ListDel, and its solutions up to n.        *)
Step(q, S, f, i) ==
  IF i = 0 THEN << >>
  ELSE IF q[i] \in S THEN f[i-1] ELSE Append(f[i-1], q[i])

Solves(q, S, f, n) == f = [i \in 0 .. n |-> Step(q, S, f, i)]

(* The recursion of ListDel has a solution for every length.               *)
LEMMA KeptExists ==
  ASSUME NEW q, NEW S, NEW n \in Nat
  PROVE  \E f : Solves(q, S, f, n)
<1> DEFINE P == {k \in Nat : \E f : Solves(q, S, f, k)}
<1>1. 0 \in P
  <2> DEFINE f == [i \in 0 .. 0 |-> << >>]
  <2>1. f = [i \in 0 .. 0 |-> Step(q, S, f, i)]
    BY DEF Step
  <2>2. Solves(q, S, f, 0)
    BY <2>1 DEF Solves
  <2> QED
    BY <2>2
<1>2. ASSUME NEW k \in P PROVE k + 1 \in P
  <2>1. PICK f : Solves(q, S, f, k)
    BY <1>2
  <2> DEFINE g == [i \in 0 .. k+1 |-> IF i = k+1 THEN Step(q, S, f, i) ELSE f[i]]
  <2>2. ASSUME NEW i \in 0 .. k+1 PROVE g[i] = Step(q, S, g, i)
    <3>1. i # 0 => i - 1 \in 0 .. k /\ g[i-1] = f[i-1]
      OBVIOUS
    <3>2. Step(q, S, g, i) = Step(q, S, f, i)
      BY <3>1 DEF Step
    <3>3. CASE i = k+1
      BY <3>2, <3>3
    <3>4. CASE i # k+1
      <4>1. i \in 0 .. k
        BY <3>4
      <4>2. f[i] = Step(q, S, f, i)
        BY <2>1, <4>1 DEF Solves
      <4> QED
        BY <4>1, <4>2, <3>2, <3>4
    <3> QED
      BY <3>3, <3>4
  <2> HIDE DEF g
  <2>3. g = [i \in 0 .. k+1 |-> g[i]]
    BY DEF g
  <2>4. g = [i \in 0 .. k+1 |-> Step(q, S, g, i)]
    BY <2>2, <2>3
  <2>5. Solves(q, S, g, k+1)
    BY <2>4 DEF Solves
  <2> QED
    BY <2>5
<1>3. P = Nat
  <2> HIDE DEF P
  <2>1. P \in SUBSET Nat
    BY DEF P
  <2> QED
    BY <1>1, <1>2, <2>1, SetInduction
<1> QED
  BY <1>3

LEMMA AppendElements ==
  ASSUME NEW T, NEW q \in Seq(T), NEW e \in T
  PROVE  Append(q, e) \in Seq(T) /\ Range(Append(q, e)) = Range(q) \union {e}
<1>1. /\ Append(q, e) \in Seq(T)
      /\ DOMAIN Append(q, e) = 1 .. Len(q)+1
      /\ \A i \in 1 .. Len(q) : Append(q, e)[i] = q[i]
      /\ Append(q, e)[Len(q)+1] = e
  OBVIOUS
<1>2. DOMAIN q = 1 .. Len(q) /\ Len(q) \in Nat
  OBVIOUS
<1>3. 1 .. Len(q)+1 = (1 .. Len(q)) \union {Len(q)+1}
  BY <1>2
<1> QED
  BY <1>1, <1>2, <1>3 DEF Range

LEMMA ConcatParts ==
  ASSUME NEW T, NEW q \in Seq(T), NEW r \in Seq(T)
  PROVE  /\ q \o r \in Seq(T)
         /\ DOMAIN (q \o r) = 1 .. Len(q) + Len(r)
         /\ Len(q \o r) = Len(q) + Len(r)
         /\ \A i \in 1 .. Len(q) : (q \o r)[i] = q[i]
         /\ \A i \in 1 .. Len(r) : (q \o r)[Len(q) + i] = r[i]
OBVIOUS

LEMMA ConcatOne ==
  ASSUME NEW T, NEW q \in Seq(T), NEW e \in T
  PROVE  /\ q \o <<e>> \in Seq(T)
         /\ Len(q \o <<e>>) = Len(q) + 1
         /\ \A i \in 1 .. Len(q) : (q \o <<e>>)[i] = q[i]
         /\ (q \o <<e>>)[Len(q) + 1] = e
OBVIOUS

LEMMA ConcatElements ==
  ASSUME NEW T, NEW q \in Seq(T), NEW r \in Seq(T)
  PROVE  q \o r \in Seq(T) /\ Range(q \o r) = Range(q) \union Range(r)
<1>1. /\ q \o r \in Seq(T)
      /\ DOMAIN (q \o r) = 1 .. Len(q) + Len(r)
      /\ \A i \in 1 .. Len(q) : (q \o r)[i] = q[i]
      /\ \A i \in 1 .. Len(r) : (q \o r)[Len(q) + i] = r[i]
  BY ConcatParts
<1>2. /\ DOMAIN q = 1 .. Len(q) /\ Len(q) \in Nat
      /\ DOMAIN r = 1 .. Len(r) /\ Len(r) \in Nat
  OBVIOUS
<1>3. \A i \in 1 .. Len(q) + Len(r) :
         i \in 1 .. Len(q) \/ \E j \in 1 .. Len(r) : i = Len(q) + j
  <2> TAKE i \in 1 .. Len(q) + Len(r)
  <2>1. CASE i <= Len(q)
    BY <1>2, <2>1
  <2>2. CASE ~(i <= Len(q))
    <3>1. i - Len(q) \in 1 .. Len(r) /\ i = Len(q) + (i - Len(q))
      BY <1>2, <2>2
    <3> QED
      BY <3>1
  <2> QED
    BY <2>1, <2>2
<1>4. Range(q \o r) \subseteq Range(q) \union Range(r)
  <2>1. ASSUME NEW i \in 1 .. Len(q) + Len(r)
        PROVE  (q \o r)[i] \in Range(q) \union Range(r)
    <3>1. CASE i \in 1 .. Len(q)
      BY <1>1, <1>2, <3>1 DEF Range
    <3>2. CASE \E j \in 1 .. Len(r) : i = Len(q) + j
      BY <1>1, <1>2, <3>2 DEF Range
    <3> QED
      BY <1>3, <3>1, <3>2
  <2> QED
    BY <1>1, <2>1 DEF Range
<1>5. Range(q) \subseteq Range(q \o r)
  <2>1. \A i \in 1 .. Len(q) : i \in 1 .. Len(q) + Len(r)
    BY <1>2
  <2> QED
    BY <1>1, <1>2, <2>1 DEF Range
<1>6. Range(r) \subseteq Range(q \o r)
  <2>1. \A i \in 1 .. Len(r) : Len(q) + i \in 1 .. Len(q) + Len(r)
    BY <1>2
  <2> QED
    BY <1>1, <1>2, <2>1 DEF Range
<1> QED
  BY <1>1, <1>4, <1>5, <1>6

LEMMA InsertElements ==
  ASSUME NEW T, NEW q \in Seq(T), NEW e \in T, NEW p \in 1 .. Len(q)+1
  PROVE  /\ ListInsert(q, p, e) \in Seq(T)
         /\ Range(ListInsert(q, p, e)) = Range(q) \union {e}
<1> DEFINE a == SubSeq(q, 1, p-1)
           b == SubSeq(q, p, Len(q))
<1>1. /\ a \in Seq(T) /\ DOMAIN a = 1 .. p-1
      /\ \A i \in 1 .. p-1 : a[i] = q[i]
  OBVIOUS
<1>2. /\ b \in Seq(T) /\ DOMAIN b = 1 .. Len(q)-p+1
      /\ \A i \in 1 .. Len(q)-p+1 : b[i] = q[p+i-1]
  OBVIOUS
<1>3. Range(q) = Range(a) \union Range(b)
  <2>1. \A i \in 1 .. Len(q) :
          i \in 1 .. p-1 \/ \E j \in 1 .. Len(q)-p+1 : i = p+j-1
    <3> TAKE i \in 1 .. Len(q)
    <3>1. CASE i < p
      BY <3>1
    <3>2. CASE ~(i < p)
      <4>1. i-p+1 \in 1 .. Len(q)-p+1 /\ i = p+(i-p+1)-1
        BY <3>2
      <4> QED
        BY <4>1
    <3> QED
      BY <3>1, <3>2
  <2>2. \A i \in 1 .. p-1 : i \in 1 .. Len(q)
    OBVIOUS
  <2>3. \A j \in 1 .. Len(q)-p+1 : p+j-1 \in 1 .. Len(q)
    OBVIOUS
  <2>4. DOMAIN q = 1 .. Len(q)
    OBVIOUS
  <2> HIDE DEF a, b
  <2>5. Range(q) \subseteq Range(a) \union Range(b)
    <3>1. ASSUME NEW i \in 1 .. Len(q) PROVE q[i] \in Range(a) \union Range(b)
      <4>1. CASE i \in 1 .. p-1
        BY <1>1, <4>1 DEF Range
      <4>2. CASE \E j \in 1 .. Len(q)-p+1 : i = p+j-1
        <5>1. PICK j \in 1 .. Len(q)-p+1 : i = p+j-1
          BY <4>2
        <5>2. b[j] = q[i] /\ b[j] \in Range(b)
          BY <1>2, <5>1 DEF Range
        <5> QED
          BY <5>2
      <4> QED
        BY <2>1, <4>1, <4>2
    <3> QED
      BY <2>4, <3>1 DEF Range
  <2>6. Range(a) \subseteq Range(q)
    BY <1>1, <2>2, <2>4 DEF Range
  <2>7. Range(b) \subseteq Range(q)
    BY <1>2, <2>3, <2>4 DEF Range
  <2> QED
    BY <2>5, <2>6, <2>7
<1>4. <<e>> \in Seq(T) /\ Range(<<e>>) = {e}
  BY DEF Range
<1>5. ListInsert(q, p, e) = (a \o <<e>>) \o b
  BY DEF ListInsert
<1> HIDE DEF a, b
<1>6. a \o <<e>> \in Seq(T) /\ Range(a \o <<e>>) = Range(a) \union {e}
  <2> DEFINE x == <<e>>
  <2>1. a \in Seq(T) /\ x \in Seq(T) /\ Range(x) = {e}
    BY <1>1, <1>4
  <2> HIDE DEF x
  <2>2. a \o x \in Seq(T) /\ Range(a \o x) = Range(a) \union Range(x)
    BY <2>1, ConcatElements
  <2> QED
    BY <2>1, <2>2 DEF x
<1>7. /\ (a \o <<e>>) \o b \in Seq(T)
      /\ Range((a \o <<e>>) \o b) = Range(a \o <<e>>) \union Range(b)
  BY <1>2, <1>6, ConcatElements
<1> QED
  BY <1>3, <1>5, <1>6, <1>7

(* Deleting the elements of S from a list leaves a list of the others.     *)
LEMMA ListDelElements ==
  ASSUME NEW T, NEW q \in Seq(T), NEW S
  PROVE  /\ ListDel(q, S) \in Seq(T)
         /\ Range(ListDel(q, S)) = Range(q) \ S
<1> DEFINE kept == CHOOSE f : Solves(q, S, f, Len(q))
<1>1. ListDel(q, S) = kept[Len(q)]
  BY DEF ListDel, Solves, Step
<1>2. Solves(q, S, kept, Len(q))
  BY KeptExists
<1> HIDE DEF kept
<1> DEFINE Kept(k) == /\ kept[k] \in Seq(T)
                      /\ Range(kept[k]) = {q[i] : i \in 1 .. k} \ S
           P == {k \in Nat : k <= Len(q) => Kept(k)}
<1>3. 0 \in P
  <2>1. kept[0] = << >>
    <3>1. kept[0] = Step(q, S, kept, 0)
      BY <1>2 DEF Solves
    <3> QED
      BY <3>1 DEF Step
  <2>2. << >> \in Seq(T) /\ Range(<< >>) = {} /\ {q[i] : i \in 1 .. 0} = {}
    BY DEF Range
  <2>3. Kept(0)
    BY <2>1, <2>2
  <2> QED
    BY <2>3
<1>4. ASSUME NEW k \in P PROVE k + 1 \in P
  <2>1. SUFFICES ASSUME k + 1 <= Len(q) PROVE Kept(k + 1)
    OBVIOUS
  <2>2. Kept(k)
    BY <1>4, <2>1
  <2>3. kept[k+1] = IF q[k+1] \in S THEN kept[k] ELSE Append(kept[k], q[k+1])
    <3>1. k + 1 \in 0 .. Len(q) /\ k + 1 # 0 /\ (k + 1) - 1 = k
      BY <2>1
    <3>2. kept[k+1] = Step(q, S, kept, k+1)
      BY <1>2, <3>1 DEF Solves
    <3> QED
      BY <3>1, <3>2 DEF Step
  <2>4. {q[i] : i \in 1 .. k+1} = {q[i] : i \in 1 .. k} \union {q[k+1]}
    OBVIOUS
  <2>5. q[k+1] \in T
    BY <2>1
  <2>6. CASE q[k+1] \in S
    BY <2>2, <2>3, <2>4, <2>6
  <2>7. CASE q[k+1] \notin S
    <3>1. kept[k+1] = Append(kept[k], q[k+1])
      BY <2>3, <2>7
    <3>2. /\ Append(kept[k], q[k+1]) \in Seq(T)
          /\ Range(Append(kept[k], q[k+1])) = Range(kept[k]) \union {q[k+1]}
      BY <2>2, <2>5, AppendElements
    <3> QED
      BY <2>2, <2>4, <2>5, <2>7, <3>1, <3>2
  <2> QED
    BY <2>6, <2>7
<1>5. P = Nat
  <2> HIDE DEF P
  <2>1. P \in SUBSET Nat
    BY DEF P
  <2> QED
    BY <1>3, <1>4, <2>1, SetInduction
<1>6. Kept(Len(q))
  <2>1. Len(q) \in P
    <3> HIDE DEF P
    <3>1. Len(q) \in Nat
      OBVIOUS
    <3> QED
      BY <1>5, <3>1
  <2> QED
    BY <2>1
<1>7. Range(q) = {q[i] : i \in 1 .. Len(q)}
  BY DEF Range
<1> QED
  <2> HIDE DEF kept
  <2> QED
    BY <1>1, <1>6, <1>7

(* The elements of a list are in an order: each pair is in R.              *)
Sorted(q, R) == \A i, j \in DOMAIN q : i < j => <<q[i], q[j]>> \in R

(* Deleting elements keeps the order of the others.                        *)
LEMMA ListDelSorted ==
  ASSUME NEW T, NEW q \in Seq(T), NEW S, NEW R, Sorted(q, R)
  PROVE  Sorted(ListDel(q, S), R)
<1> DEFINE kept == CHOOSE f : Solves(q, S, f, Len(q))
<1>1. ListDel(q, S) = kept[Len(q)]
  BY DEF ListDel, Solves, Step
<1>3. Len(q) \in Nat /\ DOMAIN q = 1 .. Len(q)
  OBVIOUS
<1>2. Solves(q, S, kept, Len(q))
  <2>1. \E f : Solves(q, S, f, Len(q))
    BY <1>3, KeptExists
  <2> QED
    BY <2>1
<1> HIDE DEF kept
<1> DEFINE Kept(k) ==
             /\ kept[k] \in Seq(T)
             /\ \A i \in DOMAIN kept[k] : \E m \in 1 .. k : kept[k][i] = q[m]
             /\ Sorted(kept[k], R)
           P == {k \in Nat : k <= Len(q) => Kept(k)}
<1>4. 0 \in P
  <2>1. kept[0] = << >>
    <3>1. kept[0] = Step(q, S, kept, 0)
      BY <1>2 DEF Solves
    <3> QED
      BY <3>1 DEF Step
  <2>2. << >> \in Seq(T) /\ DOMAIN << >> = {}
    OBVIOUS
  <2>3. Kept(0)
    BY <2>1, <2>2 DEF Sorted
  <2> QED
    BY <2>3
<1>5. ASSUME NEW k \in P PROVE k + 1 \in P
  <2>1. SUFFICES ASSUME k + 1 <= Len(q) PROVE Kept(k + 1)
    OBVIOUS
  <2>2. Kept(k) /\ k \in Nat
    BY <1>5, <2>1, <1>3
  <2>3. kept[k+1] = IF q[k+1] \in S THEN kept[k] ELSE Append(kept[k], q[k+1])
    <3>1. k + 1 \in 0 .. Len(q) /\ k + 1 # 0 /\ (k + 1) - 1 = k
      BY <2>1
    <3>2. kept[k+1] = Step(q, S, kept, k+1)
      BY <1>2, <3>1 DEF Solves
    <3> QED
      BY <3>1, <3>2 DEF Step
  <2>4. k + 1 \in DOMAIN q /\ q[k+1] \in T /\ k + 1 \in 1 .. k + 1
        /\ 1 .. k \subseteq 1 .. k + 1
    BY <1>3, <2>1, <2>2
  <2>5. CASE q[k+1] \in S
    BY <2>2, <2>3, <2>4, <2>5
  <2>6. CASE q[k+1] \notin S
    <3> DEFINE r == kept[k]
               e == q[k+1]
    <3>1. kept[k+1] = Append(r, e) /\ r \in Seq(T) /\ e \in T
      BY <2>2, <2>3, <2>4, <2>6
    <3>2. \A i \in DOMAIN r : \E m \in 1 .. k : r[i] = q[m]
      BY <2>2
    <3>3. \A i \in DOMAIN r : <<r[i], e>> \in R
      <4>1. \A m \in 1 .. k : m \in DOMAIN q /\ m < k + 1
        BY <1>3, <2>1, <2>2
      <4>2. \A m \in 1 .. k : <<q[m], e>> \in R
        BY <2>4, <4>1 DEF Sorted
      <4> QED
        BY <3>2, <4>2
    <3>4. Sorted(r, R)
      BY <2>2
    <3> HIDE DEF r
    <3>5. /\ Append(r, e) \in Seq(T) /\ DOMAIN Append(r, e) = 1 .. Len(r) + 1
          /\ DOMAIN r = 1 .. Len(r) /\ Len(r) \in Nat
          /\ \A i \in 1 .. Len(r) : Append(r, e)[i] = r[i]
          /\ Append(r, e)[Len(r) + 1] = e
      BY <3>1
    <3>6. \A i \in DOMAIN Append(r, e) : \E m \in 1 .. k + 1 : Append(r, e)[i] = q[m]
      <4> SUFFICES ASSUME NEW i \in 1 .. Len(r) + 1
                   PROVE  \E m \in 1 .. k + 1 : Append(r, e)[i] = q[m]
        BY <3>5
      <4>1. CASE i \in 1 .. Len(r)
        <5>1. PICK m \in 1 .. k : r[i] = q[m]
          BY <3>2, <3>5, <4>1
        <5> QED
          BY <2>4, <3>5, <4>1, <5>1
      <4>2. CASE i = Len(r) + 1
        BY <2>4, <3>5, <4>2
      <4> QED
        BY <3>5, <4>1, <4>2
    <3>7. Sorted(Append(r, e), R)
      <4> SUFFICES ASSUME NEW i \in 1 .. Len(r) + 1, NEW j \in 1 .. Len(r) + 1, i < j
                   PROVE  <<Append(r, e)[i], Append(r, e)[j]>> \in R
        BY <3>5 DEF Sorted
      <4>1. i \in 1 .. Len(r) /\ Append(r, e)[i] = r[i]
        BY <3>5
      <4>2. CASE j = Len(r) + 1
        BY <3>3, <3>5, <4>1, <4>2
      <4>3. CASE j \in 1 .. Len(r)
        BY <3>4, <3>5, <4>1, <4>3 DEF Sorted
      <4>4. j = Len(r) + 1 \/ j \in 1 .. Len(r)
        BY <3>5
      <4> HIDE DEF e
      <4> QED
        BY <4>2, <4>3, <4>4
    <3> QED
      BY <3>1, <3>5, <3>6, <3>7
  <2> QED
    BY <2>5, <2>6
<1>6. P = Nat
  <2> HIDE DEF P
  <2>1. P \in SUBSET Nat
    BY DEF P
  <2> QED
    BY <1>4, <1>5, <2>1, SetInduction
<1>7. Kept(Len(q))
  <2>1. Len(q) \in P
    <3> HIDE DEF P
    <3> QED
      BY <1>3, <1>6
  <2> QED
    BY <2>1, <1>3
<1> QED
  BY <1>1, <1>7

(* Deleting what is not on a list leaves it as it is.                      *)
LEMMA ListDelAbsent ==
  ASSUME NEW T, NEW q \in Seq(T), NEW S, \A i \in DOMAIN q : q[i] \notin S
  PROVE  ListDel(q, S) = q
<1> DEFINE kept == CHOOSE f : Solves(q, S, f, Len(q))
<1>1. ListDel(q, S) = kept[Len(q)]
  BY DEF ListDel, Solves, Step
<1>3. Len(q) \in Nat /\ DOMAIN q = 1 .. Len(q)
  OBVIOUS
<1>2. Solves(q, S, kept, Len(q))
  <2>1. \E f : Solves(q, S, f, Len(q))
    BY <1>3, KeptExists
  <2> QED
    BY <2>1
<1> HIDE DEF kept
<1> DEFINE Kept(k) == /\ kept[k] \in Seq(T) /\ Len(kept[k]) = k
                      /\ \A i \in 1 .. k : kept[k][i] = q[i]
           P == {k \in Nat : k <= Len(q) => Kept(k)}
<1>4. 0 \in P
  <2>1. kept[0] = << >>
    <3>1. kept[0] = Step(q, S, kept, 0)
      BY <1>2 DEF Solves
    <3> QED
      BY <3>1 DEF Step
  <2>2. << >> \in Seq(T) /\ Len(<< >>) = 0 /\ 1 .. 0 = {}
    OBVIOUS
  <2>3. Kept(0)
    BY <2>1, <2>2
  <2> QED
    BY <2>3
<1>5. ASSUME NEW k \in P PROVE k + 1 \in P
  <2>1. SUFFICES ASSUME k + 1 <= Len(q) PROVE Kept(k + 1)
    OBVIOUS
  <2>2. Kept(k) /\ k \in Nat
    BY <1>5, <2>1, <1>3
  <2>3. k + 1 \in 1 .. Len(q) /\ q[k+1] \in T /\ q[k+1] \notin S
    BY <1>3, <2>1, <2>2
  <2>4. kept[k+1] = Append(kept[k], q[k+1])
    <3>1. k + 1 \in 0 .. Len(q) /\ k + 1 # 0 /\ (k + 1) - 1 = k
      BY <2>1
    <3>2. kept[k+1] = Step(q, S, kept, k+1)
      BY <1>2, <3>1 DEF Solves
    <3> QED
      BY <2>3, <3>1, <3>2 DEF Step
  <2> DEFINE r == kept[k]
             e == q[k+1]
  <2>5. r \in Seq(T) /\ Len(r) = k /\ e \in T /\ \A i \in 1 .. k : r[i] = q[i]
    BY <2>2, <2>3
  <2>6. kept[k+1] = Append(r, e)
    BY <2>4
  <2>7. e = q[k+1]
    OBVIOUS
  <2> HIDE DEF r, e
  <2>8. /\ Append(r, e) \in Seq(T) /\ Len(Append(r, e)) = k + 1
        /\ \A i \in 1 .. k : Append(r, e)[i] = r[i]
        /\ Append(r, e)[k + 1] = e
    BY <2>2, <2>5
  <2>9. \A i \in 1 .. k + 1 : i \in 1 .. k \/ i = k + 1
    BY <2>2
  <2> QED
    BY <2>5, <2>6, <2>7, <2>8, <2>9
<1>6. P = Nat
  <2> HIDE DEF P
  <2>1. P \in SUBSET Nat
    BY DEF P
  <2> QED
    BY <1>4, <1>5, <2>1, SetInduction
<1>7. Kept(Len(q))
  <2>1. Len(q) \in P
    <3> HIDE DEF P
    <3> QED
      BY <1>3, <1>6
  <2> QED
    BY <2>1, <1>3
<1>8. kept[Len(q)] = q
  <2> DEFINE r == kept[Len(q)]
  <2>1. r \in Seq(T) /\ Len(r) = Len(q) /\ \A i \in 1 .. Len(q) : r[i] = q[i]
    BY <1>7
  <2> HIDE DEF r
  <2>2. r = q
    BY <2>1
  <2> QED
    BY <2>2 DEF r
<1> QED
  BY <1>1, <1>8

(* The elements of a list with one inserted.                               *)
LEMMA ListInsertParts ==
  ASSUME NEW T, NEW q \in Seq(T), NEW e \in T, NEW p \in 1 .. Len(q) + 1
  PROVE  /\ DOMAIN ListInsert(q, p, e) = 1 .. Len(q) + 1
         /\ \A i \in 1 .. Len(q) + 1 :
              ListInsert(q, p, e)[i] =
                IF i < p THEN q[i] ELSE IF i = p THEN e ELSE q[i - 1]
<1> DEFINE r == ListInsert(q, p, e)
<1>0. Len(q) \in Nat /\ DOMAIN q = 1 .. Len(q)
  OBVIOUS
<1> DEFINE a == SubSeq(q, 1, p-1)
           b == SubSeq(q, p, Len(q))
           x == <<e>>
<1>1. a \in Seq(T) /\ Len(a) = p - 1 /\ \A i \in 1 .. p-1 : a[i] = q[i]
  OBVIOUS
<1>2. /\ b \in Seq(T) /\ Len(b) = Len(q) - p + 1
      /\ \A i \in 1 .. Len(q)-p+1 : b[i] = q[p+i-1]
  OBVIOUS
<1>3. x \in Seq(T) /\ Len(x) = 1 /\ x[1] = e
  OBVIOUS
<1>4. r = (a \o x) \o b
  BY DEF ListInsert
<1> HIDE DEF a, b, x, r
<1>5. /\ a \o x \in Seq(T) /\ Len(a \o x) = p
      /\ \A i \in 1 .. p-1 : (a \o x)[i] = a[i]
      /\ (a \o x)[p] = e
  <2>1. /\ a \o <<e>> \in Seq(T) /\ Len(a \o <<e>>) = Len(a) + 1
        /\ \A i \in 1 .. Len(a) : (a \o <<e>>)[i] = a[i]
        /\ (a \o <<e>>)[Len(a) + 1] = e
    BY <1>1, ConcatOne
  <2>2. Len(a) = p - 1 /\ (p - 1) + 1 = p
    BY <1>0, <1>1
  <2> QED
    BY <1>1, <2>1, <2>2 DEF x
<1> DEFINE y == a \o x
<1>6. y \in Seq(T) /\ Len(y) = p /\ r = y \o b
  BY <1>4, <1>5
<1>7. (\A i \in 1 .. p-1 : y[i] = q[i]) /\ y[p] = e
  BY <1>1, <1>5
<1> HIDE DEF y
<1>8. /\ DOMAIN (y \o b) = 1 .. Len(q) + 1
      /\ \A i \in 1 .. p : (y \o b)[i] = y[i]
      /\ \A i \in p + 1 .. Len(q) + 1 : (y \o b)[i] = b[i - p]
  BY <1>2, <1>6
<1>9. \A i \in p + 1 .. Len(q) + 1 : b[i - p] = q[i - 1]
  <2> TAKE i \in p + 1 .. Len(q) + 1
  <2>1. i - p \in 1 .. Len(q)-p+1 /\ p + (i - p) - 1 = i - 1
    BY <1>0
  <2>2. b[i - p] = q[p + (i - p) - 1]
    BY <1>2, <2>1
  <2> QED
    BY <2>1, <2>2
<1>10. ASSUME NEW i \in 1 .. Len(q) + 1
       PROVE  r[i] = IF i < p THEN q[i] ELSE IF i = p THEN e ELSE q[i - 1]
  <2>1. CASE i \in 1 .. p - 1
    BY <1>6, <1>7, <1>8, <2>1
  <2>2. CASE i = p
    BY <1>6, <1>7, <1>8, <2>2
  <2>3. CASE i \in p + 1 .. Len(q) + 1
    BY <1>6, <1>8, <1>9, <2>3
  <2> QED
    BY <1>0, <2>1, <2>2, <2>3
<1> QED
  BY <1>6, <1>8, <1>10 DEF r

(* An element between those that may come before and after it.             *)
LEMMA ListInsertSorted ==
  ASSUME NEW T, NEW q \in Seq(T), NEW e \in T, NEW p \in 1 .. Len(q) + 1, NEW R,
         Sorted(q, R),
         \A i \in 1 .. p - 1 : <<q[i], e>> \in R,
         \A i \in p .. Len(q) : <<e, q[i]>> \in R
  PROVE  Sorted(ListInsert(q, p, e), R)
<1> DEFINE r == ListInsert(q, p, e)
<1>1. Len(q) \in Nat /\ DOMAIN q = 1 .. Len(q)
  OBVIOUS
<1>2. /\ DOMAIN r = 1 .. Len(q) + 1
      /\ \A i \in 1 .. Len(q) + 1 :
           r[i] = IF i < p THEN q[i] ELSE IF i = p THEN e ELSE q[i - 1]
  BY ListInsertParts
<1> HIDE DEF r
<1> SUFFICES ASSUME NEW i \in 1 .. Len(q) + 1, NEW j \in 1 .. Len(q) + 1, i < j
             PROVE  <<r[i], r[j]>> \in R
  BY <1>2 DEF Sorted, r
<1>3. CASE i < p /\ j < p
  <2>1. r[i] = q[i] /\ r[j] = q[j] /\ i \in DOMAIN q /\ j \in DOMAIN q
    BY <1>1, <1>2, <1>3
  <2> QED
    BY <2>1 DEF Sorted
<1>4. CASE i < p /\ j = p
  BY <1>1, <1>2, <1>4
<1>5. CASE i < p /\ j > p
  <2>1. /\ r[i] = q[i] /\ r[j] = q[j - 1] /\ i \in DOMAIN q
        /\ j - 1 \in DOMAIN q /\ i < j - 1
    BY <1>1, <1>2, <1>5
  <2> QED
    BY <2>1 DEF Sorted
<1>6. CASE i = p
  BY <1>1, <1>2, <1>6
<1>7. CASE i > p
  <2>1. /\ r[i] = q[i - 1] /\ r[j] = q[j - 1] /\ i - 1 \in DOMAIN q
        /\ j - 1 \in DOMAIN q /\ i - 1 < j - 1
    BY <1>1, <1>2, <1>7
  <2> QED
    BY <2>1 DEF Sorted
<1> QED
  BY <1>3, <1>4, <1>5, <1>6, <1>7

-----------------------------------------------------------------------------
(* A C remainder is in range, whatever the sign of the dividend.           *)
LEMMA ModRange ==
  ASSUME NEW x \in Int, NEW n \in Nat, n > 0
  PROVE  x % n \in 0 .. n-1
OBVIOUS

(* A set of naturals that is not empty has a least element.                *)
LEMMA LeastExists ==
  ASSUME NEW S \in SUBSET Nat, S # {}
  PROVE  \E i \in S : \A j \in S : i <= j
<1>1. PICK x \in S : \A y \in S : ~(<<y, x>> \in OpToRel(<, Nat))
  BY NatLessThanWellFounded, WFMin
<1>2. \A y \in S : ~(y < x)
  BY <1>1 DEF OpToRel
<1> QED
  BY <1>2

(* The first alarm of a queue of tasks is an alarm, or 0.                  *)
LEMMA FirstAlarmType ==
  ASSUME NEW q \in Seq(Tasks), NEW al \in [Tasks -> 0 .. TickMod-1]
  PROVE  FirstAlarm(q, al) \in 0 .. TickMod-1
BY TaskAssumption DEF FirstAlarm

(* Inserting a task into the alarm queue links it, and no other.           *)
LEMMA AlarmInsertElements ==
  ASSUME NEW q \in Seq(Tasks), NEW al, NEW t \in Tasks
  PROVE  /\ AlarmInsert(q, al, t) \in Seq(Tasks)
         /\ Range(AlarmInsert(q, al, t)) = Range(q) \union {t}
<1> DEFINE later == {i \in DOMAIN q : Signed(al[q[i]] - al[t], ShortMod) >= 0}
           place == IF later = {} THEN Len(q) + 1
                    ELSE CHOOSE i \in later : \A j \in later : i <= j
<1>1. later \in SUBSET (1 .. Len(q)) /\ later \in SUBSET Nat
  OBVIOUS
<1>2. place \in 1 .. Len(q) + 1
  <2> HIDE DEF later
  <2>1. CASE later = {}
    BY <2>1
  <2>2. CASE later # {}
    <3>1. \E i \in later : \A j \in later : i <= j
      BY <1>1, <2>2, LeastExists
    <3>2. (CHOOSE i \in later : \A j \in later : i <= j) \in later
      BY <3>1
    <3>3. place \in later
      BY <2>2, <3>2
    <3> HIDE DEF place
    <3> QED
      BY <1>1, <3>3
  <2> QED
    BY <2>1, <2>2
<1>3. AlarmInsert(q, al, t) = ListInsert(q, place, t)
  BY DEF AlarmInsert
<1> HIDE DEF place
<1> QED
  BY <1>2, <1>3, InsertElements

(* The tasks whose alarm is due are on the alarm queue.                    *)
LEMMA DueOnQueue ==
  ASSUME NEW q \in Seq(Tasks), NEW al, NEW now
  PROVE  DueTasks(q, al, now) \subseteq Range(q)
BY DEF DueTasks, Range

LEMMA EmptyElements == Range(<< >>) = {}
BY DEF Range

(* The head of a run queue that is not empty is one of its tasks.          *)
LEMMA HeadElement ==
  ASSUME NEW q \in Seq(Tasks), q # << >>
  PROVE  Head(q) \in Tasks /\ Head(q) \in Range(q)
<1>1. Head(q) = q[1] /\ 1 \in DOMAIN q /\ q[1] \in Tasks
  OBVIOUS
<1> QED
  BY <1>1 DEF Range

(* Moving a task to the end of a queue links it there, and no other.       *)
LEMMA ToEndElements ==
  ASSUME NEW q \in Seq(Tasks), NEW t \in Tasks
  PROVE  /\ Append(ListDel(q, {t}), t) \in Seq(Tasks)
         /\ Range(Append(ListDel(q, {t}), t)) = Range(q) \union {t}
<1> DEFINE r == ListDel(q, {t})
<1>1. r \in Seq(Tasks) /\ Range(r) = Range(q) \ {t}
  BY ListDelElements
<1> HIDE DEF r
<1>2. Append(r, t) \in Seq(Tasks) /\ Range(Append(r, t)) = Range(r) \union {t}
  BY <1>1, AppendElements
<1> QED
  BY <1>1, <1>2 DEF r

-----------------------------------------------------------------------------
(* The scheduler starts with every task on one queue.                      *)
THEOREM InitInv == Init => Inv
<1> SUFFICES ASSUME Init PROVE Inv
  OBVIOUS
<1> USE TaskAssumption
<1>1. Range(BootOrder) \subseteq Tasks
  BY DEF Range
<1>2. TypeOK
  BY <1>1 DEF Init, TypeOK, Locations
<1>4. NoTaskLost /\ AlarmSet /\ Control
  BY <1>1, EmptyElements DEF Init, NoTaskLost, AlarmSet, Control, Runnable, Asleep
<1> QED
  BY <1>2, <1>4 DEF Inv

(* The parts of Inv about control and alarms that a dispatch preserves:    *)
(* the queue changes order only, and its head, if any, becomes current.    *)
LEMMA IdleDispatchInv ==
  ASSUME Inv, IdleDispatch PROVE Inv'
<1> USE TaskAssumption DEF Inv
<1>1. TypeOK'
  BY HeadElement DEF IdleDispatch, Dispatch, TypeOK, clock
<1>2. Head(run_queue) \in Range(run_queue) /\ Head(run_queue) \in Tasks
  BY HeadElement DEF IdleDispatch, TypeOK
<1>3. NoTaskLost' /\ AlarmSet' /\ Control'
  BY <1>2 DEF IdleDispatch, Dispatch, TypeOK, clock, NoTaskLost, AlarmSet,
              Control, Runnable, Asleep
<1> QED
  BY <1>1, <1>3

LEMMA RequeuedElements ==
  ASSUME Inv, NEW t \in Tasks, wchan[t] = NoChan => Runnable(t)
  PROVE  Requeued(t) \in Seq(Tasks) /\ Range(Requeued(t)) = Range(run_queue)
<1>1. run_queue \in Seq(Tasks)
  BY DEF Inv, TypeOK
<1>2. CASE wchan[t] = NoChan
  <2> DEFINE r == Append(ListDel(run_queue, {t}), t)
  <2>1. r \in Seq(Tasks) /\ Range(r) = Range(run_queue) \union {t}
    BY <1>1, ToEndElements
  <2>2. Requeued(t) = r
    BY <1>2 DEF Requeued
  <2> HIDE DEF r
  <2> QED
    BY <1>2, <2>1, <2>2 DEF Runnable
<1>3. CASE wchan[t] # NoChan
  BY <1>1, <1>3 DEF Requeued
<1> QED
  BY <1>2, <1>3

LEMMA YieldInv ==
  ASSUME Inv, NEW t \in Tasks, Yield(t) PROVE Inv'
<1> USE TaskAssumption DEF Inv
<1> DEFINE q == Requeued(t)
<1>1. Runnable(t) /\ t \in ao_tasks
  BY DEF Yield, At, Running, Control, NoTaskLost
<1>2. q \in Seq(Tasks) /\ Range(q) = Range(run_queue)
  BY <1>1, RequeuedElements
<1>3. q # << >> /\ Head(q) \in Tasks /\ Head(q) \in Range(q)
  <2> HIDE DEF q
  <2>1. t \in Range(q)
    BY <1>1, <1>2 DEF Runnable
  <2> QED
    BY <1>2, <2>1, EmptyElements, HeadElement
<1>4. run_queue' = q /\ idle' = FALSE /\ ao_cur_task' = Head(q)
  BY <1>3 DEF Yield, Dispatch
<1>5. UNCHANGED <<ao_tasks, alarm_queue, ao_sleep_queue, wchan, alarm, clock,
                  pc, goal, masked, window, left>>
  BY DEF Yield
<1> HIDE DEF q
<1>6. TypeOK'
  BY <1>2, <1>3, <1>4, <1>5 DEF TypeOK, clock
<1>7. NoTaskLost' /\ AlarmSet' /\ Control'
  BY <1>2, <1>3, <1>4, <1>5 DEF TypeOK, NoTaskLost, AlarmSet, Control,
                                Runnable, Asleep
<1> QED
  BY <1>6, <1>7

(* A task that exits is runnable, on no other queue and without an alarm.  *)
LEMMA ExitInv ==
  ASSUME Inv, NEW t \in Tasks, Exit(t) PROVE Inv'
<1> USE TaskAssumption DEF Inv
<1> DEFINE q == ListDel(run_queue, {t})
<1>1. q \in Seq(Tasks) /\ Range(q) = Range(run_queue) \ {t}
  BY ListDelElements DEF TypeOK
<1>2. /\ alarm_queue' \in Seq(Tasks)
      /\ Range(alarm_queue') = Range(alarm_queue) \ {t}
  BY ListDelElements DEF TypeOK, Exit
<1>3. t \notin Range(alarm_queue) /\ wchan[t] = NoChan /\ goal[t] = NoChan
  BY DEF Exit, At, Running, Control, AlarmSet
<1>4. /\ run_queue' = q
      /\ idle' = (q = << >>)
      /\ ao_cur_task' = IF q = << >> THEN NoTask ELSE Head(q)
      /\ ao_tasks' = ao_tasks \ {t}
      /\ pc' = [pc EXCEPT ![t] = "off"]
      /\ UNCHANGED <<ao_sleep_queue, wchan, alarm, clock, goal, masked,
                     window, left>>
  BY DEF Exit, Dispatch
<1> HIDE DEF q
<1>5. q # << >> => Head(q) \in Tasks /\ Head(q) \in Range(q)
  BY <1>1, HeadElement
<1>6. TypeOK'
  BY <1>1, <1>2, <1>4, <1>5 DEF TypeOK, clock, Locations
<1>7. \A c \in Chans : ~Asleep(t, c)
  BY <1>3 DEF NoTaskLost
<1>8. NoTaskLost'
  <2>1. \A u \in Tasks : Runnable(u)' <=> Runnable(u) /\ u # t
    BY <1>1, <1>4 DEF Runnable
  <2>2. \A u \in Tasks, c \in Chans : Asleep(u, c)' <=> Asleep(u, c)
    BY <1>4 DEF Asleep
  <2>3. ~idle' => ao_cur_task' \in Tasks /\ Runnable(ao_cur_task)'
    BY <1>4, <1>5 DEF Runnable
  <2>4. \A u \in Tasks : u \in ao_tasks' <=> u \in ao_tasks /\ u # t
    BY <1>4
  <2>5. wchan' = wchan /\ alarm' = alarm /\ ao_tasks' \subseteq Tasks
    BY <1>4, <1>6 DEF TypeOK
  <2> QED
    BY <1>7, <2>1, <2>2, <2>3, <2>4, <2>5 DEF NoTaskLost
<1>9. AlarmSet'
  BY <1>2, <1>3, <1>4 DEF TypeOK, AlarmSet
<1>10. Control'
  BY <1>1, <1>3, <1>4, <1>5 DEF TypeOK, Control, Runnable
<1> QED
  BY <1>6, <1>8, <1>9, <1>10

LEMMA SleepForInv ==
  ASSUME Inv, NEW t \in Tasks, NEW c \in Chans, NEW n \in Timeouts,
         SleepFor(t, c, n)
  PROVE  Inv'
<1> USE TaskAssumption DEF Inv
<1> DEFINE a == WakeTick(n)
<1>1. a \in 1 .. TickMod-1
  <2> DEFINE due == (ao_tick_count + n + 1) % TickMod
  <2>1. ao_tick_count + n + 1 \in Int
    BY DEF TypeOK
  <2>2. due \in 0 .. TickMod-1
    BY <2>1, ModRange
  <2>3. a = IF due = 0 THEN 1 ELSE due
    BY DEF WakeTick
  <2> HIDE DEF due, a
  <2> QED
    BY <2>2, <2>3
<1>2. /\ alarm' = [alarm EXCEPT ![t] = a]
      /\ alarm_queue' = AlarmInsert(alarm_queue, alarm', t)
      /\ ao_task_alarm_tick' = FirstAlarm(alarm_queue', alarm')
      /\ pc' = [pc EXCEPT ![t] = "armed"]
      /\ goal' = [goal EXCEPT ![t] = c]
      /\ window' = 0
      /\ left' = [left EXCEPT ![t] = n + 1]
      /\ UNCHANGED <<ao_tasks, run_queue, ao_sleep_queue, wchan,
                     ao_tick_count, ao_cur_task, idle, masked>>
  BY DEF SleepFor
<1> HIDE DEF a
<1>3. /\ alarm_queue' \in Seq(Tasks)
      /\ Range(alarm_queue') = Range(alarm_queue) \union {t}
  <2>1. alarm_queue \in Seq(Tasks)
    BY DEF TypeOK
  <2> QED
    BY <1>2, <2>1, AlarmInsertElements
<1>4. alarm' \in [Tasks -> 0 .. TickMod-1]
  BY <1>1, <1>2 DEF TypeOK
<1>5. ao_task_alarm_tick' \in 0 .. TickMod-1
  BY <1>2, <1>3, <1>4, FirstAlarmType
<1>6. TypeOK'
  BY <1>2, <1>3, <1>4, <1>5 DEF TypeOK, Locations
<1>7. /\ ao_cur_task = t /\ ~idle /\ pc[t] = "user"
      /\ wchan[t] = NoChan /\ t \in ao_tasks /\ Runnable(t)
  BY DEF SleepFor, At, Running, Control, NoTaskLost
<1>8. NoTaskLost'
  BY <1>2, <1>7 DEF TypeOK, NoTaskLost, Runnable, Asleep
<1>9. AlarmSet'
  <2>1. alarm'[t] # 0 /\ goal'[t] # NoChan /\ t \in ao_tasks'
    BY <1>1, <1>2, <1>7 DEF TypeOK
  <2>2. \A u \in Tasks : u # t => alarm'[u] = alarm[u] /\ goal'[u] = goal[u]
    BY <1>2 DEF TypeOK
  <2> QED
    BY <1>2, <1>3, <2>1, <2>2 DEF AlarmSet
<1>10. Control'
  BY <1>2, <1>7 DEF TypeOK, Control, Runnable
<1> QED
  BY <1>6, <1>8, <1>9, <1>10

(* The critical section of ao_sleep moves the running task from the run    *)
(* queue to the sleep queue of the channel.                                *)
LEMMA QueueInv ==
  ASSUME Inv, NEW t \in Tasks, NEW c \in Chans, Running(t),
         pc[t] \in {"user", "armed"}, pc[t] = "armed" => goal[t] = c,
         Queue(t, c), window' \in Nat, masked' \in [Tasks -> BOOLEAN]
  PROVE  Inv'
<1> USE TaskAssumption DEF Inv
<1>1. /\ run_queue' \in Seq(Tasks)
      /\ Range(run_queue') = Range(run_queue) \ {t}
  BY ListDelElements DEF TypeOK, Queue
<1>2. /\ wchan[t] = NoChan /\ t \in ao_tasks /\ Runnable(t)
      /\ \A d \in Chans : ~Asleep(t, d)
  BY DEF Running, Control, NoTaskLost
<1>3. ASSUME NEW d \in Chans
      PROVE  /\ ao_sleep_queue'[d] \in Seq(Tasks)
             /\ Range(ao_sleep_queue'[d]) =
                  IF d = c THEN Range(ao_sleep_queue[d]) \union {t}
                  ELSE Range(ao_sleep_queue[d])
  <2>1. ao_sleep_queue[d] \in Seq(Tasks)
    BY DEF TypeOK
  <2> DEFINE rest == ListDel(ao_sleep_queue[d], {t})
  <2>2. rest \in Seq(Tasks) /\ Range(rest) = Range(ao_sleep_queue[d]) \ {t}
    BY <2>1, ListDelElements
  <2>3. /\ Append(rest, t) \in Seq(Tasks)
        /\ Range(Append(rest, t)) = Range(ao_sleep_queue[d]) \union {t}
    BY <2>1, ToEndElements
  <2>4. ao_sleep_queue'[d] = IF d = c THEN Append(rest, t) ELSE rest
    BY DEF Queue
  <2> HIDE DEF rest
  <2> QED
    BY <1>2, <2>2, <2>3, <2>4 DEF Asleep
<1>4. ao_sleep_queue' \in [Chans -> Seq(Tasks)]
  <2>1. ao_sleep_queue' = [d \in Chans |-> ao_sleep_queue'[d]]
    BY DEF Queue
  <2> QED
    BY <1>3, <2>1
<1>5. /\ wchan' = [wchan EXCEPT ![t] = c]
      /\ pc' = [pc EXCEPT ![t] = "queued"]
      /\ UNCHANGED <<ao_tasks, alarm_queue, alarm, clock, ao_cur_task, idle,
                     goal, left>>
  BY DEF Queue
<1>6. TypeOK'
  BY <1>1, <1>4, <1>5 DEF TypeOK, clock, Locations
<1>7. NoTaskLost'
  <2>1. \A u \in Tasks, d \in Chans :
          Asleep(u, d)' <=> Asleep(u, d) \/ (u = t /\ d = c)
    BY <1>3 DEF Asleep
  <2>2. \A u \in Tasks : Runnable(u)' <=> Runnable(u) /\ u # t
    BY <1>1 DEF Runnable
  <2> QED
    BY <1>2, <1>5, <2>1, <2>2 DEF TypeOK, NoTaskLost
<1>8. AlarmSet'
  BY <1>5 DEF AlarmSet
<1>9. Control'
  BY <1>5 DEF TypeOK, Control, Running
<1> QED
  BY <1>6, <1>7, <1>8, <1>9

LEMMA SleepInv ==
  ASSUME Inv, NEW t \in Tasks, NEW c \in Chans, NEW critical \in BOOLEAN,
         Sleep(t, c, critical)
  PROVE  Inv'
<1>1. /\ Running(t) /\ pc[t] = "user" /\ Queue(t, c)
      /\ window' = window /\ masked' = [masked EXCEPT ![t] = @ \/ critical]
  BY DEF Sleep, At
<1>2. window' \in Nat /\ masked' \in [Tasks -> BOOLEAN]
  BY <1>1 DEF Inv, TypeOK
<1> QED
  BY <1>1, <1>2, QueueInv

LEMMA SleepArmedInv ==
  ASSUME Inv, NEW t \in Tasks, SleepArmed(t) PROVE Inv'
<1>1. Running(t) /\ pc[t] = "armed" /\ Queue(t, goal[t])
  BY DEF SleepArmed, At
<1>2. window' \in Nat /\ masked' \in [Tasks -> BOOLEAN]
  BY DEF Inv, TypeOK, SleepArmed
<1>3. goal[t] \in Chans
  BY <1>1 DEF Inv, TypeOK, Control
<1> QED
  BY <1>1, <1>2, <1>3, QueueInv

(* A task woken while it was about to yield is runnable already; the one   *)
(* that becomes current is.                                                *)
LEMMA SwitchInv ==
  ASSUME Inv, NEW t \in Tasks, Switch(t) PROVE Inv'
<1> USE TaskAssumption DEF Inv
<1> DEFINE q == Requeued(t)
<1>1. /\ ao_cur_task = t /\ ~idle /\ pc[t] = "queued" /\ t \in ao_tasks
      /\ wchan[t] = NoChan => Runnable(t)
  BY DEF Switch, At, Running, NoTaskLost
<1>2. q \in Seq(Tasks) /\ Range(q) = Range(run_queue)
  BY <1>1, RequeuedElements
<1>3. /\ run_queue' = q
      /\ idle' = (q = << >>)
      /\ ao_cur_task' = IF q = << >> THEN t ELSE Head(q)
      /\ pc' = [pc EXCEPT ![t] = "switched"]
      /\ UNCHANGED <<ao_tasks, alarm_queue, ao_sleep_queue, wchan, alarm,
                     clock, goal, masked, window, left>>
  BY DEF Switch, Dispatch
<1> HIDE DEF q
<1>4. q # << >> => Head(q) \in Tasks /\ Head(q) \in Range(q)
  BY <1>2, HeadElement
<1>5. TypeOK'
  BY <1>2, <1>3, <1>4 DEF TypeOK, clock, Locations
<1>6. NoTaskLost'
  BY <1>2, <1>3, <1>4 DEF TypeOK, NoTaskLost, Runnable, Asleep
<1>7. AlarmSet'
  BY <1>3 DEF AlarmSet
<1>8. Control'
  BY <1>1, <1>2, <1>3, <1>4 DEF TypeOK, Control, Runnable
<1> QED
  BY <1>5, <1>6, <1>7, <1>8

(* The alarm of a task that still waits when it runs has gone off.         *)
LEMMA SleepReturnInv ==
  ASSUME Inv, NEW t \in Tasks, SleepReturn(t) PROVE Inv'
<1> USE TaskAssumption DEF Inv
<1>1. ao_cur_task = t /\ ~idle /\ pc[t] = "switched" /\ Runnable(t)
  BY DEF SleepReturn, At, Running, Control
<1>2. \A c \in Chans : ~Asleep(t, c)
  BY <1>1 DEF NoTaskLost
<1>3. wchan' = [wchan EXCEPT ![t] = NoChan]
  BY DEF SleepReturn, TypeOK
<1>4. alarm' = alarm
  <2>1. CASE wchan[t] # NoChan
    <3>1. alarm[t] = 0
      BY <1>1, <2>1 DEF NoTaskLost
    <3> QED
      BY <2>1, <3>1 DEF SleepReturn, TypeOK
  <2>2. CASE wchan[t] = NoChan
    BY <2>2 DEF SleepReturn
  <2> QED
    BY <2>1, <2>2
<1>5. /\ pc' = [pc EXCEPT ![t] = IF goal[t] = NoChan THEN "user" ELSE "woken"]
      /\ UNCHANGED <<ao_tasks, queues, clock, ao_cur_task, idle, goal, masked,
                     window, left>>
  BY DEF SleepReturn
<1>6. TypeOK'
  BY <1>3, <1>4, <1>5 DEF TypeOK, clock, queues, Locations
<1>7. NoTaskLost'
  BY <1>2, <1>3, <1>4, <1>5 DEF TypeOK, NoTaskLost, Runnable, Asleep, queues
<1>8. AlarmSet'
  BY <1>4, <1>5 DEF AlarmSet, queues
<1>9. Control'
  BY <1>1, <1>3, <1>5 DEF TypeOK, Control, Runnable, queues
<1> QED
  BY <1>6, <1>7, <1>8, <1>9

LEMMA ClearAlarmInv ==
  ASSUME Inv, NEW t \in Tasks, ClearAlarm(t) PROVE Inv'
<1> USE TaskAssumption DEF Inv
<1>1. ao_cur_task = t /\ ~idle /\ pc[t] = "woken"
  BY DEF ClearAlarm, At, Running
<1>2. t \in ao_tasks /\ wchan[t] = NoChan /\ Runnable(t)
  BY <1>1 DEF Control, NoTaskLost
<1>3. /\ alarm_queue' \in Seq(Tasks)
      /\ Range(alarm_queue') = Range(alarm_queue) \ {t}
  BY ListDelElements DEF TypeOK, ClearAlarm
<1>4. /\ alarm' = [alarm EXCEPT ![t] = 0]
      /\ ao_task_alarm_tick' = FirstAlarm(alarm_queue', alarm)
      /\ pc' = [pc EXCEPT ![t] = "user"]
      /\ goal' = [goal EXCEPT ![t] = NoChan]
      /\ left' = [left EXCEPT ![t] = 0]
      /\ UNCHANGED <<ao_tasks, run_queue, ao_sleep_queue, wchan,
                     ao_tick_count, ao_cur_task, idle, masked, window>>
  BY DEF ClearAlarm
<1>5. ao_task_alarm_tick' \in 0 .. TickMod-1
  BY <1>3, <1>4, FirstAlarmType DEF TypeOK
<1>6. TypeOK'
  BY <1>3, <1>4, <1>5 DEF TypeOK, Locations
<1>7. NoTaskLost'
  BY <1>4 DEF TypeOK, NoTaskLost, Runnable, Asleep
<1>8. AlarmSet'
  BY <1>3, <1>4 DEF TypeOK, AlarmSet
<1>9. Control'
  BY <1>2, <1>4 DEF TypeOK, Control, Runnable
<1> QED
  BY <1>6, <1>7, <1>8, <1>9

(* A wake-up, by a task or an interrupt, moves a whole sleep queue.        *)
LEMMA WakeupInv ==
  ASSUME Inv, NEW c \in Chans, ao_wakeup(c), UNCHANGED masked
  PROVE  Inv'
<1> USE TaskAssumption DEF Inv
<1>1. /\ run_queue' \in Seq(Tasks)
      /\ Range(run_queue') = Range(run_queue) \union Range(ao_sleep_queue[c])
  BY ConcatElements DEF TypeOK, ao_wakeup
<1>2. /\ wchan' = [t \in Tasks |-> IF Asleep(t, c) THEN NoChan ELSE wchan[t]]
      /\ ao_sleep_queue' = [ao_sleep_queue EXCEPT ![c] = << >>]
      /\ UNCHANGED <<ao_tasks, alarm_queue, alarm, clock, ao_cur_task, idle,
                     pc, goal, window, left>>
  BY DEF ao_wakeup, Asleep
<1>3. TypeOK'
  <2>1. << >> \in Seq(Tasks)
    OBVIOUS
  <2> QED
    BY <1>1, <1>2, <2>1 DEF TypeOK, clock
<1>4. \A t \in Tasks, d \in Chans : Asleep(t, d)' <=> Asleep(t, d) /\ d # c
  BY <1>2, EmptyElements DEF TypeOK, Asleep
<1>5. \A t \in Tasks : Runnable(t)' <=> Runnable(t) \/ Asleep(t, c)
  BY <1>1 DEF Runnable, Asleep
<1>6. NoTaskLost'
  BY <1>2, <1>4, <1>5 DEF TypeOK, NoTaskLost
<1>7. AlarmSet'
  BY <1>2 DEF AlarmSet
<1>8. Control'
  BY <1>2, <1>5 DEF TypeOK, Control, NoTaskLost
<1> QED
  BY <1>3, <1>6, <1>7, <1>8

LEMMA MaskInv ==
  ASSUME Inv, NEW t \in Tasks, NEW blocked \in BOOLEAN, Mask(t, blocked)
  PROVE  Inv'
BY DEF Mask, Inv, TypeOK, NoTaskLost, AlarmSet, Control, Runnable, Asleep,
       queues, clock

LEMMA AddTaskInv ==
  ASSUME Inv, NEW t \in Tasks, NEW u \in Tasks, AddTask(t, u)
  PROVE  Inv'
<1> USE TaskAssumption DEF Inv
<1>1. /\ run_queue' \in Seq(Tasks)
      /\ Range(run_queue') = Range(run_queue) \union {u}
  BY AppendElements DEF TypeOK, AddTask
<1>2. /\ ao_tasks' = ao_tasks \union {u}
      /\ wchan' = [wchan EXCEPT ![u] = NoChan]
      /\ pc' = [pc EXCEPT ![u] = "user"]
      /\ UNCHANGED <<alarm_queue, ao_sleep_queue, alarm, clock, ao_cur_task,
                     idle, goal, masked, window, left>>
  BY DEF AddTask
<1>3. u \notin ao_tasks /\ pc[u] = "off" /\ goal[u] = NoChan /\ alarm[u] = 0
  BY DEF AddTask, TypeOK, Control, AlarmSet
<1>4. TypeOK'
  BY <1>1, <1>2 DEF TypeOK, clock, Locations
<1>5. \A v \in Tasks : Runnable(v)' <=> Runnable(v) \/ v = u
  BY <1>1 DEF Runnable
<1>6. \A v \in Tasks, c \in Chans : Asleep(v, c)' <=> Asleep(v, c)
  BY <1>2 DEF Asleep
<1>7. NoTaskLost'
  BY <1>2, <1>3, <1>5, <1>6 DEF TypeOK, NoTaskLost
<1>8. AlarmSet'
  BY <1>2 DEF AlarmSet
<1>9. Control'
  BY <1>2, <1>3, <1>5 DEF TypeOK, Control, NoTaskLost
<1> QED
  BY <1>4, <1>7, <1>8, <1>9

(* The due tasks leave the queues they are on for the run queue.           *)
LEMMA TickInv ==
  ASSUME Inv, Tick PROVE Inv'
<1> USE TaskAssumption DEF Inv
<1>1. ao_tick_count' \in 0 .. TickMod-1
  <2>1. ao_tick_count + 1 \in Int
    BY DEF TypeOK
  <2> QED
    BY <2>1, ModRange DEF Tick
<1>2. window' \in Nat
  BY DEF Tick, TypeOK
<1>3. left' \in [Tasks -> Int]
  BY DEF Tick, TypeOK
<1>4. UNCHANGED <<ao_tasks, wchan, ao_cur_task, idle, pc, goal, masked>>
  BY DEF Tick
<1>5. CASE UNCHANGED <<queues, alarm, ao_task_alarm_tick>>
  <2>1. TypeOK'
    BY <1>1, <1>2, <1>3, <1>4, <1>5 DEF TypeOK, queues
  <2>2. NoTaskLost' /\ AlarmSet' /\ Control'
    BY <1>4, <1>5 DEF NoTaskLost, AlarmSet, Control, Runnable, Asleep, queues
  <2> QED
    BY <2>1, <2>2
<1>6. CASE ao_task_alarm(ao_tick_count')
  <2> DEFINE due == DueTasks(alarm_queue, alarm, ao_tick_count')
  <2>1. alarm_queue \in Seq(Tasks) /\ run_queue \in Seq(Tasks)
    BY DEF TypeOK
  <2>2. due \subseteq Range(alarm_queue)
    BY <2>1, DueOnQueue
  <2>3. /\ alarm' = [t \in Tasks |-> IF t \in due THEN 0 ELSE alarm[t]]
        /\ alarm_queue' = ListDel(alarm_queue, due)
        /\ run_queue' = ListDel(run_queue, due)
                          \o ListDel(alarm_queue, Range(alarm_queue) \ due)
        /\ ao_sleep_queue' =
             [c \in Chans |-> ListDel(ao_sleep_queue[c], due)]
        /\ ao_task_alarm_tick' = IF due = {} THEN ao_task_alarm_tick
                                 ELSE FirstAlarm(alarm_queue', alarm')
    BY <1>6 DEF ao_task_alarm
  <2> HIDE DEF due
  <2>4. /\ alarm_queue' \in Seq(Tasks)
        /\ Range(alarm_queue') = Range(alarm_queue) \ due
    BY <2>1, <2>3, ListDelElements
  <2>5. /\ run_queue' \in Seq(Tasks)
        /\ Range(run_queue') = Range(run_queue) \union due
    <3> DEFINE a == ListDel(run_queue, due)
               b == ListDel(alarm_queue, Range(alarm_queue) \ due)
    <3>1. a \in Seq(Tasks) /\ Range(a) = Range(run_queue) \ due
      BY <2>1, ListDelElements
    <3>2. b \in Seq(Tasks) /\ Range(b) = due
      <4>1. /\ b \in Seq(Tasks)
            /\ Range(b) = Range(alarm_queue) \ (Range(alarm_queue) \ due)
        BY <2>1, ListDelElements
      <4> HIDE DEF b
      <4> QED
        BY <2>2, <4>1
    <3>3. run_queue' = a \o b
      BY <2>3
    <3> HIDE DEF a, b
    <3> QED
      BY <3>1, <3>2, <3>3, ConcatElements
  <2>6. ASSUME NEW c \in Chans
        PROVE  /\ ao_sleep_queue'[c] \in Seq(Tasks)
               /\ Range(ao_sleep_queue'[c]) = Range(ao_sleep_queue[c]) \ due
    <3>1. ao_sleep_queue[c] \in Seq(Tasks)
      BY DEF TypeOK
    <3> QED
      BY <2>3, <3>1, ListDelElements
  <2>7. alarm' \in [Tasks -> 0 .. TickMod-1]
    BY <2>3 DEF TypeOK
  <2>8. ao_task_alarm_tick' \in 0 .. TickMod-1
    BY <2>3, <2>4, <2>7, FirstAlarmType DEF TypeOK
  <2>9. TypeOK'
    <3>1. ao_sleep_queue' \in [Chans -> Seq(Tasks)]
      BY <2>3, <2>6
    <3> QED
      BY <1>1, <1>2, <1>3, <1>4, <2>4, <2>5, <2>7, <2>8, <3>1 DEF TypeOK
  <2>10. \A t \in Tasks : Runnable(t)' <=> Runnable(t) \/ t \in due
    BY <2>5 DEF Runnable
  <2>11. \A t \in Tasks, c \in Chans :
            Asleep(t, c)' <=> Asleep(t, c) /\ t \notin due
    BY <2>6 DEF Asleep
  <2>12. \A t \in due : t \in ao_tasks
    BY <2>1, <2>2 DEF AlarmSet, Range
  <2>13. NoTaskLost'
    BY <1>4, <2>3, <2>10, <2>11, <2>12 DEF TypeOK, NoTaskLost
  <2>14. AlarmSet'
    BY <1>4, <2>2, <2>3, <2>4 DEF TypeOK, AlarmSet
  <2>15. Control'
    BY <1>4, <2>10 DEF TypeOK, NoTaskLost, Control
  <2> QED
    BY <2>9, <2>13, <2>14, <2>15
<1> QED
  BY <1>5, <1>6 DEF Tick

-----------------------------------------------------------------------------
(* No step of the scheduler breaks its invariant.                          *)
THEOREM NextInv == Inv /\ [Next]_vars => Inv'
<1> SUFFICES ASSUME Inv, [Next]_vars PROVE Inv'
  OBVIOUS
<1>1. ASSUME NEW t \in Tasks, UserStep(t) PROVE Inv'
  <2>1. CASE Yield(t)
    BY <2>1, YieldInv
  <2>2. CASE \E c \in Chans, critical \in BOOLEAN : Sleep(t, c, critical)
    BY <2>2, SleepInv
  <2>3. CASE \E c \in Chans : Wakeup(t, c)
    BY <2>3, WakeupInv DEF Wakeup
  <2>4. CASE \E c \in Chans, n \in Timeouts : SleepFor(t, c, n)
    BY <2>4, SleepForInv
  <2>5. CASE \E blocked \in BOOLEAN : Mask(t, blocked)
    BY <2>5, MaskInv
  <2>6. CASE \E u \in Tasks : AddTask(t, u)
    BY <2>6, AddTaskInv
  <2>7. CASE Exit(t)
    BY <2>7, ExitInv
  <2> QED
    BY <1>1, <2>1, <2>2, <2>3, <2>4, <2>5, <2>6, <2>7 DEF UserStep
<1>2. ASSUME NEW t \in Tasks, KernelStep(t) PROVE Inv'
  BY <1>2, SleepArmedInv, SwitchInv, SleepReturnInv, ClearAlarmInv DEF KernelStep
<1>3. CASE IdleDispatch
  BY <1>3, IdleDispatchInv
<1>4. CASE Tick
  BY <1>4, TickInv
<1>5. CASE \E c \in IrqChans : IrqWakeup(c)
  BY <1>5, WakeupInv, TaskAssumption DEF IrqWakeup
<1>6. CASE UNCHANGED vars
  BY <1>6 DEF vars, Inv, TypeOK, NoTaskLost, AlarmSet, Control, Runnable, Asleep
<1> QED
  BY <1>1, <1>2, <1>3, <1>4, <1>5, <1>6 DEF Next

(* Inv holds in every state the scheduler reaches.                         *)
THEOREM SchedulerInv == Spec => []Inv
BY InitInv, NextInv, PTL DEF Spec

(* The scheduler never loses a task: see NoTaskLost.                       *)
THEOREM SchedulerLosesNoTask == Spec => []NoTaskLost
BY SchedulerInv, PTL DEF Inv

(* Alarms and the alarm queue agree in every reachable state.              *)
THEOREM SchedulerAlarmSet == Spec => []AlarmSet
BY SchedulerInv, PTL DEF Inv

-----------------------------------------------------------------------------
(* A number is a multiple of n and a remainder, in one way only.           *)
LEMMA ModSplit ==
  ASSUME NEW x \in Int, NEW n \in Nat, n > 0
  PROVE  x % n \in 0 .. n-1 /\ \E k \in Int : x = k * n + (x % n)
<1>1. x = n * (x \div n) + (x % n) /\ x \div n \in Int
  OBVIOUS
<1> QED
  BY <1>1

LEMMA ModUnique ==
  ASSUME NEW n \in Nat, n > 0, NEW k \in Int, NEW d \in 0 .. n-1
  PROVE  (k * n + d) % n = d
<1> DEFINE x == k * n + d
           m == x % n
<1>1. x \in Int
  OBVIOUS
<1> HIDE DEF x
<1>2. m \in 0 .. n-1 /\ \E j \in Int : x = j * n + m
  BY <1>1, ModSplit
<1>3. PICK j \in Int : x = j * n + m
  BY <1>2
<1> HIDE DEF m
<1>4. (k - j) * n = m - d
  BY <1>2, <1>3 DEF x
<1>5. CASE k - j >= 1
  <2>1. (k - j) * n >= n
    BY <1>5
  <2> QED
    BY <1>2, <1>4, <2>1
<1>6. CASE k - j <= -1
  <2>1. (k - j) * n <= -n
    BY <1>6
  <2> QED
    BY <1>2, <1>4, <2>1
<1>7. CASE k = j
  <2>1. m = d
    BY <1>2, <1>4, <1>7
  <2> QED
    BY <2>1 DEF m, x
<1> QED
  BY <1>5, <1>6, <1>7

(* The cast of a number that fits, but for multiples of the width, is the  *)
(* number.                                                                 *)
LEMMA SignedOf ==
  ASSUME NEW n \in Nat, n > 0, NEW k \in Int, NEW d \in Int,
         -n <= 2 * d, 2 * d < n
  PROVE  Signed(k * n + d, n) = d
<1>1. CASE d >= 0
  <2>1. (k * n + d) % n = d
    BY <1>1, ModUnique
  <2> QED
    BY <2>1 DEF Signed
<1>2. CASE d < 0
  <2>1. d + n \in 0 .. n-1 /\ k - 1 \in Int /\ 2 * (d + n) >= n
    BY <1>2
  <2>2. ((k - 1) * n + (d + n)) % n = d + n
    BY <2>1, ModUnique
  <2>3. (k - 1) * n + (d + n) = k * n + d
    OBVIOUS
  <2>4. (k * n + d) % n = d + n
    BY <2>2, <2>3
  <2> QED
    BY <2>1, <2>4 DEF Signed
<1> QED
  BY <1>1, <1>2

(* Adding to a remainder is adding to the number.                          *)
LEMMA ModAdd ==
  ASSUME NEW n \in Nat, n > 0, NEW x \in Int, NEW y \in Int
  PROVE  ((x % n) + y) % n = (x + y) % n
<1> DEFINE m == x % n
           d == (x + y) % n
<1>1. m \in 0 .. n-1 /\ \E k \in Int : x = k * n + m
  BY ModSplit
<1>2. d \in 0 .. n-1 /\ \E k \in Int : x + y = k * n + d
  BY ModSplit
<1> HIDE DEF m, d
<1>3. PICK i \in Int : x = i * n + m
  BY <1>1
<1>4. PICK j \in Int : x + y = j * n + d
  BY <1>2
<1>5. m + y = (j - i) * n + d
  BY <1>1, <1>2, <1>3, <1>4
<1>6. ((j - i) * n + d) % n = d
  <2>1. j - i \in Int
    OBVIOUS
  <2> QED
    BY <1>2, <2>1, ModUnique
<1>7. (m + y) % n = d
  BY <1>5, <1>6
<1> QED
  BY <1>7 DEF m, d

(* The cast of the difference of two remainders is the difference of the   *)
(* numbers, if that fits.                                                  *)
LEMMA SignedApart ==
  ASSUME NEW w \in Nat, w > 0, NEW c \in Nat, c > 0, NEW n, n = c * w,
         NEW x \in Int, NEW y \in Int, NEW z, z = x - y, -w <= 2 * z, 2 * z < w
  PROVE  Signed((x % n) - (y % n), w) = z
<1> DEFINE a == x % n
           b == y % n
<1>1. n \in Nat /\ n > 0 /\ n = c * w
  OBVIOUS
<1>2. a \in 0 .. n-1 /\ \E k \in Int : x = k * n + a
  BY <1>1, ModSplit
<1>3. b \in 0 .. n-1 /\ \E k \in Int : y = k * n + b
  BY <1>1, ModSplit
<1> HIDE DEF a, b
<1>4. PICK i \in Int : x = i * n + a
  BY <1>2
<1>5. PICK j \in Int : y = j * n + b
  BY <1>3
<1>6. a - b = (j - i) * n + z
  <2>1. a = x - i * n /\ b = y - j * n
    BY <1>1, <1>2, <1>3, <1>4, <1>5
  <2>2. j * n \in Int /\ i * n \in Int /\ (j - i) * n = j * n - i * n
    BY <1>1
  <2> QED
    BY <2>1, <2>2
<1>7. (j - i) * n = ((j - i) * c) * w
  BY <1>1
<1>8. (j - i) * c \in Int /\ z \in Int
  OBVIOUS
<1>9. Signed(((j - i) * c) * w + z, w) = z
  BY <1>8, SignedOf
<1>10. Signed(a - b, w) = z
  BY <1>6, <1>7, <1>9
<1> QED
  BY <1>10 DEF a, b

-----------------------------------------------------------------------------
(* What the theorems about time ask of the callers of ao_sleep_for and of  *)
(* the clock: a timeout is shorter than half the range the alarm queue     *)
(* compares in, and longer than the code between the two critical sections *)
(* takes; the range of the clock is a multiple of that of the comparison.  *)
TimeoutsFit ==
  /\ \A n \in Timeouts : 2 * (n + 1) < ShortMod /\ WindowTicks <= n
  /\ \E k \in Nat : TickMod = k * ShortMod

(* The ticks until the alarm of t: those it has left to wait, and one more *)
(* when the clock would be at 0, which is no alarm.                        *)
DueIn(t) == left[t] + IF (ao_tick_count + left[t]) % TickMod = 0 THEN 1 ELSE 0

(* Pairs of tasks in the order their alarms are due.                       *)
InOrder == {p \in Tasks \X Tasks : p[1] # p[2] /\ DueIn(p[1]) <= DueIn(p[2])}

(* An alarm is as far from the clock as its task still has to wait.        *)
Planned ==
  \A t \in Tasks : goal[t] # NoChan =>
    /\ alarm[t] = 0 => left[t] <= 0
    /\ alarm[t] # 0 => /\ left[t] >= 0 /\ 2 * left[t] < ShortMod
                       /\ DueIn(t) > 0
                       /\ alarm[t] = (ao_tick_count + DueIn(t)) % TickMod

(* A task between the critical sections of ao_sleep_for runs, and its      *)
(* timeout outlasts what the code in between can still take.               *)
ArmedInTime ==
  \A t \in Tasks : pc[t] = "armed" =>
    Running(t) /\ window <= WindowTicks /\ left[t] + window > WindowTicks

FirstNext == ao_task_alarm_tick = FirstAlarm(alarm_queue, alarm)

(* The inductive invariant of the clock, on top of Inv.                    *)
TimeInv ==
  /\ Planned
  /\ Sorted(alarm_queue, InOrder)
  /\ FirstNext
  /\ ArmedInTime
  /\ TimeoutPending

LEMMA DueInType ==
  ASSUME TypeOK, NEW t \in Tasks
  PROVE  DueIn(t) \in Int /\ left[t] \in Int
         /\ (DueIn(t) = left[t] \/ DueIn(t) = left[t] + 1)
BY DEF TypeOK, DueIn

(* Before the first task runs no alarm is set.                             *)
THEOREM InitTime == Init => TimeInv
<1> SUFFICES ASSUME Init PROVE TimeInv
  OBVIOUS
<1>1. Planned /\ ArmedInTime /\ TimeoutPending
  BY EmptyElements DEF Init, Planned, ArmedInTime, TimeoutPending, Asleep
<1>2. alarm_queue = << >> /\ DOMAIN << >> = {}
  BY DEF Init
<1>3. Sorted(alarm_queue, InOrder)
  BY <1>2 DEF Sorted
<1>4. FirstNext
  BY DEF Init, FirstNext, FirstAlarm
<1> QED
  BY <1>1, <1>3, <1>4 DEF TimeInv

(* Steps that leave the clock, the alarms and the timeouts alone.          *)
LEMMA TimeKept ==
  ASSUME TimeInv, UNCHANGED <<alarm_queue, alarm, clock, left, goal>>,
         ArmedInTime', TimeoutPending'
  PROVE  TimeInv'
<1>1. \A t \in Tasks : DueIn(t)' = DueIn(t)
  BY DEF DueIn, clock
<1>2. InOrder' = InOrder
  BY <1>1 DEF InOrder
<1>3. Planned'
  BY <1>1 DEF TimeInv, Planned, clock
<1>4. Sorted(alarm_queue, InOrder)'
  <2>1. Sorted(alarm_queue, InOrder)
    BY DEF TimeInv
  <2> QED
    BY <1>2, <2>1 DEF Sorted
<1>5. FirstNext'
  BY DEF TimeInv, FirstNext, clock
<1> QED
  BY <1>3, <1>4, <1>5 DEF TimeInv

(* A step of a task, or one taken while the CPU waits, after which no task *)
(* is between its critical sections.                                       *)
LEMMA NoneArmed ==
  ASSUME TypeOK, ArmedInTime,
         idle \/ \E t \in Tasks : Running(t) /\ (pc[t] # "armed" \/ pc'[t] # "armed"),
         \A u \in Tasks : pc'[u] = "armed" => pc[u] = "armed"
  PROVE  ArmedInTime'
<1>1. \A u \in Tasks : pc'[u] # "armed"
  BY DEF ArmedInTime, Running
<1> QED
  BY <1>1 DEF ArmedInTime

(* The alarm queue with a task inserted is in an order R when the tasks    *)
(* whose alarm does not come before the new one are those after it in R.   *)
LEMMA AlarmInsertSorted ==
  ASSUME NEW q \in Seq(Tasks), NEW al, NEW t \in Tasks, NEW R, Sorted(q, R),
         \A i \in DOMAIN q : Signed(al[q[i]] - al[t], ShortMod) >= 0
                               => <<t, q[i]>> \in R,
         \A i \in DOMAIN q : ~(Signed(al[q[i]] - al[t], ShortMod) >= 0)
                               => <<q[i], t>> \in R,
         \A i, j \in DOMAIN q : i < j /\ Signed(al[q[i]] - al[t], ShortMod) >= 0
                                  => Signed(al[q[j]] - al[t], ShortMod) >= 0
  PROVE  Sorted(AlarmInsert(q, al, t), R)
<1> DEFINE Late(i) == Signed(al[q[i]] - al[t], ShortMod) >= 0
           later == {i \in DOMAIN q : Late(i)}
           place == IF later = {} THEN Len(q) + 1
                    ELSE CHOOSE i \in later : \A j \in later : i <= j
<1>1. DOMAIN q = 1 .. Len(q) /\ Len(q) \in Nat
  OBVIOUS
<1>2. \A i \in DOMAIN q : (Late(i) => <<t, q[i]>> \in R)
                          /\ (~Late(i) => <<q[i], t>> \in R)
  OBVIOUS
<1>3. \A i, j \in DOMAIN q : i < j /\ Late(i) => Late(j)
  OBVIOUS
<1>4. AlarmInsert(q, al, t) = ListInsert(q, place, t)
  BY DEF AlarmInsert
<1> HIDE DEF Late, place
<1>5. /\ place \in 1 .. Len(q) + 1
      /\ \A i \in 1 .. place - 1 : ~Late(i)
      /\ \A i \in place .. Len(q) : Late(i)
  <2>1. CASE later = {}
    <3>1. place = Len(q) + 1
      BY <2>1 DEF place
    <3> QED
      BY <1>1, <2>1, <3>1
  <2>2. CASE later # {}
    <3>1. later \in SUBSET Nat
      BY <1>1
    <3>2. \E i \in later : \A j \in later : i <= j
      BY <2>2, <3>1, LeastExists
    <3>3. place = CHOOSE i \in later : \A j \in later : i <= j
      BY <2>2 DEF place
    <3>4. place \in later /\ \A j \in later : place <= j
      BY <3>2, <3>3
    <3>5. place \in 1 .. Len(q) /\ Late(place)
      BY <1>1, <3>4
    <3>6. \A i \in place .. Len(q) : i = place \/ (i \in DOMAIN q /\ place < i)
      BY <1>1, <3>5
    <3>7. \A i \in place .. Len(q) : Late(i)
      BY <1>1, <1>3, <3>5, <3>6
    <3>8. ASSUME NEW i \in 1 .. place - 1 PROVE ~Late(i)
      <4>1. i \in DOMAIN q /\ ~(place <= i)
        BY <1>1, <3>5
      <4> QED
        BY <3>4, <4>1
    <3> QED
      BY <1>1, <3>5, <3>7, <3>8
  <2> QED
    BY <2>1, <2>2
<1>6. /\ \A i \in 1 .. place - 1 : <<q[i], t>> \in R
      /\ \A i \in place .. Len(q) : <<t, q[i]>> \in R
  <2>1. 1 .. place - 1 \subseteq DOMAIN q /\ place .. Len(q) \subseteq DOMAIN q
    BY <1>1, <1>5
  <2> QED
    BY <1>2, <1>5, <2>1
<1> HIDE DEF later
<1>7. Sorted(ListInsert(q, place, t), R)
  BY <1>5, <1>6, ListInsertSorted
<1> QED
  BY <1>4, <1>7

(* The alarm of a task is as far off as DueIn says.                        *)
LEMMA WakeTickPlanned ==
  ASSUME TaskAssumption, TypeOK, NEW n \in Timeouts,
         NEW d, d = n + 1 + IF (ao_tick_count + (n + 1)) % TickMod = 0 THEN 1 ELSE 0
  PROVE  WakeTick(n) = (ao_tick_count + d) % TickMod
<1> DEFINE x == ao_tick_count + (n + 1)
           due == x % TickMod
<1>1. x \in Int /\ TickMod \in Nat /\ TickMod > 1 /\ n \in Nat
      /\ ao_tick_count \in Int
  BY DEF TaskAssumption, TypeOK
<1>2. ao_tick_count + n + 1 = x
  BY <1>1
<1>3. WakeTick(n) = IF due = 0 THEN 1 ELSE due
  BY <1>1, <1>2 DEF WakeTick
<1> HIDE DEF x
<1>4. CASE due = 0
  <2>1. (due + 1) % TickMod = (x + 1) % TickMod
    BY <1>1, ModAdd
  <2>2. (due + 1) % TickMod = 1
    <3>1. 1 \in 0 .. TickMod - 1 /\ 0 * TickMod + 1 = due + 1
      BY <1>1, <1>4
    <3>2. (0 * TickMod + 1) % TickMod = 1
      BY <1>1, <3>1, ModUnique
    <3> QED
      BY <3>1, <3>2
  <2>3. d = n + 2
    BY <1>1, <1>4 DEF x
  <2>4. ao_tick_count + d = x + 1
    BY <1>1, <2>3 DEF x
  <2> QED
    BY <1>3, <1>4, <2>1, <2>2, <2>4
<1>5. CASE due # 0
  <2>1. d = n + 1
    BY <1>1, <1>5 DEF x
  <2> QED
    BY <1>3, <1>5, <2>1 DEF x
<1> QED
  BY <1>4, <1>5

LEMMA AlarmsApart ==
  ASSUME TaskAssumption, TimeoutsFit, NEW now \in Int, NEW x \in Int, NEW y \in Int,
         -ShortMod <= 2 * (x - y), 2 * (x - y) < ShortMod
  PROVE  Signed(((now + x) % TickMod) - ((now + y) % TickMod), ShortMod) = x - y
<1>1. PICK k \in Nat : TickMod = k * ShortMod
  BY DEF TimeoutsFit
<1>2. ShortMod \in Nat /\ ShortMod > 0 /\ TickMod \in Nat /\ TickMod > 1
  BY DEF TaskAssumption
<1>3. k > 0
  BY <1>1, <1>2
<1>4. now + x \in Int /\ now + y \in Int /\ x - y = (now + x) - (now + y)
  OBVIOUS
<1> QED
  BY <1>1, <1>2, <1>3, <1>4, SignedApart

LEMMA AlarmFromNow ==
  ASSUME TaskAssumption, NEW now \in Int, NEW x \in Int,
         -TickMod <= 2 * (1 - x), 2 * (1 - x) < TickMod
  PROVE  Signed(((now + 1) % TickMod) - ((now + x) % TickMod), TickMod) = 1 - x
<1>1. TickMod \in Nat /\ TickMod > 0 /\ TickMod = 1 * TickMod
  BY DEF TaskAssumption
<1>2. 1 \in Nat /\ 1 > 0
  OBVIOUS
<1>3. now + 1 \in Int /\ now + x \in Int /\ 1 - x = (now + 1) - (now + x)
  OBVIOUS
<1> QED
  BY <1>1, <1>2, <1>3, SignedApart, Zenon

(* The task is inserted where the time it has to wait places it.           *)
LEMMA SleepForTime ==
  ASSUME TaskAssumption, TimeoutsFit, Inv, TimeInv,
         NEW t \in Tasks, NEW c \in Chans, NEW n \in Timeouts, SleepFor(t, c, n)
  PROVE  TimeInv'
<1> DEFINE d == n + 1 + IF (ao_tick_count + (n + 1)) % TickMod = 0 THEN 1 ELSE 0
<1>1. /\ alarm' = [alarm EXCEPT ![t] = WakeTick(n)]
      /\ alarm_queue' = AlarmInsert(alarm_queue, alarm', t)
      /\ ao_task_alarm_tick' = FirstAlarm(alarm_queue', alarm')
      /\ pc' = [pc EXCEPT ![t] = "armed"]
      /\ goal' = [goal EXCEPT ![t] = c]
      /\ window' = 0
      /\ left' = [left EXCEPT ![t] = n + 1]
      /\ UNCHANGED <<ao_tasks, run_queue, ao_sleep_queue, wchan,
                     ao_tick_count, ao_cur_task, idle, masked>>
  BY DEF SleepFor
<1>2. Running(t) /\ pc[t] = "user" /\ goal[t] = NoChan
  BY DEF SleepFor, At, Inv, Control
<1>3. TypeOK /\ TypeOK' /\ AlarmSet /\ AlarmSet'
  BY SleepForInv DEF Inv
<1>4. /\ n \in Nat /\ n > 0 /\ 2 * (n + 1) < ShortMod /\ WindowTicks <= n
      /\ WindowTicks \in Nat /\ ShortMod \in Nat /\ ao_tick_count \in Int
  BY <1>3 DEF TaskAssumption, TimeoutsFit, TypeOK
<1>5. d \in Int /\ (d = n + 1 \/ d = n + 2)
  BY <1>4
<1>6. alarm'[t] = (ao_tick_count + d) % TickMod
  <2>1. WakeTick(n) = (ao_tick_count + d) % TickMod
    BY <1>3, WakeTickPlanned
  <2>2. alarm'[t] = WakeTick(n)
    BY <1>1, <1>3 DEF TypeOK
  <2> QED
    BY <2>1, <2>2
<1>7. left'[t] = n + 1 /\ DueIn(t)' = d
  BY <1>1, <1>3 DEF TypeOK, DueIn
<1> HIDE DEF d
<1>8. \A u \in Tasks : u # t =>
        /\ left'[u] = left[u] /\ DueIn(u)' = DueIn(u)
        /\ alarm'[u] = alarm[u] /\ goal'[u] = goal[u] /\ pc'[u] = pc[u]
  BY <1>1, <1>3 DEF TypeOK, DueIn
<1>9. alarm'[t] # 0
  <2>1. goal'[t] = c /\ t \in Range(alarm_queue')
    BY <1>1, <1>3, AlarmInsertElements DEF TypeOK
  <2> QED
    BY <1>3, <2>1 DEF AlarmSet
<1>10. t \notin Range(alarm_queue)
  BY <1>2, <1>3 DEF AlarmSet
<1>11. Planned'
  <2>1. \A u \in Tasks : u # t /\ goal'[u] # NoChan =>
          /\ alarm'[u] = 0 => left'[u] <= 0
          /\ alarm'[u] # 0 => /\ left'[u] >= 0 /\ 2 * left'[u] < ShortMod
                              /\ DueIn(u)' > 0
                              /\ alarm'[u] = (ao_tick_count' + DueIn(u)') % TickMod
    BY <1>1, <1>8 DEF TimeInv, Planned
  <2>2. /\ left'[t] >= 0 /\ 2 * left'[t] < ShortMod /\ DueIn(t)' > 0
        /\ alarm'[t] = (ao_tick_count' + DueIn(t)') % TickMod
    BY <1>1, <1>4, <1>5, <1>6, <1>7
  <2> QED
    BY <1>9, <2>1, <2>2 DEF Planned
<1>12. alarm_queue \in Seq(Tasks) /\ DOMAIN alarm_queue = 1 .. Len(alarm_queue)
       /\ \A i \in DOMAIN alarm_queue : alarm_queue[i] \in Tasks
  BY <1>3 DEF TypeOK
<1>13. ASSUME NEW i \in DOMAIN alarm_queue
       PROVE  LET u == alarm_queue[i]
              IN  /\ u \in Tasks /\ u # t /\ DueIn(u) \in Int
                  /\ Signed(alarm'[u] - alarm'[t], ShortMod) = DueIn(u) - d
  <2> DEFINE u == alarm_queue[i]
  <2>1. u \in Tasks /\ u # t /\ u \in Range(alarm_queue)
    BY <1>10, <1>12 DEF Range
  <2> HIDE DEF u
  <2>2. alarm[u] # 0 /\ goal[u] # NoChan
    BY <1>3, <2>1 DEF AlarmSet
  <2>3. /\ left[u] >= 0 /\ 2 * left[u] < ShortMod /\ DueIn(u) > 0
        /\ alarm'[u] = (ao_tick_count + DueIn(u)) % TickMod
    BY <1>8, <2>1, <2>2 DEF TimeInv, Planned
  <2>4. DueIn(u) \in Int /\ left[u] \in Int
        /\ (DueIn(u) = left[u] \/ DueIn(u) = left[u] + 1)
    BY <1>3, <2>1, DueInType
  <2> DEFINE x == DueIn(u)
  <2>5. x \in Int /\ x > 0 /\ (x = left[u] \/ x = left[u] + 1)
        /\ alarm'[u] = (ao_tick_count + x) % TickMod
    BY <2>3, <2>4
  <2> HIDE DEF x
  <2>6. -ShortMod <= 2 * (x - d) /\ 2 * (x - d) < ShortMod
    <3> DEFINE l == left[u]
    <3>1. l \in Int /\ l >= 0 /\ 2 * l < ShortMod /\ (x = l \/ x = l + 1)
      BY <2>3, <2>4, <2>5
    <3>2. x \in Int /\ x > 0
      BY <2>5
    <3> HIDE DEF l
    <3> QED
      BY <1>4, <1>5, <3>1, <3>2
  <2>7. Signed(((ao_tick_count + x) % TickMod) - ((ao_tick_count + d) % TickMod),
               ShortMod) = x - d
    BY <1>4, <1>5, <2>5, <2>6, AlarmsApart
  <2>8. Signed(alarm'[u] - alarm'[t], ShortMod) = x - d
    BY <1>6, <2>5, <2>7
  <2> QED
    BY <2>1, <2>4, <2>8 DEF u, x
<1>14. Sorted(alarm_queue, InOrder')
  <2> SUFFICES ASSUME NEW i \in DOMAIN alarm_queue, NEW j \in DOMAIN alarm_queue, i < j
               PROVE  <<alarm_queue[i], alarm_queue[j]>> \in InOrder'
    BY DEF Sorted
  <2>1. <<alarm_queue[i], alarm_queue[j]>> \in InOrder
    BY DEF TimeInv, Sorted
  <2> QED
    BY <1>8, <1>13, <2>1 DEF InOrder
<1>15. Sorted(alarm_queue', InOrder')
  <2>1. ASSUME NEW i \in DOMAIN alarm_queue
        PROVE  /\ Signed(alarm'[alarm_queue[i]] - alarm'[t], ShortMod) >= 0
                    => <<t, alarm_queue[i]>> \in InOrder'
               /\ ~(Signed(alarm'[alarm_queue[i]] - alarm'[t], ShortMod) >= 0)
                    => <<alarm_queue[i], t>> \in InOrder'
    <3>0. PICK u \in Tasks : u = alarm_queue[i]
      BY <1>12
    <3>1. /\ u \in Tasks /\ u # t /\ DueIn(u) \in Int
          /\ Signed(alarm'[u] - alarm'[t], ShortMod) = DueIn(u) - d
      BY <1>13, <3>0
    <3>2. DueIn(u)' = DueIn(u) /\ DueIn(t)' = d
      BY <1>7, <1>8, <3>1
    <3>3. DueIn(u) - d >= 0 <=> d <= DueIn(u)
      BY <1>5, <3>1
    <3>4. ~(d <= DueIn(u)) => DueIn(u) <= d
      BY <1>5, <3>1
    <3>5. /\ <<t, u>> \in InOrder' <=> d <= DueIn(u)
          /\ <<u, t>> \in InOrder' <=> DueIn(u) <= d
      BY <3>1, <3>2 DEF InOrder
    <3>6. /\ Signed(alarm'[u] - alarm'[t], ShortMod) >= 0 => <<t, u>> \in InOrder'
          /\ ~(Signed(alarm'[u] - alarm'[t], ShortMod) >= 0) => <<u, t>> \in InOrder'
      BY <3>1, <3>3, <3>4, <3>5
    <3> QED
      BY <3>0, <3>6
  <2>2. ASSUME NEW i \in DOMAIN alarm_queue, NEW j \in DOMAIN alarm_queue, i < j,
               Signed(alarm'[alarm_queue[i]] - alarm'[t], ShortMod) >= 0
        PROVE  Signed(alarm'[alarm_queue[j]] - alarm'[t], ShortMod) >= 0
    <3> DEFINE u == alarm_queue[i]
               v == alarm_queue[j]
    <3>1. <<u, v>> \in InOrder
      BY <2>2 DEF TimeInv, Sorted
    <3>2. /\ DueIn(u) \in Int /\ DueIn(v) \in Int
          /\ Signed(alarm'[u] - alarm'[t], ShortMod) = DueIn(u) - d
          /\ Signed(alarm'[v] - alarm'[t], ShortMod) = DueIn(v) - d
      BY <1>13
    <3>3. Signed(alarm'[u] - alarm'[t], ShortMod) >= 0
      BY <2>2
    <3> HIDE DEF u, v
    <3>4. DueIn(u) <= DueIn(v)
      BY <3>1 DEF InOrder
    <3>5. Signed(alarm'[v] - alarm'[t], ShortMod) >= 0
      BY <1>5, <3>2, <3>3, <3>4
    <3> QED
      BY <3>5 DEF v
  <2>3. Sorted(AlarmInsert(alarm_queue, alarm', t), InOrder')
    BY <1>12, <1>14, <2>1, <2>2, AlarmInsertSorted
  <2> QED
    BY <1>1, <2>3
<1>16. Sorted(alarm_queue, InOrder)'
  BY <1>15
<1>17. FirstNext'
  BY <1>1 DEF FirstNext
<1>18. ArmedInTime'
  <2>1. Running(t)'
    BY <1>1, <1>2 DEF Running
  <2>2. \A u \in Tasks : u # t => pc[u] # "armed"
    BY <1>2 DEF TimeInv, ArmedInTime, Running
  <2>3. \A u \in Tasks : pc'[u] = "armed" => u = t
    BY <1>8, <2>2
  <2>4. window' <= WindowTicks /\ left'[t] + window' > WindowTicks
    BY <1>1, <1>4, <1>7
  <2> QED
    BY <2>1, <2>3, <2>4 DEF ArmedInTime
<1>19. TimeoutPending'
  BY <1>1, <1>8, <1>9 DEF TimeInv, TimeoutPending, Asleep
<1> QED
  BY <1>11, <1>16, <1>17, <1>18, <1>19 DEF TimeInv

(* The steps between ao_sleep_for's first and last critical section, and   *)
(* those outside it, leave clock, alarms and timeouts alone.               *)
LEMMA QuietTime ==
  ASSUME TypeOK, TimeInv, UNCHANGED <<alarm_queue, alarm, clock, left, goal>>,
         idle \/ \E t \in Tasks : Running(t) /\ (pc[t] # "armed" \/ pc'[t] # "armed"),
         \A u \in Tasks : pc'[u] = "armed" => pc[u] = "armed",
         TimeoutPending'
  PROVE  TimeInv'
<1>1. ArmedInTime'
  BY NoneArmed DEF TimeInv
<1> QED
  BY <1>1, TimeKept

LEMMA IdleDispatchTime ==
  ASSUME Inv, TimeInv, IdleDispatch PROVE TimeInv'
<1>1. TimeoutPending'
  BY DEF IdleDispatch, TimeInv, TimeoutPending, Asleep
<1>2. /\ UNCHANGED <<alarm_queue, alarm, clock, left, goal>> /\ idle /\ pc' = pc
      /\ TypeOK
  BY DEF IdleDispatch, Inv
<1> QED
  BY <1>1, <1>2, QuietTime

LEMMA YieldTime ==
  ASSUME Inv, TimeInv, NEW t \in Tasks, Yield(t) PROVE TimeInv'
<1>1. TimeoutPending'
  BY DEF Yield, TimeInv, TimeoutPending, Asleep
<1>2. /\ UNCHANGED <<alarm_queue, alarm, clock, left, goal>> /\ pc' = pc /\ TypeOK
      /\ Running(t) /\ pc[t] # "armed"
  BY DEF Yield, At, Inv
<1> QED
  BY <1>1, <1>2, QuietTime

LEMMA MaskTime ==
  ASSUME Inv, TimeInv, NEW t \in Tasks, NEW blocked \in BOOLEAN, Mask(t, blocked)
  PROVE  TimeInv'
<1>1. TimeoutPending'
  BY DEF Mask, queues, TimeInv, TimeoutPending, Asleep
<1>2. /\ UNCHANGED <<alarm_queue, alarm, clock, left, goal>> /\ pc' = pc /\ TypeOK
      /\ Running(t) /\ pc[t] # "armed"
  BY DEF Mask, queues, At, Inv
<1> QED
  BY <1>1, <1>2, QuietTime

LEMMA AddTaskTime ==
  ASSUME Inv, TimeInv, NEW t \in Tasks, NEW u \in Tasks, AddTask(t, u)
  PROVE  TimeInv'
<1>1. TimeoutPending'
  BY DEF AddTask, TimeInv, TimeoutPending, Asleep
<1>2. /\ UNCHANGED <<alarm_queue, alarm, clock, left, goal>> /\ TypeOK
      /\ Running(t) /\ pc[t] # "armed"
  BY DEF AddTask, At, Inv
<1>3. \A v \in Tasks : pc'[v] = "armed" => pc[v] = "armed"
  BY <1>2 DEF AddTask, TypeOK
<1> QED
  BY <1>1, <1>2, <1>3, QuietTime

(* A task that exits is not on the alarm queue.                            *)
LEMMA ExitTime ==
  ASSUME Inv, TimeInv, NEW t \in Tasks, Exit(t) PROVE TimeInv'
<1>1. TimeoutPending'
  BY DEF Exit, TimeInv, TimeoutPending, Asleep
<1>2. /\ UNCHANGED <<alarm, clock, left, goal>> /\ TypeOK
      /\ Running(t) /\ pc[t] = "user"
  BY DEF Exit, At, Inv
<1>3. \A v \in Tasks : pc'[v] = "armed" => pc[v] = "armed"
  BY <1>2 DEF Exit, TypeOK
<1>4. alarm_queue' = alarm_queue
  <2>1. t \notin Range(alarm_queue)
    BY <1>2 DEF Inv, Control, AlarmSet
  <2>2. \A i \in DOMAIN alarm_queue : alarm_queue[i] \notin {t}
    BY <2>1 DEF Range
  <2>3. alarm_queue \in Seq(Tasks)
    BY <1>2 DEF TypeOK
  <2> QED
    BY <2>2, <2>3, ListDelAbsent DEF Exit
<1> QED
  BY <1>1, <1>2, <1>3, <1>4, QuietTime

(* Who sleeps after the critical section of ao_sleep.                      *)
LEMMA QueueAsleep ==
  ASSUME Inv, NEW t \in Tasks, NEW c \in Chans, Queue(t, c)
  PROVE  \A u \in Tasks, d \in Chans :
           u \in Range(ao_sleep_queue'[d]) => Asleep(u, d) \/ (u = t /\ d = c)
<1> TAKE u \in Tasks, d \in Chans
<1>1. ao_sleep_queue[d] \in Seq(Tasks)
  BY DEF Inv, TypeOK
<1> DEFINE rest == ListDel(ao_sleep_queue[d], {t})
<1>2. rest \in Seq(Tasks) /\ Range(rest) = Range(ao_sleep_queue[d]) \ {t}
  BY <1>1, ListDelElements
<1>3. /\ Append(rest, t) \in Seq(Tasks)
      /\ Range(Append(rest, t)) = Range(ao_sleep_queue[d]) \union {t}
  BY <1>1, ToEndElements
<1>4. ao_sleep_queue'[d] = IF d = c THEN Append(rest, t) ELSE rest
  BY DEF Queue
<1> HIDE DEF rest
<1> QED
  BY <1>2, <1>3, <1>4 DEF Asleep

LEMMA SleepTime ==
  ASSUME TaskAssumption, Inv, TimeInv, NEW t \in Tasks, NEW c \in Chans,
         NEW critical \in BOOLEAN, Sleep(t, c, critical)
  PROVE  TimeInv'
<1>1. /\ UNCHANGED <<alarm_queue, alarm, clock, left, goal>> /\ TypeOK
      /\ Running(t) /\ pc[t] = "user" /\ goal[t] = NoChan /\ Queue(t, c)
      /\ pc' = [pc EXCEPT ![t] = "queued"]
  BY DEF Sleep, Queue, At, Inv, Control
<1>2. \A v \in Tasks : pc'[v] = "armed" => pc[v] = "armed"
  BY <1>1 DEF TypeOK
<1>3. \A u \in Tasks, d \in Chans :
        u \in Range(ao_sleep_queue'[d]) => Asleep(u, d) \/ u = t
  BY <1>1, QueueAsleep
<1>4. TimeoutPending'
  <2>1. \A u \in Tasks : goal[u] # NoChan => goal[u] \in Chans
    BY <1>1 DEF TypeOK
  <2> QED
    BY <1>1, <1>3, <2>1 DEF TimeInv, TimeoutPending, Asleep
<1> QED
  BY <1>1, <1>2, <1>4, QuietTime

(* The alarm is still set when ao_sleep_for queues the task.               *)
LEMMA SleepArmedTime ==
  ASSUME TaskAssumption, Inv, TimeInv, NEW t \in Tasks, SleepArmed(t)
  PROVE  TimeInv'
<1>1. /\ UNCHANGED <<alarm_queue, alarm, clock, left, goal>> /\ TypeOK
      /\ Running(t) /\ pc[t] = "armed" /\ goal[t] # NoChan /\ Queue(t, goal[t])
      /\ pc' = [pc EXCEPT ![t] = "queued"]
  BY DEF SleepArmed, Queue, At, Inv, Control
<1>2. (\A v \in Tasks : pc'[v] = "armed" => pc[v] = "armed") /\ pc'[t] # "armed"
  BY <1>1 DEF TypeOK
<1>3. goal[t] \in Chans
  BY <1>1 DEF TypeOK
<1>4. \A u \in Tasks, d \in Chans :
        u \in Range(ao_sleep_queue'[d]) => Asleep(u, d) \/ u = t
  BY <1>1, <1>3, QueueAsleep
<1>5. alarm[t] # 0
  <2>1. window \in Nat /\ left[t] \in Int /\ WindowTicks \in Nat
    BY <1>1 DEF TypeOK, TaskAssumption
  <2>2. window <= WindowTicks /\ left[t] + window > WindowTicks
    BY <1>1 DEF TimeInv, ArmedInTime
  <2>3. ~(left[t] <= 0)
    BY <2>1, <2>2
  <2> QED
    BY <1>1, <2>3 DEF TimeInv, Planned
<1>6. TimeoutPending'
  <2>1. \A u \in Tasks : goal[u] # NoChan => goal[u] \in Chans
    BY <1>1 DEF TypeOK
  <2> QED
    BY <1>1, <1>4, <1>5, <2>1 DEF TimeInv, TimeoutPending, Asleep
<1> QED
  BY <1>1, <1>2, <1>6, QuietTime

LEMMA SwitchTime ==
  ASSUME Inv, TimeInv, NEW t \in Tasks, Switch(t) PROVE TimeInv'
<1>1. TimeoutPending'
  BY DEF Switch, TimeInv, TimeoutPending, Asleep
<1>2. /\ UNCHANGED <<alarm_queue, alarm, clock, left, goal>> /\ TypeOK
      /\ Running(t) /\ pc[t] # "armed" /\ pc' = [pc EXCEPT ![t] = "switched"]
  BY DEF Switch, At, Inv
<1>3. \A v \in Tasks : pc'[v] = "armed" => pc[v] = "armed"
  BY <1>2 DEF TypeOK
<1> QED
  BY <1>1, <1>2, <1>3, QuietTime

(* An alarm that woke a task is gone when the task runs.                   *)
LEMMA SleepReturnTime ==
  ASSUME Inv, TimeInv, NEW t \in Tasks, SleepReturn(t) PROVE TimeInv'
<1>1. /\ UNCHANGED <<alarm_queue, ao_sleep_queue, clock, left, goal>> /\ TypeOK
      /\ Running(t) /\ pc[t] = "switched" /\ Runnable(t)
      /\ pc' = [pc EXCEPT ![t] = IF goal[t] = NoChan THEN "user" ELSE "woken"]
  BY DEF SleepReturn, queues, At, Running, Inv, Control
<1>2. alarm' = alarm
  <2>1. CASE wchan[t] # NoChan
    <3>1. alarm[t] = 0
      BY <1>1, <2>1 DEF Inv, NoTaskLost
    <3> QED
      BY <1>1, <2>1, <3>1 DEF SleepReturn, TypeOK
  <2>2. CASE wchan[t] = NoChan
    BY <2>2 DEF SleepReturn
  <2> QED
    BY <2>1, <2>2
<1>3. TimeoutPending'
  BY <1>1, <1>2 DEF TimeInv, TimeoutPending, Asleep
<1>4. \A v \in Tasks : pc'[v] = "armed" => pc[v] = "armed"
  BY <1>1 DEF TypeOK
<1> QED
  BY <1>1, <1>2, <1>3, <1>4, QuietTime

(* A wake-up empties a sleep queue, and changes no alarm.                  *)
LEMMA WakeupTime ==
  ASSUME Inv, TimeInv, NEW c \in Chans, ao_wakeup(c), UNCHANGED masked
  PROVE  TimeInv'
<1>1. /\ UNCHANGED <<alarm_queue, alarm, clock, left, goal, pc, ao_cur_task,
                     idle, window>>
      /\ ao_sleep_queue' = [ao_sleep_queue EXCEPT ![c] = << >>] /\ TypeOK
  BY DEF ao_wakeup, Inv
<1>2. \A t \in Tasks, d \in Chans : t \in Range(ao_sleep_queue'[d]) => Asleep(t, d)
  BY <1>1, EmptyElements DEF TypeOK, Asleep
<1>3. \A t \in Tasks : goal[t] # NoChan => goal[t] \in Chans
  BY <1>1 DEF TypeOK
<1>4. TimeoutPending'
  BY <1>1, <1>2, <1>3 DEF TimeInv, TimeoutPending, Asleep
<1>5. ArmedInTime'
  BY <1>1 DEF TimeInv, ArmedInTime, Running
<1> QED
  BY <1>1, <1>4, <1>5, TimeKept

(* Without the task whose alarm is cleared, the others keep their order.   *)
LEMMA ClearAlarmTime ==
  ASSUME TaskAssumption, Inv, TimeInv, NEW t \in Tasks, ClearAlarm(t)
  PROVE  TimeInv'
<1>1. /\ Running(t) /\ pc[t] = "woken" /\ TypeOK /\ TypeOK' /\ AlarmSet
      /\ alarm_queue' = ListDel(alarm_queue, {t})
      /\ ao_task_alarm_tick' = FirstAlarm(alarm_queue', alarm)
      /\ pc' = [pc EXCEPT ![t] = "user"]
      /\ UNCHANGED <<ao_sleep_queue, ao_tick_count, ao_cur_task, idle, window>>
  BY ClearAlarmInv DEF ClearAlarm, At, Inv
<1>2. /\ alarm' = [alarm EXCEPT ![t] = 0]
      /\ goal' = [goal EXCEPT ![t] = NoChan]
      /\ left' = [left EXCEPT ![t] = 0]
  BY DEF ClearAlarm
<1>3. goal'[t] = NoChan /\ pc'[t] # "armed"
  BY <1>1, <1>2 DEF TypeOK
<1>4. \A u \in Tasks : u # t =>
        /\ left'[u] = left[u] /\ DueIn(u)' = DueIn(u)
        /\ alarm'[u] = alarm[u] /\ goal'[u] = goal[u] /\ pc'[u] = pc[u]
  BY <1>1, <1>2 DEF TypeOK, DueIn
<1>5. alarm_queue \in Seq(Tasks)
  BY <1>1 DEF TypeOK
<1>6. alarm_queue' \in Seq(Tasks) /\ Range(alarm_queue') = Range(alarm_queue) \ {t}
  BY <1>1, <1>5, ListDelElements
<1>7. \A i \in DOMAIN alarm_queue' : alarm_queue'[i] \in Tasks /\ alarm_queue'[i] # t
  BY <1>6 DEF Range
<1>8. Planned'
  BY <1>1, <1>3, <1>4 DEF TimeInv, Planned
<1>9. Sorted(alarm_queue, InOrder)'
  <2>1. Sorted(alarm_queue, InOrder)
    BY DEF TimeInv
  <2>2. Sorted(alarm_queue', InOrder)
    BY <1>1, <1>5, <2>1, ListDelSorted
  <2> SUFFICES ASSUME NEW i \in DOMAIN alarm_queue', NEW j \in DOMAIN alarm_queue', i < j
               PROVE  <<alarm_queue'[i], alarm_queue'[j]>> \in InOrder'
    BY DEF Sorted
  <2>3. <<alarm_queue'[i], alarm_queue'[j]>> \in InOrder
    BY <2>2 DEF Sorted
  <2>4. PICK u \in Tasks, v \in Tasks :
          u = alarm_queue'[i] /\ v = alarm_queue'[j] /\ u # t /\ v # t
    BY <1>7
  <2>5. DueIn(u)' = DueIn(u) /\ DueIn(v)' = DueIn(v)
    BY <1>4, <2>4
  <2>6. <<u, v>> \in InOrder'
    BY <2>3, <2>4, <2>5 DEF InOrder
  <2> QED
    BY <2>4, <2>6
<1>10. FirstNext'
  <2>1. CASE alarm_queue' = << >>
    BY <1>1, <2>1 DEF FirstNext, FirstAlarm
  <2>2. CASE alarm_queue' # << >>
    <3>1. 1 \in DOMAIN alarm_queue'
      BY <1>6, <2>2
    <3>2. alarm'[alarm_queue'[1]] = alarm[alarm_queue'[1]]
      BY <1>4, <1>7, <3>1
    <3> QED
      BY <1>1, <2>2, <3>2 DEF FirstNext, FirstAlarm
  <2> QED
    BY <2>1, <2>2
<1>11. ArmedInTime'
  <2>1. \A u \in Tasks : pc'[u] = "armed" => pc[u] = "armed"
    BY <1>3, <1>4
  <2>2. idle \/ \E u \in Tasks : Running(u) /\ (pc[u] # "armed" \/ pc'[u] # "armed")
    BY <1>1
  <2> QED
    BY <1>1, <2>1, <2>2, NoneArmed DEF TimeInv
<1>12. TimeoutPending'
  BY <1>1, <1>3, <1>4 DEF TimeInv, TimeoutPending, Asleep
<1> QED
  BY <1>8, <1>9, <1>10, <1>11, <1>12 DEF TimeInv

(* The tick brings every alarm one tick nearer.                            *)
LEMMA TickNearer ==
  ASSUME TaskAssumption, Inv, TimeInv, Tick, NEW u \in Tasks, alarm[u] # 0
  PROVE  /\ left'[u] = left[u] - 1 /\ DueIn(u)' = DueIn(u) - 1
         /\ goal[u] # NoChan /\ left[u] >= 0 /\ 2 * left[u] < ShortMod
         /\ DueIn(u) > 0 /\ DueIn(u) \in Int /\ left[u] \in Int
         /\ (DueIn(u) = left[u] \/ DueIn(u) = left[u] + 1)
         /\ alarm[u] = (ao_tick_count' + (DueIn(u) - 1)) % TickMod
<1>1. goal[u] # NoChan
  BY DEF Inv, AlarmSet
<1>2. /\ left[u] >= 0 /\ 2 * left[u] < ShortMod /\ DueIn(u) > 0
      /\ alarm[u] = (ao_tick_count + DueIn(u)) % TickMod
  BY <1>1 DEF TimeInv, Planned
<1>3. /\ DueIn(u) \in Int /\ left[u] \in Int
      /\ (DueIn(u) = left[u] \/ DueIn(u) = left[u] + 1)
  BY DueInType DEF Inv
<1>4. left'[u] = left[u] - 1
  BY <1>1, <1>2, <1>3 DEF Tick
<1>5. /\ ao_tick_count \in Int /\ TickMod \in Nat /\ TickMod > 0
      /\ ao_tick_count' = (ao_tick_count + 1) % TickMod
  BY DEF Tick, Inv, TypeOK, TaskAssumption
<1>6. ASSUME NEW d \in Int
      PROVE  (ao_tick_count' + (d - 1)) % TickMod = (ao_tick_count + d) % TickMod
  <2> DEFINE x == ao_tick_count + 1
             y == d - 1
  <2>1. x \in Int /\ y \in Int /\ x + y = ao_tick_count + d
    BY <1>5
  <2>2. ao_tick_count' = x % TickMod
    BY <1>5
  <2> HIDE DEF x, y
  <2>3. ((x % TickMod) + y) % TickMod = (x + y) % TickMod
    BY <1>5, <2>1, ModAdd
  <2>4. (ao_tick_count' + y) % TickMod = (ao_tick_count + d) % TickMod
    BY <2>1, <2>2, <2>3
  <2> QED
    BY <2>4 DEF y
<1>7. DueIn(u)' = DueIn(u) - 1
  <2>1. (ao_tick_count' + (left[u] - 1)) % TickMod = (ao_tick_count + left[u]) % TickMod
    BY <1>3, <1>6
  <2>2. DueIn(u)' = (left[u] - 1)
                      + IF (ao_tick_count + left[u]) % TickMod = 0 THEN 1 ELSE 0
    BY <1>4, <2>1 DEF DueIn
  <2> QED
    BY <1>3, <2>2 DEF DueIn
<1>8. alarm[u] = (ao_tick_count' + (DueIn(u) - 1)) % TickMod
  BY <1>2, <1>3, <1>6
<1> QED
  BY <1>1, <1>2, <1>3, <1>4, <1>7, <1>8

(* What the interrupt compares the alarm of u with is how far off it is.   *)
LEMMA TickSees ==
  ASSUME TaskAssumption, TimeoutsFit, Inv, TimeInv, Tick, NEW u \in Tasks,
         alarm[u] # 0
  PROVE  Signed(ao_tick_count' - alarm[u], TickMod) >= 0 <=> DueIn(u) = 1
<1>1. PICK x \in Int : x = DueIn(u)
  BY TickNearer
<1>2. PICK l \in Int : l = left[u]
  BY TickNearer
<1>3. l >= 0 /\ 2 * l < ShortMod /\ x > 0 /\ (x = l \/ x = l + 1)
  BY <1>1, <1>2, TickNearer
<1>4. alarm[u] = (ao_tick_count + x) % TickMod
  BY <1>1, TickNearer DEF TimeInv, Planned
<1>5. /\ ao_tick_count \in Int /\ TickMod \in Nat /\ TickMod > 1
      /\ ao_tick_count' = (ao_tick_count + 1) % TickMod
  BY DEF Tick, Inv, TypeOK, TaskAssumption
<1>6. ShortMod \in Nat /\ ShortMod <= TickMod
  <2>1. PICK k \in Nat : TickMod = k * ShortMod
    BY DEF TimeoutsFit
  <2>2. ShortMod \in Nat /\ k # 0
    BY <1>5, <2>1 DEF TaskAssumption
  <2>3. k * ShortMod >= ShortMod
    BY <2>2
  <2> QED
    BY <2>1, <2>2, <2>3
<1>7. -TickMod <= 2 * (1 - x) /\ 2 * (1 - x) < TickMod
  BY <1>3, <1>5, <1>6
<1>8. Signed(((ao_tick_count + 1) % TickMod) - ((ao_tick_count + x) % TickMod), TickMod)
        = 1 - x
  BY <1>5, <1>7, AlarmFromNow
<1>9. Signed(ao_tick_count' - alarm[u], TickMod) = 1 - x
  BY <1>4, <1>5, <1>8
<1>10. 1 - x >= 0 <=> x = 1
  BY <1>3
<1> QED
  BY <1>1, <1>9, <1>10

(* The tick wakes the tasks whose alarm is now, and no other: the alarms   *)
(* it does not look at are still to come.                                  *)
LEMMA TickDue ==
  ASSUME TaskAssumption, TimeoutsFit, Inv, TimeInv, Tick
  PROVE  \E due \in SUBSET Range(alarm_queue) :
           /\ \A u \in due : DueIn(u) = 1
           /\ \A u \in Range(alarm_queue) \ due : DueIn(u) > 1
           /\ alarm' = [u \in Tasks |-> IF u \in due THEN 0 ELSE alarm[u]]
           /\ alarm_queue' = ListDel(alarm_queue, due)
           /\ ao_task_alarm_tick' = IF due = {} THEN ao_task_alarm_tick
                                    ELSE FirstAlarm(alarm_queue', alarm')
           /\ \A u \in Tasks, c \in Chans : u \in Range(ao_sleep_queue'[c]) =>
                Asleep(u, c) /\ u \notin due
<1> DEFINE q == alarm_queue
           now == ao_tick_count'
<1>1. /\ q \in Seq(Tasks) /\ DOMAIN q = 1 .. Len(q) /\ Len(q) \in Nat
      /\ ao_sleep_queue \in [Chans -> Seq(Tasks)] /\ alarm \in [Tasks -> 0 .. TickMod-1]
  BY DEF Inv, TypeOK
<1>2. \A i \in DOMAIN q : /\ q[i] \in Tasks /\ q[i] \in Range(q)
                          /\ alarm[q[i]] # 0
  BY <1>1 DEF Inv, AlarmSet, Range
<1>3. \A i \in DOMAIN q :
        /\ Signed(now - alarm[q[i]], TickMod) >= 0 <=> DueIn(q[i]) = 1
        /\ DueIn(q[i]) \in Int /\ DueIn(q[i]) > 0
  <2> TAKE i \in DOMAIN q
  <2>1. PICK u \in Tasks : u = q[i] /\ alarm[u] # 0
    BY <1>2
  <2>2. /\ Signed(now - alarm[u], TickMod) >= 0 <=> DueIn(u) = 1
        /\ DueIn(u) \in Int /\ DueIn(u) > 0
    BY <2>1, TickNearer, TickSees
  <2> QED
    BY <2>1, <2>2
<1>4. \A i, j \in DOMAIN q : i < j => DueIn(q[i]) <= DueIn(q[j])
  BY DEF TimeInv, Sorted, InOrder
<1>5. CASE ~(Signed(now - ao_task_alarm_tick, TickMod) >= 0)
  <2>1. UNCHANGED <<queues, alarm, ao_task_alarm_tick>>
    BY <1>5 DEF Tick
  <2>2. \A i \in DOMAIN q : DueIn(q[i]) > 1
    <3> TAKE i \in DOMAIN q
    <3>1. 1 \in DOMAIN q /\ q # << >> /\ (i = 1 \/ 1 < i)
      BY <1>1
    <3>2. ao_task_alarm_tick = alarm[q[1]]
      BY <3>1 DEF TimeInv, FirstNext, FirstAlarm
    <3>3. DueIn(q[1]) # 1
      BY <1>3, <1>5, <3>1, <3>2
    <3>4. DueIn(q[1]) > 1
      BY <1>3, <3>1, <3>3
    <3>5. DueIn(q[1]) <= DueIn(q[i]) /\ DueIn(q[i]) \in Int /\ DueIn(q[1]) \in Int
      BY <1>3, <1>4, <3>1
    <3> QED
      BY <3>4, <3>5
  <2>3. \A u \in Range(q) \ {} : DueIn(u) > 1
    BY <2>2 DEF Range
  <2>4. ListDel(q, {}) = q
    BY <1>1, ListDelAbsent
  <2>5. alarm' = [u \in Tasks |-> IF u \in {} THEN 0 ELSE alarm[u]]
    BY <1>1, <2>1
  <2>6. alarm_queue' = ListDel(q, {}) /\ ao_task_alarm_tick' = ao_task_alarm_tick
    BY <2>1, <2>4 DEF queues
  <2>7. \A u \in Tasks, c \in Chans : u \in Range(ao_sleep_queue'[c]) =>
          Asleep(u, c) /\ u \notin {}
    BY <2>1 DEF queues, Asleep
  <2>8. {} \in SUBSET Range(q) /\ \A u \in {} : DueIn(u) = 1
    OBVIOUS
  <2> QED
    BY <2>3, <2>5, <2>6, <2>7, <2>8
<1>6. CASE Signed(now - ao_task_alarm_tick, TickMod) >= 0
  <2> DEFINE due == DueTasks(q, alarm, now)
  <2>1. /\ alarm' = [u \in Tasks |-> IF u \in due THEN 0 ELSE alarm[u]]
        /\ alarm_queue' = ListDel(q, due)
        /\ ao_sleep_queue' = [c \in Chans |-> ListDel(ao_sleep_queue[c], due)]
        /\ ao_task_alarm_tick' = IF due = {} THEN ao_task_alarm_tick
                                 ELSE FirstAlarm(alarm_queue', alarm')
    BY <1>6 DEF Tick, ao_task_alarm
  <2>2. due = {q[i] : i \in {i \in DOMAIN q : \A j \in 1 .. i : DueIn(q[j]) = 1}}
    <3>1. \A i \in DOMAIN q : 1 .. i \subseteq DOMAIN q
      BY <1>1
    <3>2. \A i \in DOMAIN q :
            (\A j \in 1 .. i : Signed(now - alarm[q[j]], TickMod) >= 0)
              <=> (\A j \in 1 .. i : DueIn(q[j]) = 1)
      BY <1>3, <3>1
    <3> QED
      BY <3>2 DEF DueTasks
  <2> HIDE DEF due
  <2>3. due \in SUBSET Range(q)
    BY <2>2 DEF Range
  <2>4. \A u \in due : DueIn(u) = 1
    <3> TAKE u \in due
    <3>1. PICK i \in DOMAIN q : u = q[i] /\ \A j \in 1 .. i : DueIn(q[j]) = 1
      BY <2>2
    <3>2. i \in 1 .. i
      BY <1>1
    <3> QED
      BY <3>1, <3>2
  <2>5. \A u \in Range(q) \ due : DueIn(u) > 1
    <3> SUFFICES ASSUME NEW i \in DOMAIN q, q[i] \notin due PROVE DueIn(q[i]) > 1
      BY DEF Range
    <3>1. PICK j \in 1 .. i : DueIn(q[j]) # 1
      BY <2>2
    <3>2. j \in DOMAIN q /\ (j = i \/ j < i)
      BY <1>1
    <3>3. DueIn(q[j]) > 1 /\ DueIn(q[j]) <= DueIn(q[i])
          /\ DueIn(q[i]) \in Int /\ DueIn(q[j]) \in Int
      BY <1>3, <1>4, <3>1, <3>2
    <3> QED
      BY <3>3
  <2>6. \A u \in Tasks, c \in Chans : u \in Range(ao_sleep_queue'[c]) =>
          Asleep(u, c) /\ u \notin due
    <3> TAKE u \in Tasks, c \in Chans
    <3>1. Range(ListDel(ao_sleep_queue[c], due)) = Range(ao_sleep_queue[c]) \ due
      <4>1. ao_sleep_queue[c] \in Seq(Tasks)
        BY <1>1
      <4> QED
        BY <4>1, ListDelElements
    <3> QED
      BY <2>1, <3>1 DEF Asleep
  <2> QED
    BY <2>1, <2>3, <2>4, <2>5, <2>6
<1> QED
  BY <1>5, <1>6

LEMMA TickTime ==
  ASSUME TaskAssumption, TimeoutsFit, Inv, TimeInv, Tick
  PROVE  TimeInv'
<1>1. PICK due \in SUBSET Range(alarm_queue) :
        /\ \A u \in due : DueIn(u) = 1
        /\ \A u \in Range(alarm_queue) \ due : DueIn(u) > 1
        /\ alarm' = [u \in Tasks |-> IF u \in due THEN 0 ELSE alarm[u]]
        /\ alarm_queue' = ListDel(alarm_queue, due)
        /\ ao_task_alarm_tick' = IF due = {} THEN ao_task_alarm_tick
                                 ELSE FirstAlarm(alarm_queue', alarm')
        /\ \A u \in Tasks, c \in Chans : u \in Range(ao_sleep_queue'[c]) =>
             Asleep(u, c) /\ u \notin due
  BY TickDue
<1>2. /\ TypeOK /\ TypeOK' /\ AlarmSet /\ Control
      /\ UNCHANGED <<ao_cur_task, idle, pc, goal>>
  BY TickInv DEF Inv, Tick
<1>3. alarm_queue \in Seq(Tasks)
  BY <1>2 DEF TypeOK
<1>4. \A u \in Tasks : u \in Range(alarm_queue) <=> alarm[u] # 0
  BY <1>2 DEF AlarmSet
<1>5. alarm_queue' \in Seq(Tasks) /\ Range(alarm_queue') = Range(alarm_queue) \ due
  BY <1>1, <1>3, ListDelElements
<1>6. ASSUME NEW u \in Tasks, alarm'[u] # 0
      PROVE  /\ alarm[u] # 0 /\ alarm'[u] = alarm[u] /\ DueIn(u) > 1
             /\ left'[u] = left[u] - 1 /\ DueIn(u)' = DueIn(u) - 1
  <2>1. u \notin due /\ alarm'[u] = alarm[u]
    BY <1>1, <1>6
  <2>2. alarm[u] # 0 /\ u \in Range(alarm_queue)
    BY <1>4, <1>6, <2>1
  <2> QED
    BY <1>1, <2>1, <2>2, TickNearer
<1>7. Planned'
  <2> SUFFICES ASSUME NEW u \in Tasks, goal[u] # NoChan
               PROVE  /\ alarm'[u] = 0 => left'[u] <= 0
                      /\ alarm'[u] # 0 =>
                           /\ left'[u] >= 0 /\ 2 * left'[u] < ShortMod
                           /\ DueIn(u)' > 0
                           /\ alarm'[u] = (ao_tick_count' + DueIn(u)') % TickMod
    BY <1>2 DEF Planned
  <2>1. CASE alarm'[u] # 0
    <3>1. /\ alarm[u] # 0 /\ alarm'[u] = alarm[u] /\ DueIn(u) > 1
          /\ left'[u] = left[u] - 1 /\ DueIn(u)' = DueIn(u) - 1
      BY <1>6, <2>1
    <3>2. /\ left[u] >= 0 /\ 2 * left[u] < ShortMod
          /\ DueIn(u) \in Int /\ left[u] \in Int
          /\ (DueIn(u) = left[u] \/ DueIn(u) = left[u] + 1)
          /\ alarm[u] = (ao_tick_count' + (DueIn(u) - 1)) % TickMod
      BY <3>1, TickNearer
    <3>3. PICK l \in Int, d \in Int : l = left[u] /\ d = DueIn(u)
      BY <3>2
    <3>4. l - 1 >= 0 /\ 2 * (l - 1) < ShortMod /\ d - 1 > 0
      <4>1. l >= 0 /\ 2 * l < ShortMod /\ d > 1 /\ (d = l \/ d = l + 1)
        BY <3>1, <3>2, <3>3
      <4>2. ShortMod \in Nat
        BY DEF TaskAssumption
      <4> QED
        BY <4>1, <4>2
    <3>5. left'[u] = l - 1 /\ DueIn(u)' = d - 1 /\ alarm'[u] = (ao_tick_count' + (d - 1)) % TickMod
      BY <3>1, <3>2, <3>3
    <3> QED
      BY <2>1, <3>4, <3>5
  <2>2. CASE alarm'[u] = 0
    <3>1. left[u] \in Int /\ left'[u] = IF left[u] > -1 THEN left[u] - 1 ELSE left[u]
      BY <1>2 DEF Tick, TypeOK
    <3>2. left[u] <= 1
      <4>1. CASE u \in due
        <5>1. alarm[u] # 0 /\ DueIn(u) = 1
          BY <1>1, <1>4, <4>1
        <5> QED
          BY <3>1, <5>1, TickNearer
      <4>2. CASE u \notin due
        <5>1. alarm[u] = 0
          BY <1>1, <2>2, <4>2
        <5>2. left[u] <= 0
          BY <5>1 DEF TimeInv, Planned
        <5> QED
          BY <3>1, <5>2
      <4> QED
        BY <4>1, <4>2
    <3> QED
      BY <2>2, <3>1, <3>2
  <2> QED
    BY <2>1, <2>2
<1>8. Sorted(alarm_queue, InOrder)'
  <2>1. Sorted(alarm_queue, InOrder)
    BY DEF TimeInv
  <2>2. Sorted(alarm_queue', InOrder)
    BY <1>1, <1>3, <2>1, ListDelSorted
  <2> SUFFICES ASSUME NEW i \in DOMAIN alarm_queue', NEW j \in DOMAIN alarm_queue', i < j
               PROVE  <<alarm_queue'[i], alarm_queue'[j]>> \in InOrder'
    BY DEF Sorted
  <2>3. <<alarm_queue'[i], alarm_queue'[j]>> \in InOrder
    BY <2>2 DEF Sorted
  <2>4. PICK u \in Tasks, v \in Tasks : u = alarm_queue'[i] /\ v = alarm_queue'[j]
    BY <1>5
  <2>5. u \in Range(alarm_queue) \ due /\ v \in Range(alarm_queue) \ due
    BY <1>5, <2>4 DEF Range
  <2>6. alarm[u] # 0 /\ alarm[v] # 0
    BY <1>4, <2>5
  <2>7. /\ DueIn(u)' = DueIn(u) - 1 /\ DueIn(v)' = DueIn(v) - 1
        /\ DueIn(u) \in Int /\ DueIn(v) \in Int
    BY <2>6, TickNearer
  <2>8. u # v /\ DueIn(u) <= DueIn(v)
    BY <2>3, <2>4 DEF InOrder
  <2>9. DueIn(u)' <= DueIn(v)'
    BY <2>7, <2>8
  <2>10. <<u, v>> \in InOrder'
    BY <2>8, <2>9 DEF InOrder
  <2> QED
    BY <2>4, <2>10
<1>9. FirstNext'
  <2>1. CASE due = {}
    <3>1. alarm_queue' = alarm_queue
      BY <1>1, <1>3, <2>1, ListDelAbsent
    <3>2. alarm' = alarm
      BY <1>1, <1>2, <2>1 DEF TypeOK
    <3> QED
      BY <1>1, <2>1, <3>1, <3>2 DEF TimeInv, FirstNext
  <2>2. CASE due # {}
    BY <1>1, <2>2 DEF FirstNext
  <2> QED
    BY <2>1, <2>2
<1>10. ArmedInTime'
  <2> SUFFICES ASSUME NEW u \in Tasks, pc[u] = "armed"
               PROVE  /\ Running(u)' /\ window' <= WindowTicks
                      /\ left'[u] + window' > WindowTicks
    BY <1>2 DEF ArmedInTime
  <2>1. /\ Running(u) /\ window <= WindowTicks /\ left[u] + window > WindowTicks
        /\ goal[u] # NoChan
    BY <1>2 DEF TimeInv, ArmedInTime, Control
  <2>2. window \in Nat /\ WindowTicks \in Nat /\ left[u] \in Int
    BY <1>2 DEF TypeOK, TaskAssumption
  <2>3. window < WindowTicks /\ window' = window + 1
    BY <2>1 DEF Tick, Running
  <2>4. left'[u] = left[u] - 1
    <3>1. left[u] > -1
      BY <2>1, <2>2
    <3> QED
      BY <2>1, <3>1 DEF Tick
  <2>5. Running(u)'
    BY <1>2, <2>1 DEF Running
  <2> QED
    BY <2>1, <2>2, <2>3, <2>4, <2>5
<1>11. TimeoutPending'
  <2> SUFFICES ASSUME NEW u \in Tasks, goal[u] # NoChan, u \in Range(ao_sleep_queue'[goal[u]])
               PROVE  alarm'[u] # 0
    BY <1>2 DEF TimeoutPending, Asleep
  <2>1. goal[u] \in Chans
    BY <1>2 DEF TypeOK
  <2>2. Asleep(u, goal[u]) /\ u \notin due
    BY <1>1, <2>1
  <2>3. alarm[u] # 0
    BY <2>2 DEF TimeInv, TimeoutPending
  <2> QED
    BY <1>1, <2>2, <2>3
<1> QED
  BY <1>7, <1>8, <1>9, <1>10, <1>11 DEF TimeInv

-----------------------------------------------------------------------------
(* No step of the scheduler breaks the invariant of its clock.             *)
THEOREM NextTime ==
  TaskAssumption /\ TimeoutsFit => (Inv /\ TimeInv /\ [Next]_vars => TimeInv')
<1> SUFFICES ASSUME TaskAssumption, TimeoutsFit, Inv, TimeInv, [Next]_vars
             PROVE  TimeInv'
  OBVIOUS
<1>1. ASSUME NEW t \in Tasks, UserStep(t) PROVE TimeInv'
  <2>1. CASE Yield(t)
    BY <2>1, YieldTime
  <2>2. CASE \E c \in Chans, critical \in BOOLEAN : Sleep(t, c, critical)
    BY <2>2, SleepTime
  <2>3. CASE \E c \in Chans : Wakeup(t, c)
    BY <2>3, WakeupTime DEF Wakeup
  <2>4. CASE \E c \in Chans, n \in Timeouts : SleepFor(t, c, n)
    BY <2>4, SleepForTime
  <2>5. CASE \E blocked \in BOOLEAN : Mask(t, blocked)
    BY <2>5, MaskTime
  <2>6. CASE \E u \in Tasks : AddTask(t, u)
    BY <2>6, AddTaskTime
  <2>7. CASE Exit(t)
    BY <2>7, ExitTime
  <2> QED
    BY <1>1, <2>1, <2>2, <2>3, <2>4, <2>5, <2>6, <2>7 DEF UserStep
<1>2. ASSUME NEW t \in Tasks, KernelStep(t) PROVE TimeInv'
  BY <1>2, SleepArmedTime, SwitchTime, SleepReturnTime, ClearAlarmTime DEF KernelStep
<1>3. CASE IdleDispatch
  BY <1>3, IdleDispatchTime
<1>4. CASE Tick
  BY <1>4, TickTime
<1>5. CASE \E c \in IrqChans : IrqWakeup(c)
  BY <1>5, WakeupTime DEF IrqWakeup, TaskAssumption
<1>6. CASE UNCHANGED vars
  <2>1. TimeoutPending' /\ ArmedInTime'
    BY <1>6 DEF vars, clock, TimeInv, TimeoutPending, ArmedInTime, Asleep, Running
  <2>2. UNCHANGED <<alarm_queue, alarm, clock, left, goal>>
    BY <1>6 DEF vars, clock
  <2> QED
    BY <2>1, <2>2, TimeKept
<1> QED
  BY <1>1, <1>2, <1>3, <1>4, <1>5, <1>6 DEF Next

(* What the clock's invariant says of the alarm queue and the alarms.      *)
LEMMA QueueInOrder ==
  ASSUME TaskAssumption, TimeoutsFit, Inv, TimeInv PROVE AlarmQueueOrder
<1>1. alarm_queue \in Seq(Tasks) /\ TypeOK
  BY DEF Inv, TypeOK
<1> SUFFICES ASSUME NEW i \in DOMAIN alarm_queue, NEW j \in DOMAIN alarm_queue, i < j
             PROVE  /\ alarm_queue[i] # alarm_queue[j]
                    /\ Signed(alarm[alarm_queue[j]] - alarm[alarm_queue[i]], ShortMod) >= 0
  BY DEF TimeInv, FirstNext, AlarmQueueOrder
<1>2. PICK u \in Tasks, v \in Tasks : u = alarm_queue[i] /\ v = alarm_queue[j]
  BY <1>1
<1>3. <<u, v>> \in InOrder
  BY <1>2 DEF TimeInv, Sorted
<1>4. u # v /\ DueIn(u) <= DueIn(v)
  BY <1>3 DEF InOrder
<1>5. alarm[u] # 0 /\ goal[u] # NoChan /\ alarm[v] # 0 /\ goal[v] # NoChan
  BY <1>1, <1>2 DEF Inv, AlarmSet, Range
<1>6. /\ DueIn(u) > 0 /\ alarm[u] = (ao_tick_count + DueIn(u)) % TickMod
      /\ alarm[v] = (ao_tick_count + DueIn(v)) % TickMod
      /\ left[v] >= 0 /\ 2 * left[v] < ShortMod
  BY <1>5 DEF TimeInv, Planned
<1>7. PICK x \in Int, y \in Int, l \in Int : x = DueIn(u) /\ y = DueIn(v) /\ l = left[v]
  BY <1>1, DueInType
<1>8. y = l \/ y = l + 1
  BY <1>1, <1>7, DueInType
<1>9. -ShortMod <= 2 * (y - x) /\ 2 * (y - x) < ShortMod
  <2>1. ShortMod \in Nat /\ x > 0 /\ x <= y /\ 2 * l < ShortMod
    BY <1>4, <1>6, <1>7 DEF TaskAssumption
  <2> QED
    BY <1>8, <2>1
<1>10. ao_tick_count \in Int
  BY <1>1 DEF TypeOK, TaskAssumption
<1>11. Signed(((ao_tick_count + y) % TickMod) - ((ao_tick_count + x) % TickMod), ShortMod)
         = y - x
  BY <1>9, <1>10, AlarmsApart
<1>12. Signed(alarm[v] - alarm[u], ShortMod) = y - x
  BY <1>6, <1>7, <1>11
<1>13. y - x >= 0
  BY <1>4, <1>7
<1> QED
  BY <1>2, <1>4, <1>12, <1>13

LEMMA AlarmsInTime ==
  ASSUME TaskAssumption, Inv, TimeInv PROVE AlarmOnTime
<1> SUFFICES ASSUME NEW t \in Tasks, goal[t] # NoChan
             PROVE  /\ alarm[t] = 0 => left[t] <= 0
                    /\ alarm[t] # 0 => left[t] > 0 \/ (left[t] = 0 /\ alarm[t] = 1)
  BY DEF AlarmOnTime
<1>1. alarm[t] = 0 => left[t] <= 0
  BY DEF TimeInv, Planned
<1>2. ASSUME alarm[t] # 0, ~(left[t] > 0) PROVE left[t] = 0 /\ alarm[t] = 1
  <2>1. /\ left[t] >= 0 /\ DueIn(t) > 0
        /\ alarm[t] = (ao_tick_count + DueIn(t)) % TickMod
    BY <1>2 DEF TimeInv, Planned
  <2>2. /\ ao_tick_count \in 0 .. TickMod-1 /\ TickMod \in Nat /\ TickMod > 1
        /\ left[t] \in Int
    BY DEF Inv, TypeOK, TaskAssumption
  <2>3. left[t] = 0
    BY <1>2, <2>1, <2>2
  <2>4. ao_tick_count % TickMod = 0 /\ DueIn(t) = 1
    BY <2>1, <2>2, <2>3 DEF DueIn
  <2>5. (0 * TickMod + ao_tick_count) % TickMod = ao_tick_count
    BY <2>2, ModUnique
  <2>6. 0 * TickMod + ao_tick_count = ao_tick_count
    BY <2>2
  <2>7. ao_tick_count = 0
    BY <2>4, <2>5, <2>6
  <2>8. (0 * TickMod + 1) % TickMod = 1 /\ 0 * TickMod + 1 = 1
    <3>1. 1 \in 0 .. TickMod - 1
      BY <2>2
    <3> QED
      BY <2>2, <3>1, ModUnique
  <2> QED
    BY <2>1, <2>3, <2>4, <2>7, <2>8
<1> QED
  BY <1>1, <1>2

(* TimeInv holds in every state the scheduler reaches.                     *)
THEOREM ClockInv == TimeoutsFit => (Spec => []TimeInv)
<1> SUFFICES ASSUME TimeoutsFit PROVE Spec => []TimeInv
  OBVIOUS
<1>1. Inv /\ TimeInv /\ [Next]_vars => TimeInv'
  BY NextTime, TaskAssumption
<1> QED
  BY <1>1, InitTime, SchedulerInv, PTL DEF Spec

(* The alarm queue is in the order the alarms are due, whatever the clock  *)
(* stands at: see AlarmQueueOrder.                                         *)
THEOREM QueueKeepsOrder == TimeoutsFit => (Spec => []AlarmQueueOrder)
<1> SUFFICES ASSUME TimeoutsFit PROVE Spec => []AlarmQueueOrder
  OBVIOUS
<1>1. Inv /\ TimeInv => AlarmQueueOrder
  BY QueueInOrder, TaskAssumption
<1> QED
  BY <1>1, ClockInv, SchedulerInv, PTL

(* No timeout is lost: a task asleep in ao_sleep_for has its alarm set.    *)
THEOREM NoTimeoutLost == TimeoutsFit => (Spec => []TimeoutPending)
<1> SUFFICES ASSUME TimeoutsFit PROVE Spec => []TimeoutPending
  OBVIOUS
<1>1. TimeInv => TimeoutPending
  BY DEF TimeInv
<1> QED
  BY <1>1, ClockInv, PTL

(* No alarm goes off early or late, across the wrap of the tick counter.   *)
THEOREM AlarmsGoOffOnTime == TimeoutsFit => (Spec => []AlarmOnTime)
<1> SUFFICES ASSUME TimeoutsFit PROVE Spec => []AlarmOnTime
  OBVIOUS
<1>1. Inv /\ TimeInv => AlarmOnTime
  BY AlarmsInTime, TaskAssumption
<1> QED
  BY <1>1, ClockInv, SchedulerInv, PTL

-----------------------------------------------------------------------------
(***************************************************************************)
(* The mutexes exclude each other's owners and lose no waiter, for every   *)
(* number of tasks and mutexes.  A step of the mutexes is a step of the    *)
(* scheduler or leaves it alone, so the scheduler's invariant carries over.*)
(***************************************************************************)

(* Only tasks that found a mutex taken sleep on it, and no ao_sleep_for    *)
(* is given a mutex.                                                       *)
Sleepers ==
  /\ \A t \in Tasks, m \in Mutexes : Asleep(t, m) => mutex[m] # NoTask
  /\ \A t \in Tasks : goal[t] \notin Mutexes

MutexInv == Inv /\ MutexTypeOK /\ MutualExclusion /\ Sleepers

(* Sleeping on c puts no task on the queue of another channel.             *)
LEMMA QueueSleepers ==
  ASSUME Inv, NEW t \in Tasks, NEW c \in Chans, Queue(t, c)
  PROVE  \A u \in Tasks, d \in Chans :
            Asleep(u, d)' => Asleep(u, d) \/ (u = t /\ d = c)
<1> TAKE u \in Tasks, d \in Chans
<1>1. ao_sleep_queue[d] \in Seq(Tasks)
  BY DEF Inv, TypeOK
<1> DEFINE rest == ListDel(ao_sleep_queue[d], {t})
<1>2. rest \in Seq(Tasks) /\ Range(rest) = Range(ao_sleep_queue[d]) \ {t}
  BY <1>1, ListDelElements
<1>3. Range(Append(rest, t)) = Range(ao_sleep_queue[d]) \union {t}
  BY <1>1, ToEndElements
<1>4. ao_sleep_queue'[d] = IF d = c THEN Append(rest, t) ELSE rest
  BY DEF Queue
<1> HIDE DEF rest
<1> QED
  BY <1>2, <1>3, <1>4 DEF Asleep

(* A wake-up of c leaves nobody asleep on c, and nobody else asleep on     *)
(* another channel.                                                        *)
LEMMA WakeupSleepers ==
  ASSUME Inv, NEW c \in Chans, ao_wakeup(c)
  PROVE  \A u \in Tasks, d \in Chans : Asleep(u, d)' => Asleep(u, d) /\ d # c
BY EmptyElements DEF Inv, TypeOK, ao_wakeup, Asleep

(* A tick puts no task to sleep.                                           *)
LEMMA TickSleepers ==
  ASSUME Inv, Tick
  PROVE  \A u \in Tasks, d \in Chans : Asleep(u, d)' => Asleep(u, d)
<1> TAKE u \in Tasks, d \in Chans
<1>1. CASE UNCHANGED <<queues, alarm, ao_task_alarm_tick>>
  BY <1>1 DEF queues, Asleep
<1>2. CASE ao_task_alarm(ao_tick_count')
  <2> DEFINE due == DueTasks(alarm_queue, alarm, ao_tick_count')
  <2>1. ao_sleep_queue'[d] = ListDel(ao_sleep_queue[d], due)
    BY <1>2 DEF ao_task_alarm
  <2> HIDE DEF due
  <2>2. Range(ao_sleep_queue'[d]) = Range(ao_sleep_queue[d]) \ due
    BY <2>1, ListDelElements DEF Inv, TypeOK
  <2> QED
    BY <2>2 DEF Asleep
<1> QED
  BY <1>1, <1>2 DEF Tick

-----------------------------------------------------------------------------
(* All mutexes start free and nobody sleeps on one.                        *)
THEOREM MutexInitInv == MutexInit => MutexInv
<1> SUFFICES ASSUME MutexInit PROVE MutexInv
  OBVIOUS
<1> USE TaskAssumption, MutexAssumption
<1>1. Inv
  BY InitInv DEF MutexInit
<1>2. MutexTypeOK /\ MutualExclusion
  BY DEF MutexInit, MutexTypeOK, MutualExclusion
<1>3. Sleepers
  BY EmptyElements DEF MutexInit, Init, Sleepers, Asleep
<1> QED
  BY <1>1, <1>2, <1>3 DEF MutexInv

(* Every step is one of the scheduler, or leaves it unchanged.             *)
LEMMA MutexStepsScheduler ==
  ASSUME MutexInv, MutexNext PROVE [Next]_vars
<1> USE TaskAssumption, MutexAssumption
<1>1. ASSUME NEW t \in Tasks, ProgramStep(t) PROVE Next
  BY <1>1 DEF ProgramStep, UserStep, Next
<1>2. ASSUME NEW t \in Tasks, MutexStep(t) PROVE Next \/ UNCHANGED vars
  <2>1. ASSUME NEW m \in Mutexes, MutexGet(t, m) \/ MutexTry(t, m)
        PROVE  UNCHANGED vars
    BY <2>1 DEF MutexGet, MutexTry
  <2>2. ASSUME NEW m \in Mutexes, MutexWait(t, m) \/ MutexPut(t, m) PROVE Next
    BY <2>2 DEF MutexWait, MutexPut, UserStep, Next
  <2>3. CASE MutexRetry(t)
    <3>1. wants[t] \in Chans
      BY <2>3 DEF MutexRetry, MutexInv, MutexTypeOK
    <3> QED
      BY <2>3, <3>1 DEF MutexRetry, UserStep, Next
  <2> QED
    BY <1>2, <2>1, <2>2, <2>3 DEF MutexStep
<1>3. CASE OtherStep
  BY <1>3 DEF OtherStep, Next
<1> QED
  BY <1>1, <1>2, <1>3 DEF MutexNext

(* A task that takes a free mutex becomes its only owner.                  *)
LEMMA TakeOwner ==
  ASSUME MutexTypeOK, MutualExclusion, NEW t \in Tasks, NEW m \in Mutexes,
         mutex[m] = NoTask, Take(t, m)
  PROVE  /\ mutex' \in [Mutexes -> Tasks \union {NoTask}]
         /\ held' \in [Tasks -> SUBSET Mutexes]
         /\ MutualExclusion'
         /\ \A n \in Mutexes : mutex[n] # NoTask => mutex'[n] # NoTask
BY TaskAssumption DEF MutexTypeOK, MutualExclusion, Take

(* No step of the mutexes or of the rest of the program breaks MutexInv.   *)
THEOREM MutexNextInv == MutexInv /\ [MutexNext]_allVars => MutexInv'
<1> SUFFICES ASSUME MutexInv, [MutexNext]_allVars PROVE MutexInv'
  OBVIOUS
<1> USE TaskAssumption, MutexAssumption DEF MutexInv
<1>1. Inv'
  <2>1. [Next]_vars
    BY MutexStepsScheduler DEF allVars
  <2> QED
    BY <2>1, NextInv
<1>2. ASSUME NEW t \in Tasks, ProgramStep(t) PROVE MutexInv'
  <2>1. UNCHANGED mutexVars
    BY <1>2 DEF ProgramStep
  <2>2. MutexTypeOK' /\ MutualExclusion'
    BY <2>1 DEF mutexVars, MutexTypeOK, MutualExclusion
  <2>3. ASSUME Yield(t) \/ Exit(t) PROVE Sleepers'
    BY <2>1, <2>3 DEF Yield, Exit, Sleepers, Asleep, mutexVars
  <2>4. ASSUME NEW c \in Chans \ Mutexes, NEW critical \in BOOLEAN,
               Sleep(t, c, critical)
        PROVE  Sleepers'
    <3>1. Queue(t, c) /\ goal' = goal
      BY <2>4 DEF Sleep, Queue
    <3> QED
      BY <2>1, <3>1, QueueSleepers DEF Sleepers, mutexVars
  <2>5. ASSUME NEW c \in Chans \ Mutexes, Wakeup(t, c) PROVE Sleepers'
    <3>1. ao_wakeup(c) /\ goal' = goal
      BY <2>5 DEF Wakeup, ao_wakeup
    <3> QED
      BY <2>1, <3>1, WakeupSleepers DEF Sleepers, mutexVars
  <2>6. ASSUME NEW c \in Chans \ Mutexes, NEW n \in Timeouts, SleepFor(t, c, n)
        PROVE  Sleepers'
    BY <2>1, <2>6 DEF SleepFor, Sleepers, Asleep, mutexVars, Inv, TypeOK
  <2>7. ASSUME NEW blocked \in BOOLEAN, Mask(t, blocked) PROVE Sleepers'
    BY <2>1, <2>7 DEF Mask, Sleepers, Asleep, mutexVars, queues
  <2>8. ASSUME NEW u \in Tasks, AddTask(t, u) PROVE Sleepers'
    BY <2>1, <2>8 DEF AddTask, Sleepers, Asleep, mutexVars
  <2> QED
    BY <1>1, <1>2, <2>2, <2>3, <2>4, <2>5, <2>6, <2>7, <2>8 DEF ProgramStep
<1>3. ASSUME NEW t \in Tasks, NEW m \in Mutexes, MutexGet(t, m) \/ MutexTry(t, m)
      PROVE  MutexInv'
  <2>1. /\ mutex[m] = NoTask /\ Take(t, m) /\ wants' = wants
        /\ ao_sleep_queue' = ao_sleep_queue /\ goal' = goal
    BY <1>3 DEF MutexGet, MutexTry, vars
  <2>2. MutexTypeOK' /\ MutualExclusion'
    BY <2>1, TakeOwner DEF MutexTypeOK
  <2>3. Sleepers'
    BY <2>1, TakeOwner DEF Sleepers, Asleep
  <2> QED
    BY <1>1, <2>2, <2>3
<1>4. ASSUME NEW t \in Tasks, NEW m \in Mutexes, MutexWait(t, m)
      PROVE  MutexInv'
  <2>1. /\ mutex[m] # NoTask /\ Queue(t, m) /\ goal' = goal
        /\ wants' = [wants EXCEPT ![t] = m] /\ UNCHANGED <<mutex, held>>
    BY <1>4 DEF MutexWait, Sleep, Queue
  <2>2. MutexTypeOK' /\ MutualExclusion'
    BY <2>1 DEF MutexTypeOK, MutualExclusion
  <2>3. Sleepers'
    BY <2>1, QueueSleepers DEF Sleepers
  <2> QED
    BY <1>1, <2>2, <2>3
<1>5. ASSUME NEW t \in Tasks, NEW m \in Mutexes, MutexPut(t, m)
      PROVE  MutexInv'
  <2>1. /\ mutex[m] = t /\ mutex' = [mutex EXCEPT ![m] = NoTask]
        /\ held' = [held EXCEPT ![t] = @ \ {m}] /\ wants' = wants
        /\ ao_wakeup(m) /\ goal' = goal
    BY <1>5 DEF MutexPut, Wakeup, ao_wakeup
  <2>2. MutexTypeOK' /\ MutualExclusion'
    BY <2>1 DEF MutexTypeOK, MutualExclusion
  <2>3. Sleepers'
    BY <2>1, WakeupSleepers DEF Sleepers, MutexTypeOK
  <2> QED
    BY <1>1, <2>2, <2>3
<1>6. ASSUME NEW t \in Tasks, MutexRetry(t) PROVE MutexInv'
  <2> DEFINE m == wants[t]
  <2>1. m \in Mutexes
    BY <1>6 DEF MutexRetry, MutexTypeOK
  <2>2. CASE mutex[m] # NoTask
    <3>1. Queue(t, m) /\ goal' = goal /\ UNCHANGED mutexVars
      BY <1>6, <2>2 DEF MutexRetry, Sleep, Queue
    <3>2. MutexTypeOK' /\ MutualExclusion'
      BY <3>1 DEF mutexVars, MutexTypeOK, MutualExclusion
    <3>3. Sleepers'
      BY <2>1, <2>2, <3>1, QueueSleepers DEF Sleepers, mutexVars
    <3> QED
      BY <1>1, <3>2, <3>3
  <2>3. CASE mutex[m] = NoTask
    <3>1. /\ Take(t, m) /\ wants' = [wants EXCEPT ![t] = NoChan]
          /\ ao_sleep_queue' = ao_sleep_queue /\ goal' = goal
      BY <1>6, <2>3 DEF MutexRetry, Mask, queues
    <3>2. MutexTypeOK' /\ MutualExclusion'
      BY <2>1, <2>3, <3>1, TakeOwner DEF MutexTypeOK
    <3>3. Sleepers'
      BY <2>1, <2>3, <3>1, TakeOwner DEF Sleepers, Asleep
    <3> QED
      BY <1>1, <3>2, <3>3
  <2> QED
    BY <2>2, <2>3
<1>7. CASE OtherStep
  <2>1. UNCHANGED mutexVars
    BY <1>7 DEF OtherStep
  <2>2. MutexTypeOK' /\ MutualExclusion'
    BY <2>1 DEF mutexVars, MutexTypeOK, MutualExclusion
  <2>3. ASSUME NEW t \in Tasks, SleepArmed(t) PROVE Sleepers'
    <3>1. Queue(t, goal[t]) /\ goal' = goal
      BY <2>3 DEF SleepArmed, Queue
    <3>2. goal[t] \in Chans \ Mutexes
      BY <2>3 DEF SleepArmed, At, Inv, TypeOK, Control, Sleepers
    <3> QED
      BY <2>1, <3>1, <3>2, QueueSleepers DEF Sleepers, mutexVars
  <2>4. ASSUME NEW t \in Tasks, Switch(t) \/ SleepReturn(t) PROVE Sleepers'
    BY <2>1, <2>4 DEF Switch, SleepReturn, Sleepers, Asleep, mutexVars, queues
  <2>5. ASSUME NEW t \in Tasks, ClearAlarm(t) PROVE Sleepers'
    BY <2>1, <2>5 DEF ClearAlarm, Sleepers, Asleep, mutexVars, Inv, TypeOK
  <2>6. ASSUME IdleDispatch PROVE Sleepers'
    BY <2>1, <2>6 DEF IdleDispatch, Sleepers, Asleep, mutexVars
  <2>7. ASSUME Tick PROVE Sleepers'
    <3>1. goal' = goal
      BY <2>7 DEF Tick
    <3> QED
      BY <2>1, <2>7, <3>1, TickSleepers DEF Sleepers, mutexVars
  <2>8. ASSUME NEW c \in IrqChans \ Mutexes, IrqWakeup(c) PROVE Sleepers'
    <3>1. ao_wakeup(c) /\ goal' = goal /\ c \in Chans
      BY <2>8 DEF IrqWakeup, ao_wakeup
    <3> QED
      BY <2>1, <3>1, WakeupSleepers DEF Sleepers, mutexVars
  <2> QED
    BY <1>1, <1>7, <2>2, <2>3, <2>4, <2>5, <2>6, <2>7, <2>8
       DEF OtherStep, KernelStep
<1>8. CASE UNCHANGED allVars
  BY <1>1, <1>8 DEF allVars, vars, mutexVars, MutexTypeOK, MutualExclusion,
                    Sleepers, Asleep
<1> QED
  BY <1>2, <1>3, <1>4, <1>5, <1>6, <1>7, <1>8 DEF MutexNext, MutexStep

(* MutexInv holds in every reachable state.                                *)
THEOREM MutexesInv == MutexSpec => []MutexInv
BY MutexInitInv, MutexNextInv, PTL DEF MutexSpec

(* The mutexes exclude: see MutualExclusion.                               *)
THEOREM MutexesExclude == MutexSpec => []MutualExclusion
BY MutexesInv, PTL DEF MutexInv

(* No task sleeps on a free mutex: see NoSleeperOnFreeMutex.               *)
THEOREM MutexesLoseNoWaiter == MutexSpec => []NoSleeperOnFreeMutex
<1>1. MutexInv => NoSleeperOnFreeMutex
  <2> SUFFICES ASSUME MutexInv, NEW m \in Mutexes, mutex[m] = NoTask
               PROVE  ao_sleep_queue[m] = << >>
    BY DEF NoSleeperOnFreeMutex
  <2>1. ao_sleep_queue[m] \in Seq(Tasks)
    BY MutexAssumption DEF MutexInv, Inv, TypeOK
  <2>2. \A t \in Tasks : t \notin Range(ao_sleep_queue[m])
    BY DEF MutexInv, Sleepers, Asleep
  <2> QED
    <3> DEFINE q == ao_sleep_queue[m]
    <3>1. ASSUME q # << >> PROVE FALSE
      BY <2>1, <2>2, <3>1, HeadElement
    <3> QED
      BY <3>1
<1> QED
  BY <1>1, MutexesInv, PTL

(* With mutexes the scheduler still loses no task: see NoTaskLost.         *)
THEOREM MutexesLoseNoTask == MutexSpec => []NoTaskLost
BY MutexesInv, PTL DEF MutexInv, Inv

-----------------------------------------------------------------------------
(* A step of the scheduler under unchanged mutexes is none of the lock.    *)
LEMMA MutexNextLock ==
  ASSUME MutexInv, [MutexNext]_allVars
  PROVE  [Lock!LockNext]_Lock!lockVars
<1> DEFINE waiting == [m \in Mutexes |-> {t \in Tasks : wants[t] = m}]
<1> USE TaskAssumption, MutexAssumption
<1>1. MutexTypeOK
  BY DEF MutexInv
<1>2. CASE UNCHANGED mutexVars
  BY <1>2 DEF mutexVars, Lock!lockVars
<1>3. ASSUME NEW t \in Tasks, NEW m \in Mutexes, MutexGet(t, m) \/ MutexTry(t, m)
      PROVE  Lock!Acquire(t, m)
  <2>1. /\ mutex[m] = NoTask /\ mutex' = [mutex EXCEPT ![m] = t]
        /\ wants' = wants /\ wants[t] = NoChan
    BY <1>3 DEF MutexGet, MutexTry, Take
  <2>2. waiting' = [waiting EXCEPT ![m] = @ \ {t}]
    BY <2>1
  <2> QED
    BY <2>1, <2>2 DEF Lock!Acquire
<1>4. ASSUME NEW t \in Tasks, NEW m \in Mutexes, MutexWait(t, m)
      PROVE  Lock!Wait(t, m)
  <2>1. /\ mutex[m] \notin {NoTask, t} /\ mutex' = mutex
        /\ wants' = [wants EXCEPT ![t] = m] /\ wants[t] = NoChan
    BY <1>4 DEF MutexWait
  <2>2. waiting' = [waiting EXCEPT ![m] = @ \union {t}]
    <3>1. ASSUME NEW n \in Mutexes
          PROVE  {u \in Tasks : wants'[u] = n} =
                   IF n = m THEN {u \in Tasks : wants[u] = n} \union {t}
                   ELSE {u \in Tasks : wants[u] = n}
      BY <1>1, <2>1 DEF MutexTypeOK
    <3>2. ASSUME NEW n \in Mutexes
          PROVE  waiting'[n] = [waiting EXCEPT ![m] = @ \union {t}][n]
      BY <3>1
    <3>3. /\ waiting' = [n \in Mutexes |-> waiting'[n]]
          /\ [waiting EXCEPT ![m] = @ \union {t}] =
               [n \in Mutexes |-> [waiting EXCEPT ![m] = @ \union {t}][n]]
      OBVIOUS
    <3> HIDE DEF waiting
    <3> QED
      BY <3>2, <3>3
  <2> QED
    BY <2>1, <2>2 DEF Lock!Wait
<1>5. ASSUME NEW t \in Tasks, NEW m \in Mutexes, MutexPut(t, m)
      PROVE  Lock!Release(t, m)
  BY <1>5 DEF MutexPut, Lock!Release
<1>6. ASSUME NEW t \in Tasks, MutexRetry(t)
      PROVE  UNCHANGED mutexVars \/ \E m \in Mutexes : Lock!Acquire(t, m)
  <2>1. PICK m \in Mutexes : wants[t] = m
    BY <1>1, <1>6 DEF MutexRetry, MutexTypeOK
  <2>2. CASE mutex[m] # NoTask
    BY <1>6, <2>1, <2>2 DEF MutexRetry
  <2>3. CASE mutex[m] = NoTask
    <3>1. /\ mutex' = [mutex EXCEPT ![m] = t]
          /\ wants' = [wants EXCEPT ![t] = NoChan]
      BY <1>6, <2>1, <2>3 DEF MutexRetry, Take
    <3>2. waiting' = [waiting EXCEPT ![m] = @ \ {t}]
      BY <1>1, <2>1, <3>1 DEF MutexTypeOK
    <3>3. Lock!Acquire(t, m)
      BY <2>3, <3>1, <3>2 DEF Lock!Acquire
    <3> QED
      BY <3>3
  <2> QED
    BY <2>2, <2>3
<1>8. CASE OtherStep \/ \E t \in Tasks : ProgramStep(t)
  BY <1>2, <1>8 DEF OtherStep, ProgramStep
<1>9. CASE UNCHANGED allVars
  BY <1>2, <1>9 DEF allVars
<1>10. CASE \E t \in Tasks : MutexStep(t)
  <2>1. PICK t \in Tasks : MutexStep(t)
    BY <1>10
  <2>2. CASE MutexRetry(t)
    <3>1. CASE UNCHANGED mutexVars
      BY <1>2, <3>1
    <3>2. CASE \E m \in Mutexes : Lock!Acquire(t, m)
      <4>1. Lock!LockNext
        BY <3>2, Zenon DEF Lock!LockNext
      <4> QED
        BY <4>1
    <3> QED
      BY <1>6, <2>2, <3>1, <3>2
  <2>3. CASE \E m \in Mutexes : \/ MutexGet(t, m) \/ MutexWait(t, m)
                               \/ MutexTry(t, m) \/ MutexPut(t, m)
    <3>1. PICK m \in Mutexes : \/ MutexGet(t, m) \/ MutexWait(t, m)
                               \/ MutexTry(t, m) \/ MutexPut(t, m)
      BY <2>3
    <3>2. Lock!Wait(t, m) \/ Lock!Acquire(t, m) \/ Lock!Release(t, m)
      BY <1>3, <1>4, <1>5, <3>1
    <3>3. Lock!LockNext
      BY <3>2, Zenon DEF Lock!LockNext
    <3> QED
      BY <3>3
  <2> QED
    BY <2>1, <2>2, <2>3 DEF MutexStep
<1> QED
  BY <1>8, <1>9, <1>10 DEF MutexNext

(* The mutexes implement the safety part of the abstract lock.             *)
THEOREM MutexesStepAsLock == MutexSpec => StepsAsLock
<1>1. MutexInit => Lock!LockInit
  BY TaskAssumption, MutexAssumption DEF MutexInit, Lock!LockInit
<1>2. MutexInv /\ [MutexNext]_allVars => [Lock!LockNext]_Lock!lockVars
  BY MutexNextLock
<1> QED
  BY <1>1, <1>2, MutexesInv, PTL DEF MutexSpec, StepsAsLock, Lock!LockSafety
=============================================================================

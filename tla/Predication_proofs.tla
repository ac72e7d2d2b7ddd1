------------------------- MODULE Predication_proofs -------------------------
(***************************************************************************)
(* Proofs about Predication, for any functions, widths and paths: the code *)
(* stays code (TypeCorrect), and a block that runs leaves the execution    *)
(* mask as it found it (EMIsRestored).                                     *)
(*                                                                         *)
(* The second is about places that the steps before move around, so the    *)
(* invariant follows the unmask regions of the source to the code that     *)
(* runs. predicateCode neither changes nor reorders what makes a mask and  *)
(* takes it (Masking, SameMasks), whatever it puts in between or takes out *)
(* (Alters, one lemma for each change): PassInv. lowerUnmaskOps has the    *)
(* regions Q, each as written or lowered, and nothing else opens or closes *)
(* a mask: LowerOK. Of the code that is left, MasksSaved says the same     *)
(* without the regions, and is all that running it needs: by induction     *)
(* over its places, RanTo says which mask EM, the variables and the values *)
(* hold before each of them.                                               *)
(***************************************************************************)
EXTENDS Predication, Recursion, SequenceTheorems, TLAPS

-----------------------------------------------------------------------------
(* The code and the ways it is changed.                                    *)

\* The value x is there before place k of the code c.
Defined(c, k, x) ==
  x \in Given \/ \E n \in 1 .. k - 1 : c[n].id = x /\ c[n].op # "unmask_end"

Coded(c) ==
  /\ c \in Seq(Instruction)
  /\ \A j, k \in 1 .. Len(c) : c[j].id = c[k].id => j = k
  /\ \A k \in 1 .. Len(c) : c[k].id \notin Given /\ Shaped(c[k])
  /\ \A k \in 1 .. Len(c) : \A x \in Operands(c[k]) : Defined(c, k, x)

\* An id leads to its place.
LEMMA PlaceFound ==
  ASSUME NEW c, Coded(c), NEW k \in 1 .. Len(c)
  PROVE  Place(c, c[k].id) = k
<1>1. DOMAIN c = 1 .. Len(c)
  BY DEF Coded
<1>2. \E j \in DOMAIN c : c[j].id = c[k].id
  BY <1>1
<1>3. QED
  BY <1>1, <1>2 DEF Place, Coded

LEMMA InstrFound ==
  ASSUME NEW c, Coded(c), NEW k \in 1 .. Len(c)
  PROVE  InstrIn(c, c[k].id) = c[k]
<1>1. DOMAIN c = 1 .. Len(c)
  BY DEF Coded
<1>2. QED
  BY <1>1, PlaceFound DEF InstrIn, Ids

\* A part of a sequence, which may be empty.
LEMMA PartIs ==
  ASSUME NEW S, NEW c \in Seq(S), NEW m \in 1 .. Len(c) + 1, NEW n \in m - 1 .. Len(c)
  PROVE  /\ SubSeq(c, m, n) \in Seq(S) /\ Len(SubSeq(c, m, n)) = n - m + 1
         /\ \A i \in 1 .. n - m + 1 : SubSeq(c, m, n)[i] = c[m + i - 1]
<1>1. Len(c) \in Nat /\ m \in Int /\ n \in Int
  BY LenProperties
<1>2. \A i \in m .. n : c[i] \in S
  <2> SUFFICES ASSUME NEW i \in m .. n PROVE c[i] \in S
    OBVIOUS
  <2>1. i \in 1 .. Len(c)
    BY <1>1
  <2>2. QED
    BY <2>1, ElementOfSeq
<1>3. /\ SubSeq(c, m, n) \in Seq(S)
      /\ Len(SubSeq(c, m, n)) = IF m <= n THEN n - m + 1 ELSE 0
      /\ \A i \in 1 .. n - m + 1 : SubSeq(c, m, n)[i] = c[m + i - 1]
  BY <1>1, <1>2, SubSeqProperties
<1>4. (IF m <= n THEN n - m + 1 ELSE 0) = n - m + 1
  BY <1>1
<1>5. QED
  BY <1>3, <1>4

\* Two sequences, one after the other.
LEMMA JoinIs ==
  ASSUME NEW S, NEW a \in Seq(S), NEW b \in Seq(S)
  PROVE  /\ a \o b \in Seq(S) /\ Len(a \o b) = Len(a) + Len(b)
         /\ Len(a) \in Nat /\ Len(b) \in Nat
         /\ \A n \in 1 .. Len(a) : (a \o b)[n] = a[n]
         /\ \A n \in 1 .. Len(b) : (a \o b)[Len(a) + n] = b[n]
<1>1. Len(a) \in Nat /\ Len(b) \in Nat
  BY LenProperties
<1>2. /\ a \o b \in Seq(S) /\ Len(a \o b) = Len(a) + Len(b)
      /\ \A i \in 1 .. Len(a) + Len(b) :
           (a \o b)[i] = IF i <= Len(a) THEN a[i] ELSE b[i - Len(a)]
  BY ConcatProperties
<1>3. ASSUME NEW n \in 1 .. Len(a) PROVE (a \o b)[n] = a[n]
  BY <1>1, <1>2
<1>4. ASSUME NEW n \in 1 .. Len(b) PROVE (a \o b)[Len(a) + n] = b[n]
  <2>1. Len(a) + n \in 1 .. Len(a) + Len(b) /\ ~(Len(a) + n <= Len(a))
        /\ Len(a) + n - Len(a) = n
    BY <1>1
  <2>2. QED
    BY <1>2, <2>1
<1>5. QED
  BY <1>1, <1>2, <1>3, <1>4

\* d is c with new put in at place k.
InsertedAs(c, d, k, new) ==
  /\ Len(d) = Len(c) + Len(new)
  /\ \A n \in 1 .. k - 1 : d[n] = c[n]
  /\ \A n \in 1 .. Len(new) : d[k - 1 + n] = new[n]
  /\ \A n \in k .. Len(c) : d[n + Len(new)] = c[n]

\* Instructions put before place k.
LEMMA InsertIs ==
  ASSUME NEW c, Coded(c), NEW k \in 1 .. Len(c), NEW new \in Seq(Instruction)
  PROVE  LET d == Insert(c, c[k].id, new)
         IN  d \in Seq(Instruction) /\ InsertedAs(c, d, k, new)
<1> DEFINE a == SubSeq(c, 1, k - 1)
           b == SubSeq(c, k, Len(c))
           ab == a \o new
           d == Insert(c, c[k].id, new)
<1>1. c \in Seq(Instruction) /\ Len(c) \in Nat
  BY DEF Coded
<1>2. a \in Seq(Instruction) /\ Len(a) = k - 1 /\ \A n \in 1 .. k - 1 : a[n] = c[n]
  <2>1. 1 \in 1 .. Len(c) + 1 /\ k - 1 \in 1 - 1 .. Len(c) /\ k - 1 - 1 + 1 = k - 1
    BY <1>1
  <2>2. \A i \in 1 .. k - 1 : 1 + i - 1 = i
    BY <1>1
  <2>3. QED
    BY <1>1, <2>1, <2>2, PartIs, SMTT(30)
<1>3. /\ b \in Seq(Instruction) /\ Len(b) = Len(c) - k + 1
      /\ \A n \in 1 .. Len(c) - k + 1 : b[n] = c[k + n - 1]
  <2>1. k \in 1 .. Len(c) + 1 /\ Len(c) \in k - 1 .. Len(c)
    BY <1>1
  <2>2. QED
    BY <1>1, <2>1, PartIs
<1>4. d = ab \o b
  BY PlaceFound DEF Insert
<1> HIDE DEF a, b, d
<1>5. /\ ab \in Seq(Instruction) /\ Len(ab) = k - 1 + Len(new)
      /\ \A n \in 1 .. k - 1 : ab[n] = c[n]
      /\ \A n \in 1 .. Len(new) : ab[k - 1 + n] = new[n]
  <2>1. a \in Seq(Instruction)
    BY <1>2
  <2>2. /\ ab \in Seq(Instruction) /\ Len(ab) = Len(a) + Len(new)
        /\ Len(a) \in Nat /\ Len(new) \in Nat
        /\ \A n \in 1 .. Len(a) : ab[n] = a[n]
        /\ \A n \in 1 .. Len(new) : ab[Len(a) + n] = new[n]
    BY <2>1, JoinIs
  <2> HIDE DEF ab
  <2>3. QED
    BY <1>1, <1>2, <2>2
<1> HIDE DEF ab
<1>6. /\ d \in Seq(Instruction) /\ Len(d) = Len(c) + Len(new)
      /\ \A n \in 1 .. Len(ab) : d[n] = ab[n]
      /\ \A n \in 1 .. Len(b) : d[Len(ab) + n] = b[n]
  <2>1. b \in Seq(Instruction) /\ ab \in Seq(Instruction)
    BY <1>3, <1>5
  <2>2. /\ ab \o b \in Seq(Instruction) /\ Len(ab \o b) = Len(ab) + Len(b)
        /\ \A n \in 1 .. Len(ab) : (ab \o b)[n] = ab[n]
        /\ \A n \in 1 .. Len(b) : (ab \o b)[Len(ab) + n] = b[n]
    BY <2>1, JoinIs
  <2>3. Len(ab) + Len(b) = Len(c) + Len(new)
    <3>1. Len(new) \in Nat
      BY LenProperties
    <3>2. QED
      BY <1>1, <1>3, <1>5, <3>1
  <2>4. QED
    BY <1>4, <2>2, <2>3
<1>7. \A n \in 1 .. k - 1 : d[n] = c[n]
  BY <1>5, <1>6
<1>8. \A n \in 1 .. Len(new) : d[k - 1 + n] = new[n]
  <2>1. Len(ab) = k - 1 + Len(new) /\ \A n \in 1 .. Len(new) : ab[k - 1 + n] = new[n]
    BY <1>5
  <2>2. \A n \in 1 .. Len(new) : k - 1 + n \in 1 .. Len(ab)
    BY <1>1, <2>1, LenProperties
  <2>3. QED
    BY <1>6, <2>1, <2>2
<1>9. ASSUME NEW n \in k .. Len(c) PROVE d[n + Len(new)] = c[n]
  <2>1. n - k + 1 \in 1 .. Len(b) /\ c[k + (n - k + 1) - 1] = c[n]
    BY <1>1, <1>3
  <2>2. Len(ab) + (n - k + 1) = n + Len(new)
    BY <1>1, <1>5
  <2>3. QED
    BY <1>3, <1>6, <2>1, <2>2
<1> HIDE DEF d
<1>10. InsertedAs(c, d, k, new)
  BY <1>6, <1>7, <1>8, <1>9 DEF InsertedAs
<1>11. QED
  BY <1>6, <1>10 DEF d

\* The instruction at place k taken away.
LEMMA EraseIs ==
  ASSUME NEW c, Coded(c), NEW k \in 1 .. Len(c)
  PROVE  LET d == Erase(c, c[k].id) IN
         /\ d \in Seq(Instruction)
         /\ Len(d) = Len(c) - 1
         /\ \A n \in 1 .. k - 1 : d[n] = c[n]
         /\ \A n \in k + 1 .. Len(c) : d[n - 1] = c[n]
<1> DEFINE a == SubSeq(c, 1, k - 1)
           b == SubSeq(c, k + 1, Len(c))
           d == Erase(c, c[k].id)
<1>1. c \in Seq(Instruction) /\ Len(c) \in Nat
  BY DEF Coded
<1>2. a \in Seq(Instruction) /\ Len(a) = k - 1 /\ \A n \in 1 .. k - 1 : a[n] = c[n]
  <2>1. 1 \in 1 .. Len(c) + 1 /\ k - 1 \in 1 - 1 .. Len(c) /\ k - 1 - 1 + 1 = k - 1
    BY <1>1
  <2>2. \A i \in 1 .. k - 1 : 1 + i - 1 = i
    BY <1>1
  <2>3. QED
    BY <1>1, <2>1, <2>2, PartIs
<1>3. /\ b \in Seq(Instruction) /\ Len(b) = Len(c) - k
      /\ \A n \in 1 .. Len(c) - k : b[n] = c[k + n]
  BY <1>1, SubSeqProperties
<1>4. d = a \o b
  BY PlaceFound DEF Erase, RemoveAt
<1> HIDE DEF a, b, d
<1>5. /\ d \in Seq(Instruction) /\ Len(d) = Len(c) - 1
      /\ \A n \in 1 .. k - 1 : d[n] = a[n]
      /\ \A n \in 1 .. Len(c) - k : d[k - 1 + n] = b[n]
  <2>1. /\ a \o b \in Seq(Instruction) /\ Len(a \o b) = Len(a) + Len(b)
        /\ \A n \in 1 .. Len(a) : (a \o b)[n] = a[n]
        /\ \A n \in 1 .. Len(b) : (a \o b)[Len(a) + n] = b[n]
    <3>1. a \in Seq(Instruction) /\ b \in Seq(Instruction)
      BY <1>2, <1>3
    <3>2. QED
      BY <3>1, JoinIs
  <2>2. QED
    BY <1>1, <1>2, <1>3, <1>4, <2>1, SMTT(30)
<1>6. ASSUME NEW n \in k + 1 .. Len(c) PROVE d[n - 1] = c[n]
  <2>1. n - k \in 1 .. Len(c) - k /\ k - 1 + (n - k) = n - 1 /\ k + (n - k) = n
    BY <1>1
  <2>2. QED
    BY <1>3, <1>5, <2>1, ZenonT(60)
<1>7. QED
  BY <1>2, <1>5, <1>6 DEF d

\* Instructions new that may be put before place k.
Addable(c, k, new) ==
  /\ new \in Seq(Instruction)
  /\ \A m, n \in 1 .. Len(new) : new[m].id = new[n].id => m = n
  /\ \A n \in 1 .. Len(new) :
       /\ new[n].id \notin Given /\ Shaped(new[n]) /\ new[n].op # "unmask_end"
       /\ \A m \in 1 .. Len(c) : new[n].id # c[m].id
       /\ \A x \in Operands(new[n]) : Defined(c, k, x) \/ \E m \in 1 .. n - 1 : new[m].id = x

LEMMA InsertCoded ==
  ASSUME NEW c, Coded(c), NEW k \in 1 .. Len(c), NEW new, Addable(c, k, new)
  PROVE  Coded(Insert(c, c[k].id, new))
<1> DEFINE d == Insert(c, c[k].id, new)
           L == Len(new)
<1>1. L \in Nat /\ new \in Seq(Instruction) /\ Len(c) \in Nat
  BY LenProperties DEF Addable, Coded
<1>2. /\ d \in Seq(Instruction)
      /\ Len(d) = Len(c) + L
      /\ \A n \in 1 .. k - 1 : d[n] = c[n]
      /\ \A n \in 1 .. L : d[k - 1 + n] = new[n]
      /\ \A n \in k .. Len(c) : d[n + L] = c[n]
  <2>1. d \in Seq(Instruction) /\ InsertedAs(c, d, k, new)
    BY <1>1, InsertIs
  <2>2. QED
    BY <2>1 DEF InsertedAs
<1> HIDE DEF d, L
<1>3. ASSUME NEW j \in 1 .. Len(d)
      PROVE  \/ j \in 1 .. k - 1 /\ d[j] = c[j]
             \/ j - (k - 1) \in 1 .. L /\ d[j] = new[j - (k - 1)]
             \/ j - L \in k .. Len(c) /\ d[j] = c[j - L]
  <2>1. CASE j < k
    BY <1>1, <1>2, <2>1, SMTT(30)
  <2>2. CASE k <= j /\ j < k + L
    <3>1. j - (k - 1) \in 1 .. L /\ k - 1 + (j - (k - 1)) = j
      BY <1>1, <2>2
    <3>2. QED
      BY <1>2, <3>1
  <2>3. CASE k + L <= j
    <3>1. j - L \in k .. Len(c) /\ (j - L) + L = j
      BY <1>1, <1>2, <2>3
    <3>2. QED
      BY <1>2, <3>1
  <2>4. QED
    BY <1>1, <2>1, <2>2, <2>3
<1> DEFINE OldAt(j, o) == d[j] = c[o] /\ j = IF o < k THEN o ELSE o + L
           NewAt(j, o) == d[j] = new[o] /\ j = k - 1 + o
<1>9. ASSUME NEW j \in 1 .. Len(d)
      PROVE  (\E o \in 1 .. Len(c) : OldAt(j, o)) \/ \E o \in 1 .. L : NewAt(j, o)
  <2>1. CASE j \in 1 .. k - 1 /\ d[j] = c[j]
    <3>1. j \in 1 .. Len(c) /\ OldAt(j, j)
      BY <1>1, <2>1
    <3>2. QED
      BY <3>1
  <2>2. CASE j - (k - 1) \in 1 .. L /\ d[j] = new[j - (k - 1)]
    <3>1. NewAt(j, j - (k - 1))
      BY <1>1, <2>2
    <3>2. QED
      BY <2>2, <3>1
  <2>3. CASE j - L \in k .. Len(c) /\ d[j] = c[j - L]
    <3>1. j - L \in 1 .. Len(c) /\ OldAt(j, j - L)
      BY <1>1, <2>3
    <3>2. QED
      BY <3>1
  <2>4. QED
    BY <1>3, <2>1, <2>2, <2>3
<1>4. \A j, n \in 1 .. Len(d) : d[j].id = d[n].id => j = n
  <2> SUFFICES ASSUME NEW j \in 1 .. Len(d), NEW n \in 1 .. Len(d), d[j].id = d[n].id
               PROVE  j = n
    OBVIOUS
  <2>1. \A m \in 1 .. L : \A o \in 1 .. Len(c) : new[m].id # c[o].id
    BY DEF Addable, L
  <2>2. \A m, o \in 1 .. L : new[m].id = new[o].id => m = o
    BY DEF Addable, L
  <2>3. \A m, o \in 1 .. Len(c) : c[m].id = c[o].id => m = o
    BY DEF Coded
  <2>4. CASE (\E o \in 1 .. Len(c) : OldAt(j, o)) /\ \E m \in 1 .. Len(c) : OldAt(n, m)
    BY <2>3, <2>4 DEF OldAt
  <2>5. CASE (\E o \in 1 .. L : NewAt(j, o)) /\ \E m \in 1 .. L : NewAt(n, m)
    BY <2>2, <2>5 DEF NewAt
  <2>6. CASE (\E o \in 1 .. Len(c) : OldAt(j, o)) /\ \E m \in 1 .. L : NewAt(n, m)
    BY <2>1, <2>6 DEF OldAt, NewAt
  <2>7. CASE (\E o \in 1 .. L : NewAt(j, o)) /\ \E m \in 1 .. Len(c) : OldAt(n, m)
    BY <2>1, <2>7 DEF OldAt, NewAt
  <2>8. QED
    BY <1>9, <2>4, <2>5, <2>6, <2>7
<1>5. ASSUME NEW j \in 1 .. Len(d) PROVE d[j].id \notin Given /\ Shaped(d[j])
  <2>1. CASE \E o \in 1 .. Len(c) : OldAt(j, o)
    BY <2>1 DEF OldAt, Coded
  <2>2. CASE \E o \in 1 .. L : NewAt(j, o)
    BY <2>2 DEF NewAt, Addable, L
  <2>3. QED
    BY <1>9, <2>1, <2>2
<1>6. ASSUME NEW n \in 1 .. Len(c), NEW x, Defined(c, n, x)
      PROVE  /\ n < k => Defined(d, n, x)
             /\ n = k => \A j \in k .. Len(d) : Defined(d, j, x)
             /\ n >= k => Defined(d, n + L, x)
  <2>1. CASE x \in Given
    BY <2>1 DEF Defined
  <2>2. CASE \E m \in 1 .. n - 1 : c[m].id = x /\ c[m].op # "unmask_end"
    <3>1. PICK m \in 1 .. n - 1 : c[m].id = x /\ c[m].op # "unmask_end"
      BY <2>2
    <3>2. CASE m < k
      <4>1. m \in 1 .. k - 1 /\ d[m] = c[m]
        BY <1>1, <1>2, <3>2
      <4>2. d[m].id = x /\ d[m].op # "unmask_end"
        BY <3>1, <4>1
      <4>3. m \in 1 .. n - 1 /\ m \in 1 .. (n + L) - 1 /\ \A j \in k .. Len(d) : m \in 1 .. j - 1
        BY <1>1, <3>1, <4>1
      <4> HIDE DEF d, L
      <4>4. QED
        BY <4>2, <4>3 DEF Defined
    <3>3. CASE m >= k
      <4>1. m + L \in 1 .. (n + L) - 1 /\ d[m + L] = c[m]
        BY <1>1, <1>2, <3>3
      <4>2. Defined(d, n + L, x)
        BY <3>1, <4>1 DEF Defined
      <4>3. ~(n < k) /\ n # k
        BY <1>1, <3>3
      <4>4. QED
        BY <4>2, <4>3
    <3>4. QED
      BY <1>1, <3>2, <3>3
  <2>3. QED
    BY <1>6, <2>1, <2>2 DEF Defined
<1>7. ASSUME NEW j \in 1 .. Len(d), NEW x \in Operands(d[j]) PROVE Defined(d, j, x)
  <2>1. CASE j \in 1 .. k - 1 /\ d[j] = c[j]
    <3>1. j \in 1 .. Len(c) /\ Defined(c, j, x)
      BY <1>1, <2>1 DEF Coded
    <3>2. QED
      BY <1>1, <1>6, <2>1, <3>1
  <2>2. CASE j - (k - 1) \in 1 .. L /\ d[j] = new[j - (k - 1)]
    <3> DEFINE n == j - (k - 1)
    <3>1. n \in 1 .. L /\ x \in Operands(new[n])
      BY <2>2
    <3>2. Defined(c, k, x) \/ \E m \in 1 .. n - 1 : new[m].id = x
      <4> HIDE DEF n
      <4>1. QED
        BY <3>1 DEF Addable, L
    <3>3. CASE Defined(c, k, x)
      <4>1. j \in k .. Len(d)
        BY <1>1, <2>2
      <4>2. QED
        BY <1>1, <1>6, <3>3, <4>1
    <3>4. CASE \E m \in 1 .. n - 1 : new[m].id = x
      <4>1. PICK m \in 1 .. n - 1 : new[m].id = x
        BY <3>4
      <4>2. m \in 1 .. L /\ k - 1 + m \in 1 .. j - 1
        BY <1>1, <3>1
      <4>3. d[k - 1 + m] = new[m] /\ new[m].op # "unmask_end"
        BY <1>2, <4>2 DEF Addable, L
      <4>4. QED
        BY <4>1, <4>2, <4>3 DEF Defined
    <3>5. QED
      BY <3>2, <3>3, <3>4
  <2>3. CASE j - L \in k .. Len(c) /\ d[j] = c[j - L]
    <3> DEFINE n == j - L
    <3>1. n \in 1 .. Len(c) /\ n >= k /\ x \in Operands(c[n]) /\ n + L = j
      BY <1>1, <2>3
    <3>2. Defined(c, n, x)
      <4> HIDE DEF n
      <4>1. QED
        BY <3>1 DEF Coded
    <3>3. Defined(d, n + L, x)
      <4> HIDE DEF n
      <4>1. QED
        BY <1>6, <3>1, <3>2
    <3>4. QED
      BY <3>1, <3>3
  <2>4. QED
    BY <1>3, <2>1, <2>2, <2>3
<1>8. QED
  <2>1. Coded(d)
    BY <1>2, <1>4, <1>5, <1>7 DEF Coded
  <2>2. QED
    BY <2>1 DEF d

\* A value that nothing takes can go.
LEMMA EraseCoded ==
  ASSUME NEW c, Coded(c), NEW k \in 1 .. Len(c), Unused(c, c[k].id)
  PROVE  Coded(Erase(c, c[k].id))
<1> DEFINE d == Erase(c, c[k].id)
<1>1. Len(c) \in Nat /\ DOMAIN c = 1 .. Len(c)
  BY LenProperties DEF Coded
<1>2. /\ d \in Seq(Instruction)
      /\ Len(d) = Len(c) - 1
      /\ \A n \in 1 .. k - 1 : d[n] = c[n]
      /\ \A n \in k + 1 .. Len(c) : d[n - 1] = c[n]
  BY EraseIs
<1> HIDE DEF d
<1> DEFINE Moved(j, o) == d[j] = c[o] /\ o # k /\ j = IF o < k THEN o ELSE o - 1
<1>3. ASSUME NEW j \in 1 .. Len(d) PROVE \E o \in 1 .. Len(c) : Moved(j, o)
  <2>1. CASE j < k
    <3>1. j \in 1 .. Len(c) /\ Moved(j, j)
      BY <1>1, <1>2, <2>1
    <3>2. QED
      BY <3>1
  <2>2. CASE j >= k
    <3>1. j + 1 \in k + 1 .. Len(c) /\ (j + 1) - 1 = j
      BY <1>1, <1>2, <2>2
    <3>2. j + 1 \in 1 .. Len(c) /\ Moved(j, j + 1)
      BY <1>1, <1>2, <3>1
    <3>3. QED
      BY <3>2
  <2>3. QED
    BY <1>1, <1>2, <2>1, <2>2
<1>4. ASSUME NEW j \in 1 .. Len(d), NEW n \in 1 .. Len(d), d[j].id = d[n].id PROVE j = n
  <2>1. PICK o \in 1 .. Len(c) : Moved(j, o)
    BY <1>3
  <2>2. PICK m \in 1 .. Len(c) : Moved(n, m)
    BY <1>3
  <2>3. o = m
    BY <1>4, <2>1, <2>2 DEF Coded
  <2>4. QED
    BY <2>1, <2>2, <2>3
<1>5. ASSUME NEW j \in 1 .. Len(d) PROVE d[j].id \notin Given /\ Shaped(d[j])
  <2>1. PICK o \in 1 .. Len(c) : Moved(j, o)
    BY <1>3
  <2>2. QED
    BY <2>1 DEF Coded
<1>6. ASSUME NEW j \in 1 .. Len(d), NEW x \in Operands(d[j]) PROVE Defined(d, j, x)
  <2>1. PICK o \in 1 .. Len(c) : Moved(j, o)
    BY <1>3
  <2>2. x \in Operands(c[o]) /\ Defined(c, o, x) /\ x # c[k].id
    BY <1>1, <2>1 DEF Coded, Unused
  <2>3. CASE x \in Given
    BY <2>3 DEF Defined
  <2>4. CASE \E m \in 1 .. o - 1 : c[m].id = x /\ c[m].op # "unmask_end"
    <3>1. PICK m \in 1 .. o - 1 : c[m].id = x /\ c[m].op # "unmask_end"
      BY <2>4
    <3>2. m # k
      BY <2>2, <3>1
    <3>3. CASE m < k
      <4>1. m \in 1 .. j - 1 /\ d[m] = c[m]
        BY <1>1, <1>2, <2>1, <3>1, <3>3
      <4>2. QED
        BY <3>1, <4>1 DEF Defined
    <3>4. CASE m > k
      <4>1. m - 1 \in 1 .. j - 1 /\ d[m - 1] = c[m]
        <5>1. o > k /\ m \in k + 1 .. Len(c)
          BY <1>1, <3>1, <3>4
        <5>2. j = o - 1
          BY <2>1, <5>1
        <5>3. QED
          BY <1>1, <1>2, <3>1, <5>1, <5>2
      <4>2. QED
        BY <3>1, <4>1 DEF Defined
    <3>5. QED
      BY <1>1, <3>2, <3>3, <3>4
  <2>5. QED
    BY <2>2, <2>3, <2>4 DEF Defined
<1>7. QED
  <2>1. Coded(d)
    BY <1>2, <1>4, <1>5, <1>6 DEF Coded
  <2>2. QED
    BY <2>1 DEF d

\* The value old is replaced by new.
UsesReplaced(c, d, old, new) ==
  /\ d \in Seq(Instruction) /\ Len(d) = Len(c)
  /\ \A n \in 1 .. Len(c) :
       /\ d[n].id = c[n].id /\ d[n].op = c[n].op /\ d[n].bb = c[n].bb
       /\ d[n].width = c[n].width /\ d[n].exec = c[n].exec
       /\ d[n].pred = Renamed(c[n].pred, old, new)
       /\ d[n].args \in Seq(Int) /\ Len(d[n].args) = Len(c[n].args)
       /\ \A m \in 1 .. Len(c[n].args) : d[n].args[m] = Renamed(c[n].args[m], old, new)

LEMMA ReplaceIs ==
  ASSUME NEW c, Coded(c), NEW old \in Nat \ {0}, NEW new \in Nat \ {0}
  PROVE  UsesReplaced(c, ReplaceUses(c, old, new), old, new)
<1> DEFINE d == ReplaceUses(c, old, new)
<1>1. Len(c) \in Nat /\ DOMAIN c = 1 .. Len(c) /\ c \in Seq(Instruction)
  BY LenProperties DEF Coded
<1>2. ASSUME NEW n \in 1 .. Len(c)
      PROVE  /\ d[n] \in Instruction
             /\ d[n].id = c[n].id /\ d[n].op = c[n].op /\ d[n].bb = c[n].bb
             /\ d[n].width = c[n].width /\ d[n].exec = c[n].exec
             /\ d[n].pred = Renamed(c[n].pred, old, new)
             /\ d[n].args \in Seq(Int) /\ Len(d[n].args) = Len(c[n].args)
             /\ \A m \in 1 .. Len(c[n].args) : d[n].args[m] = Renamed(c[n].args[m], old, new)
  <2> DEFINE i == c[n]
             args == [m \in DOMAIN i.args |-> Renamed(i.args[m], old, new)]
             pred == Renamed(i.pred, old, new)
  <2>1. i \in Instruction
    BY <1>1, ElementOfSeq
  <2>2. i.args \in Seq(Int) /\ i.pred \in Int /\ Len(i.args) \in Nat
        /\ DOMAIN i.args = 1 .. Len(i.args)
    BY <2>1, LenProperties DEF Instruction
  <2>3. args \in Seq(Int) /\ Len(args) = Len(i.args)
    <3>1. \A m \in 1 .. Len(i.args) : Renamed(i.args[m], old, new) \in Int
      <4> HIDE DEF i
      <4>1. \A m \in 1 .. Len(i.args) : i.args[m] \in Int
        BY <2>2, ElementOfSeq
      <4>2. QED
        BY <4>1 DEF Renamed
    <3>2. args \in [1 .. Len(i.args) -> Int]
      BY <2>2, <3>1
    <3>3. QED
      BY <2>2, <3>2
  <2>4. pred \in Int
    BY <2>2 DEF Renamed
  <2>5. d[n] = [i EXCEPT !.args = args, !.pred = pred]
    BY <1>1 DEF ReplaceUses
  <2>6. \A m \in 1 .. Len(i.args) : args[m] = Renamed(i.args[m], old, new)
    BY <2>2
  <2> HIDE DEF i, args, pred, d
  <2>7. /\ [i EXCEPT !.args = args, !.pred = pred] \in Instruction
        /\ [i EXCEPT !.args = args, !.pred = pred].args = args
        /\ [i EXCEPT !.args = args, !.pred = pred].pred = pred
        /\ \A f \in {"id", "op", "bb", "width", "exec"} :
             [i EXCEPT !.args = args, !.pred = pred][f] = i[f]
    BY <2>1, <2>3, <2>4 DEF Instruction
  <2>8. /\ d[n] \in Instruction /\ d[n].args = args /\ d[n].pred = pred
        /\ d[n].id = i.id /\ d[n].op = i.op /\ d[n].bb = i.bb
        /\ d[n].width = i.width /\ d[n].exec = i.exec
    BY <2>5, <2>7
  <2>9. QED
    BY <2>3, <2>6, <2>8 DEF i, pred
<1>3. d \in Seq(Instruction) /\ Len(d) = Len(c)
  <2>1. DOMAIN d = 1 .. Len(c)
    BY <1>1 DEF ReplaceUses
  <2>2. d = [n \in 1 .. Len(c) |-> d[n]]
    BY <2>1 DEF ReplaceUses
  <2> HIDE DEF d
  <2>3. d \in [1 .. Len(c) -> Instruction]
    BY <1>2, <2>1, <2>2
  <2>4. QED
    BY <1>1, <2>3
<1>4. QED
  BY <1>2, <1>3 DEF UsesReplaced

LEMMA RenamedOperands ==
  ASSUME NEW c, Coded(c), NEW old \in Nat \ {0}, NEW new \in Nat \ {0}, NEW n \in 1 .. Len(c),
         NEW x \in Operands(ReplaceUses(c, old, new)[n])
  PROVE  (x = new /\ old \in Operands(c[n])) \/ (x \in Operands(c[n]) /\ x # old)
<1> DEFINE d == ReplaceUses(c, old, new)
           i == c[n]
           e == d[n]
<1>1. /\ e.pred = Renamed(i.pred, old, new)
      /\ e.args \in Seq(Int) /\ Len(e.args) = Len(i.args)
      /\ \A m \in 1 .. Len(i.args) : e.args[m] = Renamed(i.args[m], old, new)
  BY ReplaceIs DEF UsesReplaced
<1>2. i \in Instruction
  BY ElementOfSeq DEF Coded
<1> HIDE DEF d, i, e
<1>3. DOMAIN e.args = 1 .. Len(i.args) /\ DOMAIN i.args = 1 .. Len(i.args)
  BY <1>1, <1>2, LenProperties DEF Instruction
<1>4. CASE x \in Range(e.args)
  <2>1. PICK m \in 1 .. Len(i.args) : x = Renamed(i.args[m], old, new)
    BY <1>1, <1>3, <1>4 DEF Range
  <2>2. i.args[m] \in Operands(i)
    BY <1>3 DEF Operands, Range
  <2>3. QED
    BY <2>1, <2>2 DEF Renamed, i
<1>5. CASE x = e.pred /\ x \notin {NoPred, AllOnes, ScalarOne}
  <2>1. x = Renamed(i.pred, old, new)
    BY <1>1, <1>5
  <2>2. old \notin {NoPred, AllOnes, ScalarOne}
    BY DEF NoPred, AllOnes, ScalarOne
  <2>3. CASE i.pred = old
    BY <2>1, <2>2, <2>3 DEF Renamed, Operands, i
  <2>4. CASE i.pred # old
    BY <1>5, <2>1, <2>4 DEF Renamed, Operands, i
  <2>5. QED
    BY <2>3, <2>4
<1>6. x \in Operands(e)
  BY DEF e, d
<1>7. QED
  BY <1>4, <1>5, <1>6 DEF Operands

LEMMA ReplaceCoded ==
  ASSUME NEW c, Coded(c), NEW k \in 1 .. Len(c), NEW j \in 1 .. k - 1,
         c[j].op # "unmask_end"
  PROVE  Coded(ReplaceUses(c, c[k].id, c[j].id))
<1> DEFINE old == c[k].id
           new == c[j].id
           d == ReplaceUses(c, old, new)
<1>1. Len(c) \in Nat /\ j \in 1 .. Len(c) /\ old \in Nat \ {0} /\ new \in Nat \ {0}
  <2>1. Len(c) \in Nat
    BY LenProperties DEF Coded
  <2>2. j \in 1 .. Len(c)
    BY <2>1
  <2>3. c[k] \in Instruction /\ c[j] \in Instruction
    BY <2>2, ElementOfSeq DEF Coded
  <2>4. QED
    BY <2>1, <2>2, <2>3 DEF Instruction
<1>2. /\ d \in Seq(Instruction) /\ Len(d) = Len(c)
      /\ \A n \in 1 .. Len(c) :
           /\ d[n].id = c[n].id /\ d[n].op = c[n].op /\ d[n].exec = c[n].exec
           /\ d[n].pred = Renamed(c[n].pred, old, new)
           /\ Len(d[n].args) = Len(c[n].args)
  <2> HIDE DEF old, new
  <2>1. QED
    BY <1>1, ReplaceIs, SMTT(30) DEF UsesReplaced
<1>3. \A n \in 1 .. Len(c) : \A x \in Operands(d[n]) :
        (x = new /\ old \in Operands(c[n])) \/ (x \in Operands(c[n]) /\ x # old)
  <2> HIDE DEF old, new
  <2>1. QED
    BY <1>1, RenamedOperands
<1> HIDE DEF d
<1>4. ASSUME NEW n \in 1 .. Len(d) PROVE d[n].id \notin Given /\ Shaped(d[n])
  <2>1. c[n].id \notin Given /\ Shaped(c[n])
    BY <1>2, <1>4 DEF Coded
  <2>2. \A p \in {NoPred, ScalarOne} : d[n].pred = p <=> c[n].pred = p
    <3> HIDE DEF old, new
    <3>1. QED
      BY <1>1, <1>2, SMTT(30) DEF Renamed, NoPred, ScalarOne
  <2>3. QED
    BY <1>2, <2>1, <2>2 DEF Shaped
<1>5. ASSUME NEW n \in 1 .. Len(d), NEW x \in Operands(d[n]) PROVE Defined(d, n, x)
  <2>1. n \in 1 .. Len(c)
    BY <1>2
  <2>2. \A y : Defined(c, n, y) => Defined(d, n, y)
    BY <1>1, <1>2, <2>1, SMTT(30) DEF Defined
  <2>3. CASE x \in Operands(c[n])
    BY <2>1, <2>2, <2>3 DEF Coded
  <2>4. CASE x = new /\ old \in Operands(c[n])
    <3>1. Defined(c, n, old) /\ old \notin Given
      BY <2>1, <2>4 DEF Coded
    <3>2. PICK m \in 1 .. n - 1 : c[m].id = old
      BY <3>1 DEF Defined
    <3>3. m = k
      <4>1. m \in 1 .. Len(c)
        BY <1>1, <2>1
      <4>2. QED
        BY <3>2, <4>1 DEF Coded
    <3>4. j \in 1 .. n - 1
      BY <1>1, <2>1, <3>3
    <3>5. Defined(c, n, new)
      BY <3>4 DEF Defined
    <3>6. QED
      BY <2>2, <2>4, <3>5
  <2>5. QED
    BY <1>3, <2>1, <2>3, <2>4
<1>6. \A m, n \in 1 .. Len(d) : d[m].id = d[n].id => m = n
  BY <1>2 DEF Coded
<1>7. QED
  <2>1. Coded(d)
    BY <1>2, <1>4, <1>5, <1>6 DEF Coded
  <2>2. QED
    BY <2>1 DEF d

\* An argument of place k becomes v.
ArgChanged(c, d, k, m, v) ==
  /\ d \in Seq(Instruction) /\ Len(d) = Len(c)
  /\ \A n \in 1 .. Len(c) : n # k => d[n] = c[n]
  /\ d[k].id = c[k].id /\ d[k].op = c[k].op /\ d[k].bb = c[k].bb
  /\ d[k].width = c[k].width /\ d[k].exec = c[k].exec /\ d[k].pred = c[k].pred
  /\ d[k].args \in Seq(Int) /\ Len(d[k].args) = Len(c[k].args)
  /\ \A n \in 1 .. Len(c[k].args) : d[k].args[n] = IF n = m THEN v ELSE c[k].args[n]

LEMMA SetArgIs ==
  ASSUME NEW c, Coded(c), NEW k \in 1 .. Len(c), NEW m \in Nat, NEW v \in Int
  PROVE  ArgChanged(c, SetArg(c, c[k].id, m, v), k, m, v)
<1> DEFINE d == SetArg(c, c[k].id, m, v)
           i == c[k]
           args == [i.args EXCEPT ![m] = v]
<1>1. Len(c) \in Nat /\ DOMAIN c = 1 .. Len(c) /\ c \in Seq(Instruction)
  BY LenProperties DEF Coded
<1>2. i \in Instruction /\ i.args \in Seq(Int) /\ Len(i.args) \in Nat
      /\ DOMAIN i.args = 1 .. Len(i.args)
  <2>1. i \in Instruction
    BY <1>1, ElementOfSeq
  <2>2. QED
    BY <2>1, LenProperties DEF Instruction
<1>3. \A n \in 1 .. Len(c) : n # k => d[n] = c[n]
  BY <1>1 DEF SetArg, Coded
<1>4. d[k] = [i EXCEPT !.args = args]
  BY <1>1 DEF SetArg
<1>5. DOMAIN d = 1 .. Len(c)
  BY <1>1 DEF SetArg
<1>6. d = [n \in 1 .. Len(c) |-> d[n]]
  BY <1>5 DEF SetArg
<1>7. args \in Seq(Int) /\ Len(args) = Len(i.args)
      /\ \A n \in 1 .. Len(i.args) : args[n] = IF n = m THEN v ELSE i.args[n]
  <2> HIDE DEF i
  <2>1. args \in [1 .. Len(i.args) -> Int]
    BY <1>2, LenProperties
  <2>2. QED
    BY <1>2, <2>1, SMTT(30)
<1> HIDE DEF i, args, d
<1>8. /\ [i EXCEPT !.args = args] \in Instruction
      /\ [i EXCEPT !.args = args].args = args
      /\ [i EXCEPT !.args = args].pred = i.pred
      /\ \A f \in {"id", "op", "bb", "width", "exec"} : [i EXCEPT !.args = args][f] = i[f]
  BY <1>2, <1>7 DEF Instruction
<1>9. /\ d[k] \in Instruction /\ d[k].args = args /\ d[k].pred = i.pred
      /\ d[k].id = i.id /\ d[k].op = i.op /\ d[k].bb = i.bb
      /\ d[k].width = i.width /\ d[k].exec = i.exec
  BY <1>4, <1>8
<1>10. d \in Seq(Instruction) /\ Len(d) = Len(c)
  <2>1. \A n \in 1 .. Len(c) : d[n] \in Instruction
    <3>1. \A n \in 1 .. Len(c) : c[n] \in Instruction
      BY <1>1, ElementOfSeq
    <3>2. QED
      BY <1>3, <1>9, <3>1
  <2>2. d \in [1 .. Len(c) -> Instruction]
    BY <1>6, <2>1
  <2>3. QED
    BY <1>1, <2>2
<1>11. QED
  BY <1>3, <1>7, <1>9, <1>10 DEF i, d, ArgChanged

\* The predicate of place k becomes v.
LEMMA SetPredIs ==
  ASSUME NEW c, Coded(c), NEW k \in 1 .. Len(c), NEW v \in Int
  PROVE  LET d == SetPred(c, c[k].id, v) IN
         /\ d \in Seq(Instruction) /\ Len(d) = Len(c)
         /\ \A n \in 1 .. Len(c) : n # k => d[n] = c[n]
         /\ d[k].id = c[k].id /\ d[k].op = c[k].op /\ d[k].bb = c[k].bb
         /\ d[k].width = c[k].width /\ d[k].exec = c[k].exec
         /\ d[k].args = c[k].args /\ d[k].pred = v
<1> DEFINE d == SetPred(c, c[k].id, v)
           i == c[k]
<1>1. Len(c) \in Nat /\ DOMAIN c = 1 .. Len(c) /\ c \in Seq(Instruction)
  BY LenProperties DEF Coded
<1>2. i \in Instruction
  BY <1>1, ElementOfSeq
<1>3. \A n \in 1 .. Len(c) : n # k => d[n] = c[n]
  BY <1>1 DEF SetPred, Coded
<1>4. d[k] = [i EXCEPT !.pred = v]
  BY <1>1 DEF SetPred
<1>5. DOMAIN d = 1 .. Len(c)
  BY <1>1 DEF SetPred
<1>6. d = [n \in 1 .. Len(c) |-> d[n]]
  BY <1>5 DEF SetPred
<1> HIDE DEF i, d
<1>8. /\ [i EXCEPT !.pred = v] \in Instruction
      /\ [i EXCEPT !.pred = v].pred = v
      /\ \A f \in {"id", "op", "bb", "width", "exec", "args"} : [i EXCEPT !.pred = v][f] = i[f]
  BY <1>2 DEF Instruction
<1>10. d \in Seq(Instruction) /\ Len(d) = Len(c)
  <2>1. \A n \in 1 .. Len(c) : d[n] \in Instruction
    <3>1. \A n \in 1 .. Len(c) : c[n] \in Instruction
      BY <1>1, ElementOfSeq
    <3>2. QED
      BY <1>3, <1>4, <1>8, <3>1
  <2>2. d \in [1 .. Len(c) -> Instruction]
    BY <1>6, <2>1
  <2>3. QED
    BY <1>1, <2>2
<1>12. QED
  BY <1>3, <1>4, <1>8, <1>10 DEF i, d

\* One instruction takes other values that are there.
LEMMA ChangeCoded ==
  ASSUME NEW c, Coded(c), NEW k \in 1 .. Len(c), NEW d \in Seq(Instruction), Len(d) = Len(c),
         \A n \in 1 .. Len(c) : n # k => d[n] = c[n],
         d[k].id = c[k].id, d[k].op = c[k].op, Shaped(d[k]),
         \A x \in Operands(d[k]) : Defined(c, k, x)
  PROVE  Coded(d)
<1>1. \A n \in 1 .. Len(c) : d[n].id = c[n].id /\ d[n].op = c[n].op
  OBVIOUS
<1>2. Len(c) \in Nat
  BY LenProperties DEF Coded
<1>3. ASSUME NEW n \in 1 .. Len(c), NEW x, Defined(c, n, x) PROVE Defined(d, n, x)
  <2>1. \A m \in 1 .. n - 1 : m \in 1 .. Len(c)
    BY <1>2
  <2>2. QED
    BY <1>1, <1>3, <2>1 DEF Defined
<1>4. ASSUME NEW n \in 1 .. Len(c), NEW x \in Operands(d[n]) PROVE Defined(d, n, x)
  <2>1. Defined(c, n, x)
    BY DEF Coded
  <2>2. QED
    BY <1>3, <2>1
<1>5. \A n \in 1 .. Len(c) : d[n].id \notin Given /\ Shaped(d[n])
  BY DEF Coded
<1>6. \A m, n \in 1 .. Len(c) : d[m].id = d[n].id => m = n
  BY <1>1 DEF Coded
<1>7. QED
  BY <1>4, <1>5, <1>6 DEF Coded

LEMMA SetPredCoded ==
  ASSUME NEW c, Coded(c), NEW k \in 1 .. Len(c), NEW v \in Nat \ {0}, Defined(c, k, v),
         c[k].op \in ScatterGathers \cup Sends
  PROVE  Coded(SetPred(c, c[k].id, v))
<1> DEFINE d == SetPred(c, c[k].id, v)
<1>1. v \in Int
  OBVIOUS
<1>2. /\ d \in Seq(Instruction) /\ Len(d) = Len(c)
      /\ \A n \in 1 .. Len(c) : n # k => d[n] = c[n]
      /\ d[k].id = c[k].id /\ d[k].op = c[k].op /\ d[k].bb = c[k].bb
      /\ d[k].width = c[k].width /\ d[k].exec = c[k].exec
      /\ d[k].args = c[k].args /\ d[k].pred = v
  <2> HIDE DEF d
  <2>1. QED
    BY <1>1, SetPredIs DEF d
<1> HIDE DEF d
<1>3. Shaped(c[k])
  BY DEF Coded
<1>4. Shaped(d[k])
  <2>1. d[k].pred \notin {NoPred, ScalarOne}
    BY <1>2 DEF NoPred, ScalarOne
  <2>2. QED
    BY <1>2, <1>3, <2>1 DEF Shaped, ScatterGathers, Sends
<1>5. ASSUME NEW x \in Operands(d[k]) PROVE Defined(c, k, x)
  <2>1. CASE x = v
    BY <2>1
  <2>2. CASE x # v
    <3>1. x \in Operands(c[k])
      BY <1>2, <1>5, <2>2 DEF Operands
    <3>2. QED
      BY <3>1 DEF Coded
  <2>3. QED
    BY <2>1, <2>2
<1>6. QED
  BY <1>2, <1>4, <1>5, ChangeCoded DEF d

LEMMA SetArgCoded ==
  ASSUME NEW c, Coded(c), NEW k \in 1 .. Len(c), NEW m \in Nat, NEW v \in Nat \ {0},
         Defined(c, k, v)
  PROVE  Coded(SetArg(c, c[k].id, m, v))
<1> DEFINE d == SetArg(c, c[k].id, m, v)
<1>1. v \in Int
  OBVIOUS
<1>2. /\ d \in Seq(Instruction) /\ Len(d) = Len(c)
      /\ \A n \in 1 .. Len(c) : n # k => d[n] = c[n]
      /\ d[k].id = c[k].id /\ d[k].op = c[k].op /\ d[k].bb = c[k].bb
      /\ d[k].width = c[k].width /\ d[k].exec = c[k].exec /\ d[k].pred = c[k].pred
      /\ d[k].args \in Seq(Int) /\ Len(d[k].args) = Len(c[k].args)
      /\ \A n \in 1 .. Len(c[k].args) : d[k].args[n] = IF n = m THEN v ELSE c[k].args[n]
  <2> HIDE DEF d
  <2>1. ArgChanged(c, d, k, m, v)
    BY <1>1, SetArgIs DEF d
  <2>2. QED
    BY <2>1 DEF ArgChanged
<1> HIDE DEF d
<1>3. Shaped(c[k])
  BY DEF Coded
<1>4. Shaped(d[k])
  BY <1>2, <1>3 DEF Shaped
<1>5. ASSUME NEW x \in Operands(d[k]) PROVE Defined(c, k, x)
  <2>1. CASE x = v
    BY <2>1
  <2>2. CASE x # v
    <3>1. c[k].args \in Seq(Int)
      <4>1. c[k] \in Instruction
        BY ElementOfSeq DEF Coded
      <4>2. QED
        BY <4>1 DEF Instruction
    <3>2. x \in Operands(c[k])
      <4>1. CASE x \in {d[k].pred} \ {NoPred, AllOnes, ScalarOne}
        BY <1>2, <4>1 DEF Operands
      <4>2. CASE x \in Range(d[k].args)
        <5>1. PICK n \in 1 .. Len(d[k].args) : x = d[k].args[n]
          BY <1>2, <4>2, LenProperties DEF Range
        <5>2. x = c[k].args[n] /\ n \in DOMAIN c[k].args
          BY <1>2, <2>2, <3>1, <5>1, LenProperties
        <5>3. QED
          BY <5>2 DEF Operands, Range
      <4>3. QED
        BY <1>5, <4>1, <4>2 DEF Operands
    <3>3. QED
      BY <3>2 DEF Coded
  <2>3. QED
    BY <2>1, <2>2
<1>6. QED
  BY <1>2, <1>4, <1>5, ChangeCoded DEF d

-----------------------------------------------------------------------------
(* What predicateInst may do to the code, as a relation between the code    *)
(* before and after.                                                       *)

\* The instructions that masks go through.
Masking(i) ==
  \/ i.op \in {"unmask_begin", "unmask_end"}
  \/ i.op = "load" /\ i.args[1] \in MaskVariables
  \/ i.op \in Writes /\ i.args[2] \in MaskVariables

\* They take masks only.
MasksClosed(c) ==
  \A k \in 1 .. Len(c) : Masking(c[k]) =>
    /\ c[k].op \in {"unmask_begin", "unmask_end", "load", "store"}
    /\ c[k].op = "store" => c[k].width = 1
    /\ \A n \in 1 .. Len(c) : c[n].id \in Operands(c[k]) => Masking(c[n])

\* They are the same in c and in d, in the same order.
SameMasks(c, d) ==
  /\ \A k \in 1 .. Len(d) : Masking(d[k]) => \E n \in 1 .. Len(c) : c[n] = d[k]
  /\ \A n \in 1 .. Len(c) : Masking(c[n]) => \E k \in 1 .. Len(d) : d[k] = c[n]
  /\ \A m, n \in 1 .. Len(c), j, k \in 1 .. Len(d) :
       Masking(c[m]) /\ Masking(c[n]) /\ m < n /\ d[j] = c[m] /\ d[k] = c[n] => j < k

\* The instructions made when i is predicated.
Made(id) == {IdStep * id + n : n \in 0 .. 4}
NewFor(i, b) ==
  /\ b.id \in Made(i.id)
  /\ \/ b.op \in {"em", "and", "select", "replicate", "load", "wrregion"}
     \/ b.op \in Sends /\ b.bb = i.bb

\* b is what has become of a.
SameKind(i, a, b) ==
  /\ b.id = a.id /\ b.op = a.op /\ b.bb = a.bb
  /\ b.op = "gather_masked" /\ a.pred \in {AllOnes, GivenPred} /\ a.id # i.id => b.pred = a.pred

\* The instructions of d are new ones for i and those of c without gone.
Comes(c, d, i, gone) ==
  /\ \A k \in 1 .. Len(d) : NewFor(i, d[k]) \/ \E n \in 1 .. Len(c) : SameKind(i, c[n], d[k])
  /\ \A n \in 1 .. Len(c) : c[n].id \in gone \/ \E k \in 1 .. Len(d) : d[k].id = c[n].id

Alters(c, d, i, gone) ==
  Coded(d) /\ MasksClosed(d) /\ SameMasks(c, d) /\ Comes(c, d, i, gone)

LEMMA SameMasksFollow ==
  ASSUME NEW c, NEW d, NEW e, SameMasks(c, d), SameMasks(d, e)
  PROVE  SameMasks(c, e)
<1>1. ASSUME NEW k \in 1 .. Len(e), Masking(e[k]) PROVE \E n \in 1 .. Len(c) : c[n] = e[k]
  BY <1>1 DEF SameMasks
<1>2. ASSUME NEW n \in 1 .. Len(c), Masking(c[n]) PROVE \E k \in 1 .. Len(e) : e[k] = c[n]
  BY <1>2 DEF SameMasks
<1>3. ASSUME NEW m \in 1 .. Len(c), NEW n \in 1 .. Len(c), NEW j \in 1 .. Len(e),
             NEW k \in 1 .. Len(e), Masking(c[m]), Masking(c[n]), m < n,
             e[j] = c[m], e[k] = c[n]
      PROVE  j < k
  <2>1. PICK v \in 1 .. Len(d) : d[v] = c[m]
    BY <1>3 DEF SameMasks
  <2>2. PICK w \in 1 .. Len(d) : d[w] = c[n]
    BY <1>3 DEF SameMasks
  <2>3. v < w
    BY <1>3, <2>1, <2>2, ZenonT(60) DEF SameMasks
  <2>4. QED
    BY <1>3, <2>1, <2>2, <2>3, SMTT(30) DEF SameMasks
<1>4. QED
  BY <1>1, <1>2, <1>3 DEF SameMasks

\* The places of the masks of c in d, in the same order.
KeepsMasks(c, d, g) ==
  /\ \A m \in 1 .. Len(c) : Masking(c[m]) => g[m] \in 1 .. Len(d) /\ d[g[m]] = c[m]
  /\ \A m, n \in 1 .. Len(c) : Masking(c[m]) /\ Masking(c[n]) /\ m < n => g[m] < g[n]
  /\ \A k \in 1 .. Len(d) : Masking(d[k]) => \E n \in 1 .. Len(c) : c[n] = d[k]

LEMMA SameMasksAt ==
  ASSUME NEW c, NEW d, Coded(d), NEW g, KeepsMasks(c, d, g)
  PROVE  SameMasks(c, d)
<1>1. ASSUME NEW n \in 1 .. Len(c), Masking(c[n]) PROVE \E k \in 1 .. Len(d) : d[k] = c[n]
  BY <1>1 DEF KeepsMasks
<1>2. ASSUME NEW m \in 1 .. Len(c), NEW n \in 1 .. Len(c), NEW j \in 1 .. Len(d),
             NEW k \in 1 .. Len(d), Masking(c[m]), Masking(c[n]), m < n,
             d[j] = c[m], d[k] = c[n]
      PROVE  j < k
  <2>1. g[m] \in 1 .. Len(d) /\ d[g[m]] = c[m] /\ g[n] \in 1 .. Len(d) /\ d[g[n]] = c[n]
        /\ g[m] < g[n]
    BY <1>2 DEF KeepsMasks
  <2>2. j = g[m] /\ k = g[n]
    BY <1>2, <2>1 DEF Coded
  <2>3. QED
    BY <2>1, <2>2
<1>3. \A k \in 1 .. Len(d) : Masking(d[k]) => \E n \in 1 .. Len(c) : c[n] = d[k]
  BY DEF KeepsMasks
<1>4. QED
  BY <1>1, <1>2, <1>3 DEF SameMasks

LEMMA MasksStayClosed ==
  ASSUME NEW c, NEW d, Coded(c), Coded(d), MasksClosed(c), SameMasks(c, d)
  PROVE  MasksClosed(d)
<1> SUFFICES ASSUME NEW k \in 1 .. Len(d), Masking(d[k])
             PROVE  /\ d[k].op \in {"unmask_begin", "unmask_end", "load", "store"}
                    /\ d[k].op = "store" => d[k].width = 1
                    /\ \A n \in 1 .. Len(d) : d[n].id \in Operands(d[k]) => Masking(d[n])
  BY DEF MasksClosed
<1>1. PICK m \in 1 .. Len(c) : c[m] = d[k]
  BY DEF SameMasks
<1>2. ASSUME NEW n \in 1 .. Len(d), d[n].id \in Operands(d[k]) PROVE Masking(d[n])
  <2>1. Defined(c, m, d[n].id)
    BY <1>1, <1>2 DEF Coded
  <2>2. d[n].id \notin Given
    BY DEF Coded
  <2>3. PICK j \in 1 .. m - 1 : c[j].id = d[n].id
    BY <2>1, <2>2 DEF Defined
  <2>4. Len(c) \in Nat
    BY LenProperties DEF Coded
  <2>5. j \in 1 .. Len(c)
    BY <2>4
  <2>6. Masking(c[j])
    BY <1>1, <1>2, <2>3, <2>5 DEF MasksClosed
  <2>7. PICK v \in 1 .. Len(d) : d[v] = c[j]
    BY <2>5, <2>6 DEF SameMasks
  <2>8. v = n
    BY <2>3, <2>7 DEF Coded
  <2>9. QED
    BY <2>6, <2>7, <2>8
<1>3. QED
  BY <1>1, <1>2 DEF MasksClosed

LEMMA ComesFollow ==
  ASSUME NEW c, NEW d, NEW e, NEW i, NEW G, NEW H, Comes(c, d, i, G), Comes(d, e, i, H)
  PROVE  Comes(c, e, i, G \cup H)
<1>1. ASSUME NEW k \in 1 .. Len(e)
      PROVE  NewFor(i, e[k]) \/ \E n \in 1 .. Len(c) : SameKind(i, c[n], e[k])
  <2>1. SUFFICES ASSUME ~NewFor(i, e[k])
                 PROVE \E n \in 1 .. Len(c) : SameKind(i, c[n], e[k])
    OBVIOUS
  <2>2. PICK m \in 1 .. Len(d) : SameKind(i, d[m], e[k])
    BY <2>1 DEF Comes
  <2>3. ~NewFor(i, d[m])
    BY <2>1, <2>2 DEF NewFor, SameKind
  <2>4. PICK n \in 1 .. Len(c) : SameKind(i, c[n], d[m])
    BY <2>3 DEF Comes
  <2>5. SameKind(i, c[n], e[k])
    BY <2>2, <2>4 DEF SameKind
  <2>6. QED
    BY <2>5
<1>2. ASSUME NEW n \in 1 .. Len(c)
      PROVE  c[n].id \in G \cup H \/ \E k \in 1 .. Len(e) : e[k].id = c[n].id
  <2>1. CASE c[n].id \in G
    BY <2>1
  <2>2. CASE c[n].id \notin G
    <3>1. PICK m \in 1 .. Len(d) : d[m].id = c[n].id
      BY <2>2 DEF Comes
    <3>2. d[m].id \in H \/ \E k \in 1 .. Len(e) : e[k].id = d[m].id
      BY DEF Comes
    <3>3. QED
      BY <3>1, <3>2
  <2>3. QED
    BY <2>1, <2>2
<1>3. QED
  BY <1>1, <1>2 DEF Comes

LEMMA AltersFollow ==
  ASSUME NEW c, NEW d, NEW e, NEW i, NEW G, NEW H, Alters(c, d, i, G), Alters(d, e, i, H)
  PROVE  Alters(c, e, i, G \cup H)
BY SameMasksFollow, ComesFollow DEF Alters

\* What the code has after the change.
LEMMA InsertParts ==
  ASSUME NEW c, Coded(c), NEW k \in 1 .. Len(c), NEW new \in Seq(Instruction)
  PROVE  LET d == Insert(c, c[k].id, new) IN
         \A n \in 1 .. Len(d) :
           (\E m \in 1 .. Len(new) : d[n] = new[m]) \/ \E m \in 1 .. Len(c) : d[n] = c[m]
<1> DEFINE d == Insert(c, c[k].id, new)
           L == Len(new)
<1>2. /\ Len(d) = Len(c) + L
      /\ \A n \in 1 .. k - 1 : d[n] = c[n]
      /\ \A n \in 1 .. L : d[k - 1 + n] = new[n]
      /\ \A n \in k .. Len(c) : d[n + L] = c[n]
  <2>1. InsertedAs(c, d, k, new)
    BY InsertIs
  <2>2. QED
    BY <2>1 DEF InsertedAs
<1>3. Len(c) \in Nat /\ L \in Nat
  BY LenProperties DEF Coded
<1> HIDE DEF d, L
<1>6. \A n \in 1 .. Len(d) : (\E m \in 1 .. L : d[n] = new[m]) \/ \E m \in 1 .. Len(c) : d[n] = c[m]
  <2> TAKE n \in 1 .. Len(d)
  <2>1. CASE n < k
    <3>1. n \in 1 .. k - 1 /\ n \in 1 .. Len(c)
      BY <1>2, <1>3, <2>1
    <3>2. QED
      BY <1>2, <3>1
  <2>2. CASE n \in k .. k - 1 + L
    <3> DEFINE m == n - k + 1
    <3>1. m \in 1 .. L /\ n = k - 1 + m
      BY <1>3, <2>2
    <3> HIDE DEF m
    <3>2. QED
      BY <1>2, <3>1
  <2>3. CASE n > k - 1 + L
    <3> DEFINE m == n - L
    <3>1. m \in k .. Len(c) /\ n = m + L /\ m \in 1 .. Len(c)
      BY <1>2, <1>3, <2>3
    <3> HIDE DEF m
    <3>2. QED
      BY <1>2, <3>1
  <2>4. n < k \/ n \in k .. k - 1 + L \/ n > k - 1 + L
    <3>1. n \in Int /\ k \in Int
      OBVIOUS
    <3>2. QED
      BY <1>3, <3>1
  <2>5. QED
    BY <2>1, <2>2, <2>3, <2>4
<1>7. QED
  BY <1>6 DEF d, L

LEMMA EraseParts ==
  ASSUME NEW c, Coded(c), NEW k \in 1 .. Len(c)
  PROVE  LET d == Erase(c, c[k].id) IN
         \A n \in 1 .. Len(d) : \E m \in 1 .. Len(c) : d[n] = c[m]
<1> DEFINE d == Erase(c, c[k].id)
<1>2. /\ Len(d) = Len(c) - 1
      /\ \A n \in 1 .. k - 1 : d[n] = c[n]
      /\ \A n \in k + 1 .. Len(c) : d[n - 1] = c[n]
  BY EraseIs
<1>3. Len(c) \in Nat
  BY LenProperties DEF Coded
<1> HIDE DEF d
<1>6. \A n \in 1 .. Len(d) : \E m \in 1 .. Len(c) : d[n] = c[m]
  <2> TAKE n \in 1 .. Len(d)
  <2>1. CASE n < k
    <3>1. n \in 1 .. k - 1 /\ n \in 1 .. Len(c)
      BY <1>2, <1>3, <2>1
    <3>2. QED
      BY <1>2, <3>1
  <2>2. CASE n >= k
    <3> DEFINE m == n + 1
    <3>1. m \in k + 1 .. Len(c) /\ n = m - 1 /\ m \in 1 .. Len(c)
      BY <1>2, <1>3, <2>2
    <3> HIDE DEF m
    <3>2. QED
      BY <1>2, <3>1
  <2>3. QED
    BY <1>2, <1>3, <2>1, <2>2
<1>7. QED
  BY <1>6 DEF d

LEMMA InsertAlters ==
  ASSUME NEW c, Coded(c), MasksClosed(c), NEW k \in 1 .. Len(c), NEW new, Addable(c, k, new), NEW i,
         \A n \in 1 .. Len(new) : NewFor(i, new[n]) /\ ~Masking(new[n])
  PROVE  Alters(c, Insert(c, c[k].id, new), i, {})
<1> DEFINE d == Insert(c, c[k].id, new)
           L == Len(new)
           g == [n \in 1 .. Len(c) |-> IF n < k THEN n ELSE n + L]
<1>1. Coded(d)
  BY InsertCoded
<1>2. /\ Len(d) = Len(c) + L
      /\ \A n \in 1 .. k - 1 : d[n] = c[n]
      /\ \A n \in 1 .. L : d[k - 1 + n] = new[n]
      /\ \A n \in k .. Len(c) : d[n + L] = c[n]
  <2>1. new \in Seq(Instruction)
    BY DEF Addable
  <2>2. InsertedAs(c, d, k, new)
    BY <2>1, InsertIs
  <2>3. QED
    BY <2>2 DEF InsertedAs
<1>3. Len(c) \in Nat /\ L \in Nat
  BY LenProperties DEF Coded, Addable
<1> HIDE DEF d, L
<1>4. \A n \in 1 .. Len(c) : g[n] \in 1 .. Len(d) /\ d[g[n]] = c[n]
  <2> TAKE n \in 1 .. Len(c)
  <2>1. CASE n < k
    <3>1. n \in 1 .. k - 1 /\ g[n] = n /\ n \in 1 .. Len(d)
      BY <1>2, <1>3, <2>1
    <3> HIDE DEF g
    <3>2. QED
      BY <1>2, <3>1
  <2>2. CASE n >= k
    <3>1. n \in k .. Len(c) /\ g[n] = n + L
      BY <1>3, <2>2
    <3>2. n + L \in 1 .. Len(d)
      BY <1>2, <1>3, <3>1
    <3>3. d[n + L] = c[n]
      BY <1>2, <3>1
    <3> HIDE DEF g
    <3>4. QED
      BY <3>1, <3>2, <3>3
  <2>3. QED
    BY <1>3, <2>1, <2>2
<1>5. \A m, n \in 1 .. Len(c) : m < n => g[m] < g[n]
  BY <1>3
<1>6. \A n \in 1 .. Len(d) : (\E m \in 1 .. L : d[n] = new[m]) \/ \E m \in 1 .. Len(c) : d[n] = c[m]
  BY InsertParts DEF Addable, d, L
<1>7. KeepsMasks(c, d, g)
  <2> HIDE DEF g
  <2>1. \A n \in 1 .. Len(d) : Masking(d[n]) => \E m \in 1 .. Len(c) : c[m] = d[n]
    BY <1>6 DEF L
  <2>2. QED
    BY <1>4, <1>5, <2>1 DEF KeepsMasks
<1> HIDE DEF g
<1>8. SameMasks(c, d)
  BY <1>1, <1>7, SameMasksAt
<1>9. Comes(c, d, i, {})
  <2>1. \A n \in 1 .. Len(d) : NewFor(i, d[n]) \/ \E m \in 1 .. Len(c) : SameKind(i, c[m], d[n])
    BY <1>6 DEF SameKind, L
  <2>2. QED
    BY <1>4, <2>1 DEF Comes
<1>10. QED
  BY <1>1, <1>8, <1>9, MasksStayClosed DEF Alters, d

LEMMA EraseAlters ==
  ASSUME NEW c, Coded(c), MasksClosed(c), NEW k \in 1 .. Len(c), Unused(c, c[k].id),
         ~Masking(c[k]), NEW i
  PROVE  Alters(c, Erase(c, c[k].id), i, {c[k].id})
<1> DEFINE d == Erase(c, c[k].id)
           g == [n \in 1 .. Len(c) |-> IF n < k THEN n ELSE n - 1]
<1>1. Coded(d)
  BY EraseCoded
<1>2. /\ Len(d) = Len(c) - 1
      /\ \A n \in 1 .. k - 1 : d[n] = c[n]
      /\ \A n \in k + 1 .. Len(c) : d[n - 1] = c[n]
  BY EraseIs
<1>3. Len(c) \in Nat
  BY LenProperties DEF Coded
<1> HIDE DEF d
<1>4. \A n \in 1 .. Len(c) : n # k => g[n] \in 1 .. Len(d) /\ d[g[n]] = c[n]
  <2> TAKE n \in 1 .. Len(c)
  <2>1. CASE n < k
    BY <1>2, <1>3, <2>1, SMTT(30)
  <2>2. CASE n > k
    <3>1. n \in k + 1 .. Len(c) /\ g[n] = n - 1
      BY <1>3, <2>2
    <3>2. QED
      BY <1>2, <1>3, <3>1
  <2>3. QED
    BY <1>3, <2>1, <2>2
<1>5. \A m, n \in 1 .. Len(c) : m # k /\ n # k /\ m < n => g[m] < g[n]
  BY <1>3
<1>6. \A n \in 1 .. Len(d) : \E m \in 1 .. Len(c) : d[n] = c[m]
  <2>1. \A n \in 1 .. Len(Erase(c, c[k].id)) :
          \E m \in 1 .. Len(c) : Erase(c, c[k].id)[n] = c[m]
    BY EraseParts
  <2>2. QED
    BY <2>1 DEF d
<1>7. KeepsMasks(c, d, g)
  <2> HIDE DEF g
  <2>1. \A n \in 1 .. Len(d) : Masking(d[n]) => \E m \in 1 .. Len(c) : c[m] = d[n]
    BY <1>6
  <2>2. QED
    BY <1>4, <1>5, <2>1 DEF KeepsMasks
<1> HIDE DEF g
<1>8. SameMasks(c, d)
  BY <1>1, <1>7, SameMasksAt
<1>9. Comes(c, d, i, {c[k].id})
  <2>1. \A n \in 1 .. Len(d) : \E m \in 1 .. Len(c) : SameKind(i, c[m], d[n])
    BY <1>6 DEF SameKind
  <2>2. \A n \in 1 .. Len(c) : c[n].id \in {c[k].id} \/ \E m \in 1 .. Len(d) : d[m].id = c[n].id
    BY <1>4
  <2>3. QED
    BY <2>1, <2>2 DEF Comes
<1>10. QED
  BY <1>1, <1>8, <1>9, MasksStayClosed DEF Alters, d

LEMMA MaskVariablesGiven == MaskVariables \subseteq Given
BY FunctionsAssumption DEF Given

\* What makes an instruction one of a mask: two with the same op and these
\* arguments are either both or neither.
LEMMA MaskingByArgs ==
  ASSUME NEW a, NEW b, a.op = b.op,
         a.op = "load" /\ b.args[1] \in MaskVariables => a.args[1] = b.args[1],
         a.op \in Writes /\ b.args[2] \in MaskVariables => a.args[2] = b.args[2],
         Masking(b)
  PROVE  Masking(a)
BY DEF Masking

LEMMA ChangeAlters ==
  ASSUME NEW c, Coded(c), MasksClosed(c), NEW d, Coded(d), Len(d) = Len(c), NEW i,
         \A n \in 1 .. Len(c) :
           (Masking(c[n]) \/ Masking(d[n]) => d[n] = c[n]) /\ SameKind(i, c[n], d[n])
  PROVE  Alters(c, d, i, {})
<1> DEFINE g == [n \in 1 .. Len(c) |-> n]
<1>1. KeepsMasks(c, d, g)
  BY DEF KeepsMasks
<1> HIDE DEF g
<1>2. SameMasks(c, d)
  BY <1>1, SameMasksAt
<1>3. Comes(c, d, i, {})
  BY DEF Comes, SameKind
<1>4. QED
  BY <1>2, <1>3, MasksStayClosed DEF Alters

LEMMA ReplaceAlters ==
  ASSUME NEW c, Coded(c), MasksClosed(c), NEW k \in 1 .. Len(c), NEW j \in 1 .. k - 1,
         c[j].op # "unmask_end", ~Masking(c[k]), NEW i
  PROVE  Alters(c, ReplaceUses(c, c[k].id, c[j].id), i, {})
<1> DEFINE old == c[k].id
           new == c[j].id
           d == ReplaceUses(c, old, new)
<1>1. Coded(d)
  BY ReplaceCoded
<1>2. Len(c) \in Nat /\ c \in Seq(Instruction) /\ DOMAIN c = 1 .. Len(c)
  BY LenProperties DEF Coded
<1>3. j \in 1 .. Len(c)
  BY <1>2
<1>4. \A n \in 1 .. Len(c) : c[n] \in Instruction /\ c[n].id \notin Given
  BY <1>2, ElementOfSeq DEF Coded
<1>5. old \in Nat \ {0} /\ new \in Nat \ {0} /\ old \notin Given /\ new \notin Given
  BY <1>3, <1>4 DEF Instruction
<1>6. /\ Len(d) = Len(c)
      /\ \A n \in 1 .. Len(c) :
           /\ d[n].id = c[n].id /\ d[n].op = c[n].op /\ d[n].bb = c[n].bb
           /\ d[n].pred = Renamed(c[n].pred, old, new)
           /\ \A m \in 1 .. Len(c[n].args) : d[n].args[m] = Renamed(c[n].args[m], old, new)
  <2> HIDE DEF d, old, new
  <2>1. UsesReplaced(c, d, old, new)
    BY <1>5, ReplaceIs DEF d
  <2>2. QED
    BY <2>1 DEF UsesReplaced
<1>7. \A n \in 1 .. Len(c) :
        d[n] = [c[n] EXCEPT !.args = [m \in DOMAIN @ |-> Renamed(@[m], old, new)],
                            !.pred = Renamed(@, old, new)]
  BY <1>2 DEF ReplaceUses
<1> HIDE DEF d, old, new
<1>8. \A n \in 1 .. Len(c) : SameKind(i, c[n], d[n])
  <2> TAKE n \in 1 .. Len(c)
  <2>1. c[n].pred \in {AllOnes, GivenPred} => d[n].pred = c[n].pred
    BY <1>5, <1>6 DEF Renamed, AllOnes, Given
  <2>2. QED
    BY <1>6, <2>1 DEF SameKind
<1>9. ASSUME NEW n \in 1 .. Len(c), Masking(c[n]) PROVE d[n] = c[n]
  <2>1. old \notin Operands(c[n])
    BY <1>9 DEF MasksClosed, old
  <2>2. c[n].pred = NoPred
    BY <1>9 DEF MasksClosed, Coded, Shaped
  <2>3. Renamed(c[n].pred, old, new) = c[n].pred
    BY <1>5, <2>2 DEF Renamed, NoPred
  <2> DEFINE a == c[n].args
  <2>4. a \in Seq(Int) /\ c[n] \in Instruction
    BY <1>4 DEF Instruction
  <2>5. \A m \in DOMAIN a : Renamed(a[m], old, new) = a[m]
    BY <2>1 DEF Renamed, Operands, Range
  <2>6. [m \in DOMAIN a |-> Renamed(a[m], old, new)] = a
    <3>1. a = [m \in DOMAIN a |-> a[m]]
      BY <2>4
    <3> HIDE DEF a
    <3>2. QED
      BY <2>5, <3>1
  <2>7. d[n] = [c[n] EXCEPT !.args = a, !.pred = c[n].pred]
    BY <1>7, <2>3, <2>6
  <2>8. QED
    BY <2>4, <2>7 DEF Instruction
<1>10. ASSUME NEW n \in 1 .. Len(c), Masking(d[n]) PROVE Masking(c[n])
  <2>1. \A x : Renamed(x, old, new) \in MaskVariables => x = Renamed(x, old, new)
    BY <1>5, MaskVariablesGiven DEF Renamed
  <2>2. c[n].op = d[n].op /\ Shaped(c[n])
    BY <1>6 DEF Coded
  <2>3. c[n].op = "load" /\ d[n].args[1] \in MaskVariables => c[n].args[1] = d[n].args[1]
    BY <1>6, <2>1, <2>2 DEF Shaped
  <2>4. c[n].op \in Writes /\ d[n].args[2] \in MaskVariables => c[n].args[2] = d[n].args[2]
    BY <1>6, <2>1, <2>2, SMTT(30) DEF Shaped
  <2>5. QED
    BY <1>10, <2>2, <2>3, <2>4, MaskingByArgs
<1>11. \A n \in 1 .. Len(c) : Masking(c[n]) \/ Masking(d[n]) => d[n] = c[n]
  BY <1>9, <1>10
<1>12. QED
  BY <1>1, <1>6, <1>8, <1>11, ChangeAlters DEF d, old, new

LEMMA SetPredAlters ==
  ASSUME NEW c, Coded(c), MasksClosed(c), NEW k \in 1 .. Len(c), NEW v \in Nat \ {0},
         Defined(c, k, v), c[k].op \in ScatterGathers \cup Sends, NEW i,
         c[k].op = "gather_masked" => c[k].id = i.id
  PROVE  Alters(c, SetPred(c, c[k].id, v), i, {})
<1> DEFINE d == SetPred(c, c[k].id, v)
<1>1. Coded(d)
  BY SetPredCoded
<1>2. /\ Len(d) = Len(c)
      /\ \A n \in 1 .. Len(c) : n # k => d[n] = c[n]
      /\ d[k].id = c[k].id /\ d[k].op = c[k].op /\ d[k].bb = c[k].bb
      /\ d[k].args = c[k].args
  BY SetPredIs
<1> HIDE DEF d
<1>3. ~Masking(c[k])
  BY DEF MasksClosed, ScatterGathers, Sends
<1>4. ~Masking(d[k])
  BY <1>2, <1>3 DEF Masking
<1>5. \A n \in 1 .. Len(c) : SameKind(i, c[n], d[n])
  BY <1>2 DEF SameKind
<1>6. QED
  BY <1>1, <1>2, <1>3, <1>4, <1>5, ChangeAlters DEF d

LEMMA SetArgAlters ==
  ASSUME NEW c, Coded(c), MasksClosed(c), NEW k \in 1 .. Len(c), NEW m \in Nat, NEW v \in Nat \ {0},
         Defined(c, k, v), v \notin Given, ~Masking(c[k]), NEW i
  PROVE  Alters(c, SetArg(c, c[k].id, m, v), i, {})
<1> DEFINE d == SetArg(c, c[k].id, m, v)
<1>1. Coded(d)
  BY SetArgCoded
<1>2. ArgChanged(c, d, k, m, v)
  <2>1. v \in Int
    OBVIOUS
  <2> HIDE DEF d
  <2>2. QED
    BY <2>1, SetArgIs DEF d
<1> HIDE DEF d
<1>3. ~Masking(d[k])
  <2>1. c[k].op = d[k].op /\ Shaped(c[k])
    BY <1>2 DEF Coded, ArgChanged
  <2> DEFINE L == Len(c[k].args)
  <2>6. (c[k].op = "load" => L = 1) /\ (c[k].op \in Writes => L = 2)
    BY <2>1 DEF Shaped, Writes
  <2>5. \A n \in 1 .. Len(c[k].args) :
          d[k].args[n] \in MaskVariables => c[k].args[n] = d[k].args[n]
    BY <1>2, MaskVariablesGiven DEF ArgChanged
  <2> HIDE DEF L
  <2>7. (L = 1 => 1 \in 1 .. L) /\ (L = 2 => 2 \in 1 .. L)
    OBVIOUS
  <2>2. c[k].op = "load" /\ d[k].args[1] \in MaskVariables => c[k].args[1] = d[k].args[1]
    BY <2>5, <2>6, <2>7 DEF L
  <2>3. c[k].op \in Writes /\ d[k].args[2] \in MaskVariables => c[k].args[2] = d[k].args[2]
    BY <2>5, <2>6, <2>7 DEF L
  <2>4. QED
    BY <2>1, <2>2, <2>3, MaskingByArgs
<1>4. \A n \in 1 .. Len(c) : SameKind(i, c[n], d[n])
  BY <1>2 DEF SameKind, ArgChanged
<1>5. QED
  BY <1>1, <1>2, <1>3, <1>4, ChangeAlters DEF d, ArgChanged

-----------------------------------------------------------------------------
(* The instructions predicateInst puts into the code.                      *)

\* The n-th instruction made for i is not there yet.
Fresh(c, i, n) == i.id \in 1 .. IdStep - 1 /\ \A m \in 1 .. Len(c) : c[m].id # Id(i, n)

\* b can be put before place k of c, after instructions with the ids.
Fits(c, k, b, i, ids) ==
  /\ b \in Instruction /\ Shaped(b) /\ NewFor(i, b) /\ ~Masking(b) /\ b.id \notin ids
  /\ b.id \notin Given /\ \A m \in 1 .. Len(c) : b.id # c[m].id
  /\ \A x \in Operands(b) : Defined(c, k, x) \/ x \in ids

Ready(c, k, new, i) ==
  Addable(c, k, new) /\ \A n \in 1 .. Len(new) : NewFor(i, new[n]) /\ ~Masking(new[n])

\* What fits is an instruction.
LEMMA FitsIs ==
  ASSUME NEW c, NEW k, NEW b, NEW i, NEW ids, Fits(c, k, b, i, ids)
  PROVE  b \in Instruction
BY DEF Fits

LEMMA MadeIds ==
  ASSUME NEW j \in 1 .. IdStep - 1, NEW x \in Made(j)
  PROVE  x \in Nat \ {0} /\ x \notin Given /\ x >= IdStep
<1>1. IdStep = 1000
  BY DEF IdStep
<1>2. PICK n \in 0 .. 4 : x = IdStep * j + n
  BY DEF Made
<1>3. x \in Nat /\ x >= 1000
  BY <1>1, <1>2
<1>4. QED
  BY <1>1, <1>3, FunctionsAssumption

LEMMA IdsApart ==
  ASSUME NEW i, i.id \in 1 .. IdStep - 1
  PROVE  \A m, n \in 0 .. 4 : Id(i, m) \in Nat /\ (Id(i, m) = Id(i, n) => m = n)
<1> DEFINE x == i.id
<1>1. x \in Nat
  BY SMTT(30) DEF IdStep
<1>2. \A n \in 0 .. 4 : Id(i, n) = 1000 * x + n
  BY DEF Id, IdStep
<1> HIDE DEF x
<1>3. QED
  BY <1>1, <1>2

LEMMA ReadyNone ==
  ASSUME NEW c, NEW k, NEW i
  PROVE  Ready(c, k, <<>>, i) /\ Ids(<<>>) = {}
<1>1. <<>> \in Seq(Instruction) /\ Len(<<>>) = 0 /\ DOMAIN <<>> = {}
  OBVIOUS
<1>2. QED
  BY <1>1 DEF Ready, Addable, Ids

LEMMA ReadyMore ==
  ASSUME NEW c, NEW k, NEW new, NEW i, Ready(c, k, new, i),
         NEW b, Fits(c, k, b, i, Ids(new))
  PROVE  Ready(c, k, Append(new, b), i) /\ Ids(Append(new, b)) = Ids(new) \cup {b.id}
<1> DEFINE d == Append(new, b)
           L == Len(new)
<1>1. new \in Seq(Instruction) /\ b \in Instruction /\ L \in Nat /\ DOMAIN new = 1 .. L
  BY LenProperties DEF Ready, Addable, Fits
<1>2. d \in Seq(Instruction) /\ Len(d) = L + 1 /\ d[L + 1] = b
      /\ (\A n \in 1 .. L : d[n] = new[n]) /\ DOMAIN d = 1 .. L + 1
  BY <1>1, AppendProperties
<1> HIDE DEF d, L
<1>3. \A n \in 1 .. L + 1 : n \in 1 .. L \/ n = L + 1
  BY <1>1
<1>4. Ids(new) = {new[n].id : n \in 1 .. L}
  BY <1>1 DEF Ids
<1>5. Ids(d) = Ids(new) \cup {b.id}
  <2>1. Ids(d) = {d[n].id : n \in 1 .. L + 1}
    BY <1>2 DEF Ids
  <2>2. 1 .. L \subseteq 1 .. L + 1 /\ L + 1 \in 1 .. L + 1
    BY <1>1
  <2>3. QED
    BY <1>2, <1>3, <1>4, <2>1, <2>2
<1>6. b.id \notin Given /\ \A m \in 1 .. Len(c) : b.id # c[m].id
  BY DEF Fits
<1>7. b.op # "unmask_end"
  BY DEF Fits, NewFor, Sends
<1>8. \A m, n \in 1 .. Len(d) : d[m].id = d[n].id => m = n
  <2>1. \A m, n \in 1 .. L : new[m].id = new[n].id => m = n
    BY DEF Ready, Addable, L
  <2>2. \A n \in 1 .. L : new[n].id # b.id
    BY <1>4 DEF Fits
  <2>3. QED
    BY <1>2, <1>3, <2>1, <2>2
<1>9. \A n \in 1 .. Len(d) :
        /\ d[n].id \notin Given /\ Shaped(d[n]) /\ d[n].op # "unmask_end"
        /\ \A m \in 1 .. Len(c) : d[n].id # c[m].id
        /\ NewFor(i, d[n]) /\ ~Masking(d[n])
  <2>1. \A n \in 1 .. L :
          /\ new[n].id \notin Given /\ Shaped(new[n]) /\ new[n].op # "unmask_end"
          /\ \A m \in 1 .. Len(c) : new[n].id # c[m].id
          /\ NewFor(i, new[n]) /\ ~Masking(new[n])
    BY DEF Ready, Addable, L
  <2>2. QED
    BY <1>2, <1>3, <1>6, <1>7, <2>1 DEF Fits
<1>10. ASSUME NEW n \in 1 .. Len(d), NEW x \in Operands(d[n])
       PROVE  Defined(c, k, x) \/ \E m \in 1 .. n - 1 : d[m].id = x
  <2>1. CASE n \in 1 .. L
    <3>1. Defined(c, k, x) \/ \E m \in 1 .. n - 1 : new[m].id = x
      BY <1>2, <1>10, <2>1 DEF Ready, Addable, L
    <3>2. \A m \in 1 .. n - 1 : m \in 1 .. L
      BY <1>1, <2>1
    <3>3. QED
      BY <1>2, <3>1, <3>2
  <2>2. CASE n = L + 1
    <3>1. Defined(c, k, x) \/ x \in Ids(new)
      BY <1>2, <1>10, <2>2 DEF Fits
    <3>2. CASE x \in Ids(new)
      <4>1. PICK m \in 1 .. L : new[m].id = x
        BY <1>4, <3>2
      <4>2. m \in 1 .. n - 1
        BY <1>1, <2>2
      <4>3. QED
        BY <1>2, <4>1, <4>2
    <3>3. QED
      BY <3>1, <3>2
  <2>3. QED
    BY <1>2, <1>3, <2>1, <2>2
<1>11. QED
  BY <1>2, <1>5, <1>8, <1>9, <1>10 DEF Ready, Addable, d

LEMMA NewFits ==
  ASSUME NEW c, NEW k, NEW i, NEW h, h.bb \in Nat, NEW n \in 0 .. 4, Fresh(c, i, n),
         NEW op \in {"em", "and", "select", "replicate", "load"}, NEW w \in Nat,
         NEW args \in Seq(Int), op = "load" => Len(args) = 1 /\ args[1] \notin MaskVariables,
         NEW ids, Id(i, n) \notin ids, \A x \in Range(args) : Defined(c, k, x) \/ x \in ids
  PROVE  Fits(c, k, New(h, Id(i, n), op, w, args), i, ids)
<1> DEFINE b == New(h, Id(i, n), op, w, args)
<1>1. Id(i, n) \in Made(i.id) /\ i.id \in 1 .. IdStep - 1
  BY DEF Id, Made, Fresh
<1>2. Id(i, n) \in Nat \ {0}
  BY <1>1, MadeIds
<1>9. Id(i, n) \notin Given
  BY <1>1, MadeIds
<1>3. b.id = Id(i, n) /\ b.op = op /\ b.args = args /\ b.pred = NoPred
  BY DEF New
<1>4. b \in Instruction
  <2>1. op \in Kinds /\ NoPred \in Int /\ 0 \in Nat
    BY DEF NoPred, Kinds, Ignored
  <2> DEFINE x == Id(i, n)
             bb == h.bb
  <2>2. x \in Nat \ {0} /\ bb \in Nat
    BY <1>2
  <2>3. b = [id |-> x, op |-> op, bb |-> bb, width |-> w, args |-> args,
             pred |-> NoPred, exec |-> w, at |-> 0, from |-> x, md |-> FALSE,
             uniform |-> FALSE]
    BY DEF New
  <2> HIDE DEF x, bb, b
  <2>4. x \in Nat
    BY <2>2
  <2>5. QED
    BY <2>1, <2>2, <2>3, <2>4 DEF Instruction
<1> HIDE DEF b
<1>5. Shaped(b)
  BY <1>3 DEF Shaped, ScatterGathers, Sends, Writes, MaskedGathers
<1>6. NewFor(i, b)
  BY <1>1, <1>3 DEF NewFor
<1>7. ~Masking(b)
  BY <1>3 DEF Masking, Writes
<1>8. \A x \in Operands(b) : Defined(c, k, x) \/ x \in ids
  BY <1>3 DEF Operands
<1>10. QED
  BY <1>3, <1>4, <1>5, <1>6, <1>7, <1>8, <1>9 DEF Fits, Fresh, b

\* A copy of a, with another id and predicate.
LEMMA CopyFits ==
  ASSUME NEW c, NEW k, NEW i, Fresh(c, i, 0), NEW a, Shaped(a), ~Masking(a),
         a.op = "wrregion" \/ (a.op \in Sends /\ a.bb = i.bb),
         NEW b \in Instruction, b.id = Id(i, 0), b.op = a.op, b.bb = a.bb, b.args = a.args,
         b.pred \notin {NoPred, ScalarOne}, NEW ids, Id(i, 0) \notin ids,
         \A x \in Operands(a) : Defined(c, k, x),
         b.pred = AllOnes \/ Defined(c, k, b.pred) \/ b.pred \in ids
  PROVE  Fits(c, k, b, i, ids)
<1>1. Id(i, 0) \in Made(i.id) /\ Id(i, 0) \notin Given
  <2>1. Id(i, 0) \in Made(i.id) /\ i.id \in 1 .. IdStep - 1
    BY DEF Id, Made, Fresh
  <2>2. QED
    BY <2>1, MadeIds
<1>2. NewFor(i, b)
  BY <1>1 DEF NewFor
<1>3. Shaped(b)
  BY DEF Shaped, ScatterGathers, Sends, Writes, MaskedGathers
<1>4. ~Masking(b)
  BY DEF Masking, Sends, Writes
<1>5. ASSUME NEW x \in Operands(b) PROVE Defined(c, k, x) \/ x \in ids
  <2>1. CASE x = b.pred
    BY <1>5, <2>1 DEF Operands, AllOnes
  <2>2. CASE x # b.pred
    BY <1>5, <2>2 DEF Operands
  <2>3. QED
    BY <2>1, <2>2
<1>6. QED
  BY <1>1, <1>2, <1>3, <1>4, <1>5 DEF Fits, Fresh

\* Sequences of two and of three elements, one after the other.
LEMMA AppendTwo ==
  ASSUME NEW S, NEW a \in S, NEW b \in S
  PROVE  Append(<<a>>, b) = <<a, b>>
<1>1. <<a>> \in Seq(S) /\ Len(<<a>>) = 1
  OBVIOUS
<1>2. <<a, b>> \in Seq(S) /\ Len(<<a, b>>) = 2
  OBVIOUS
<1>3. Append(<<a>>, b) \in Seq(S) /\ Len(Append(<<a>>, b)) = 2
  BY <1>1, AppendProperties
<1>4. \A n \in 1 .. 2 : Append(<<a>>, b)[n] = <<a, b>>[n]
  BY <1>1, AppendProperties
<1>5. QED
  BY <1>2, <1>3, <1>4, SeqEqual

LEMMA AppendThree ==
  ASSUME NEW S, NEW a \in S, NEW b \in S, NEW d \in S
  PROVE  Append(<<a, b>>, d) = <<a, b, d>>
<1>1. <<a, b>> \in Seq(S) /\ Len(<<a, b>>) = 2
  OBVIOUS
<1>2. <<a, b, d>> \in Seq(S) /\ Len(<<a, b, d>>) = 3
  OBVIOUS
<1>3. Append(<<a, b>>, d) \in Seq(S) /\ Len(Append(<<a, b>>, d)) = 3
  BY <1>1, AppendProperties
<1>4. \A n \in 1 .. 3 : Append(<<a, b>>, d)[n] = <<a, b, d>>[n]
  BY <1>1, AppendProperties
<1>5. QED
  BY <1>2, <1>3, <1>4, SeqEqual

\* One, two or three instructions.
LEMMA ReadyOne ==
  ASSUME NEW c, NEW k, NEW i, NEW a, Fits(c, k, a, i, {})
  PROVE  Ready(c, k, <<a>>, i) /\ Ids(<<a>>) = {a.id}
<1>1. Append(<<>>, a) = <<a>>
  OBVIOUS
<1>2. Ready(c, k, <<>>, i) /\ Ids(<<>>) = {}
  BY ReadyNone
<1> DEFINE new == <<>>
<1>3. Ready(c, k, new, i) /\ Fits(c, k, a, i, Ids(new))
  BY <1>2
<1> HIDE DEF new
<1>4. Ready(c, k, Append(new, a), i) /\ Ids(Append(new, a)) = Ids(new) \cup {a.id}
  BY <1>3, ReadyMore
<1>5. QED
  BY <1>1, <1>2, <1>4 DEF new

LEMMA ReadyTwo ==
  ASSUME NEW c, NEW k, NEW i, NEW a, Fits(c, k, a, i, {}),
         NEW b, Fits(c, k, b, i, {a.id})
  PROVE  Ready(c, k, <<a, b>>, i) /\ Ids(<<a, b>>) = {a.id, b.id}
<1>1. Append(<<a>>, b) = <<a, b>>
  BY AppendTwo DEF Fits
<1>2. Ready(c, k, <<a>>, i) /\ Ids(<<a>>) = {a.id}
  BY ReadyOne
<1> DEFINE new == <<a>>
<1>3. Ready(c, k, new, i) /\ Fits(c, k, b, i, Ids(new))
  BY <1>2
<1> HIDE DEF new
<1>4. Ready(c, k, Append(new, b), i) /\ Ids(Append(new, b)) = Ids(new) \cup {b.id}
  BY <1>3, ReadyMore
<1>5. QED
  BY <1>1, <1>2, <1>4 DEF new

LEMMA ReadyThree ==
  ASSUME NEW c, NEW k, NEW i, NEW a, Fits(c, k, a, i, {}),
         NEW b, Fits(c, k, b, i, {a.id}), NEW d, Fits(c, k, d, i, {a.id, b.id})
  PROVE  Ready(c, k, <<a, b, d>>, i) /\ Ids(<<a, b, d>>) = {a.id, b.id, d.id}
<1>1. Append(<<a, b>>, d) = <<a, b, d>>
  BY AppendThree DEF Fits
<1>2. Ready(c, k, <<a, b>>, i) /\ Ids(<<a, b>>) = {a.id, b.id}
  BY ReadyTwo
<1> DEFINE new == <<a, b>>
<1>3. Ready(c, k, new, i) /\ Fits(c, k, d, i, Ids(new))
  BY <1>2
<1> HIDE DEF new
<1>4. Ready(c, k, Append(new, d), i) /\ Ids(Append(new, d)) = Ids(new) \cup {d.id}
  BY <1>3, ReadyMore
<1>5. QED
  BY <1>1, <1>2, <1>4 DEF new

LEMMA ReadyAlters ==
  ASSUME NEW c, Coded(c), MasksClosed(c), NEW k \in 1 .. Len(c), NEW new, NEW i, Ready(c, k, new, i)
  PROVE  Alters(c, Insert(c, c[k].id, new), i, {})
BY InsertAlters DEF Ready

\* The instruction at place k replaced by new ones, the m-th with its value.
ReplacedAs(c, d, k, new, m, i) ==
  /\ Alters(c, d, i, {c[k].id})
  /\ \E p \in 1 .. Len(d) : d[p].id = new[m].id /\ d[p].op = new[m].op
  /\ \A n \in 1 .. Len(d) : \/ \E j \in 1 .. Len(new) : d[n].id = new[j].id
                           \/ \E j \in 1 .. Len(c) : d[n].id = c[j].id

LEMMA ReplacedAlters ==
  ASSUME NEW c, Coded(c), MasksClosed(c), NEW k \in 1 .. Len(c), ~Masking(c[k]),
         NEW new, NEW i, Ready(c, k, new, i), NEW m \in 1 .. Len(new)
  PROVE  ReplacedAs(c, Replaced(c, c[k].id, new, new[m].id), k, new, m, i)
<1> DEFINE old == c[k].id
           v == new[m].id
           d1 == Insert(c, old, new)
           d2 == ReplaceUses(d1, old, v)
           d3 == Erase(d2, old)
           L == Len(new)
           p == k + L
           q == k - 1 + m
<1>1. Alters(c, d1, i, {})
  BY ReadyAlters
<1>2. Coded(d1) /\ MasksClosed(d1)
  BY <1>1 DEF Alters
<1>3. new \in Seq(Instruction) /\ L \in Nat /\ Len(c) \in Nat
  BY LenProperties DEF Ready, Addable, Coded
<1>4. Len(d1) = Len(c) + L /\ d1[q] = new[m] /\ d1[p] = c[k]
  <2>1. InsertedAs(c, d1, k, new)
    BY <1>3, InsertIs
  <2>2. m \in 1 .. Len(new) /\ k \in k .. Len(c)
    BY <1>3
  <2> HIDE DEF d1
  <2>3. QED
    BY <2>1, <2>2 DEF InsertedAs
<1>5. p \in 1 .. Len(d1) /\ q \in 1 .. p - 1 /\ q \in 1 .. Len(d1) /\ q # p
  BY <1>3, <1>4
<1>6. new[m].op # "unmask_end" /\ v # old
  BY DEF Ready, Addable
<1> HIDE DEF d1, p, q, L, d2, d3
<1>7. old = d1[p].id /\ v = d1[q].id
  BY <1>4
<1>8. Alters(d1, d2, i, {})
  <2> HIDE DEF old, v
  <2>1. Alters(d1, ReplaceUses(d1, d1[p].id, d1[q].id), i, {})
    <3>1. d1[q].op # "unmask_end" /\ ~Masking(d1[p])
      BY <1>4, <1>6
    <3>2. QED
      BY <1>2, <1>5, <3>1, ReplaceAlters
  <2>2. QED
    BY <1>7, <2>1 DEF d2
<1>9. old \in Nat \ {0} /\ v \in Nat \ {0}
  <2>1. d1[p] \in Instruction /\ d1[q] \in Instruction
    BY <1>2, <1>5, ElementOfSeq DEF Coded
  <2>2. QED
    BY <1>7, <2>1 DEF Instruction
<1>10. UsesReplaced(d1, d2, old, v)
  <2> HIDE DEF old, v
  <2>1. QED
    BY <1>2, <1>9, ReplaceIs DEF d2
<1>11. Coded(d2) /\ MasksClosed(d2) /\ Len(d2) = Len(d1) /\ d2[p].id = old /\ d2[q].id = v
       /\ d2[q].op = new[m].op /\ d2[p].op = d1[p].op
  <2>1. Coded(d2) /\ MasksClosed(d2)
    BY <1>8 DEF Alters
  <2>2. QED
    BY <1>4, <1>5, <1>10, <2>1 DEF UsesReplaced
<1>12. ~Masking(d2[p])
  <2>1. SUFFICES ASSUME Masking(d2[p]) PROVE FALSE
    OBVIOUS
  <2>2. PICK n \in 1 .. Len(d1) : d1[n] = d2[p]
    BY <1>5, <1>8, <1>11, <2>1 DEF Alters, SameMasks
  <2>3. n = p
    BY <1>2, <1>5, <1>7, <1>11, <2>2 DEF Coded
  <2>4. QED
    BY <1>4, <2>1, <2>2, <2>3
<1>13. Unused(d2, old)
  <2>1. SUFFICES ASSUME NEW n \in 1 .. Len(d1), old \in Operands(d2[n]) PROVE FALSE
    <3>1. DOMAIN d2 = 1 .. Len(d1)
      BY <1>11, LenProperties DEF Coded
    <3>2. QED
      BY <3>1 DEF Unused
  <2> HIDE DEF old, v
  <2>2. (old = v /\ old \in Operands(d1[n])) \/ (old \in Operands(d1[n]) /\ old # old)
    BY <1>2, <1>9, <2>1, RenamedOperands DEF d2
  <2>3. QED
    BY <1>6, <2>2 DEF old, v
<1>14. Alters(d2, d3, i, {old})
  <2>1. Alters(d2, Erase(d2, d2[p].id), i, {d2[p].id})
    <3>1. p \in 1 .. Len(d2) /\ Unused(d2, d2[p].id)
      BY <1>5, <1>11, <1>13
    <3>2. QED
      BY <1>11, <1>12, <3>1, EraseAlters
  <2>2. QED
    BY <1>11, <2>1 DEF d3
<1>15. Alters(c, d3, i, {old})
  <2>1. Alters(c, d2, i, {} \cup {})
    BY <1>1, <1>8, AltersFollow
  <2>2. Alters(c, d3, i, ({} \cup {}) \cup {old})
    BY <1>14, <2>1, AltersFollow
  <2>3. ({} \cup {}) \cup {old} = {old}
    OBVIOUS
  <2>4. QED
    BY <2>2, <2>3
<1>16. q \in 1 .. Len(d3) /\ d3[q] = d2[q]
  <2>1. Len(Erase(d2, d2[p].id)) = Len(d2) - 1
        /\ \A n \in 1 .. p - 1 : Erase(d2, d2[p].id)[n] = d2[n]
    <3>1. p \in 1 .. Len(d2)
      BY <1>5, <1>11
    <3>2. QED
      BY <1>11, <3>1, EraseIs
  <2>2. Len(d3) = Len(d2) - 1 /\ \A n \in 1 .. p - 1 : d3[n] = d2[n]
    BY <1>11, <2>1 DEF d3
  <2>3. Len(d2) \in Nat
    BY <1>11, LenProperties DEF Coded
  <2>4. QED
    BY <1>5, <1>11, <2>2, <2>3
<1>17. d3 = Replaced(c, c[k].id, new, new[m].id)
  BY DEF Replaced, d1, d2, d3, old, v
<1>18. ASSUME NEW n \in 1 .. Len(d3)
       PROVE  \/ \E j \in 1 .. Len(new) : d3[n].id = new[j].id
              \/ \E j \in 1 .. Len(c) : d3[n].id = c[j].id
  <2>1. PICK e \in 1 .. Len(d2) : d3[n] = d2[e]
    <3>1. \A f \in 1 .. Len(Erase(d2, d2[p].id)) :
            \E e \in 1 .. Len(d2) : Erase(d2, d2[p].id)[f] = d2[e]
      <4>1. p \in 1 .. Len(d2)
        BY <1>5, <1>11
      <4>2. QED
        BY <1>11, <4>1, EraseParts, ZenonT(60)
    <3>2. QED
      BY <1>11, <3>1 DEF d3
  <2>2. e \in 1 .. Len(d1) /\ d2[e].id = d1[e].id
    BY <1>10 DEF UsesReplaced
  <2>3. \/ \E j \in 1 .. Len(new) : d1[e] = new[j]
        \/ \E j \in 1 .. Len(c) : d1[e] = c[j]
    BY <1>3, <2>2, InsertParts, SMTT(30) DEF d1, old
  <2>4. QED
    BY <2>1, <2>2, <2>3
<1>19. QED
  BY <1>11, <1>15, <1>16, <1>17, <1>18 DEF ReplacedAs, old, v

\* The code of GiveMask and of RewritePredication.
WithMask(c, i, inst, w) ==
  LET em == LoadEM(i, Id(inst, 1), w)
      both == New(i, Id(inst, 2), "and", w, <<i.pred, em.id>>)
  IN  IF i.pred = AllOnes
      THEN SetPred(Insert(c, i.id, <<em>>), i.id, em.id)
      ELSE SetPred(Insert(c, i.id, <<em, both>>), i.id, both.id)

LEMMA InsertSetPredAlters ==
  ASSUME NEW c, Coded(c), MasksClosed(c), NEW k \in 1 .. Len(c), NEW new, NEW inst,
         Ready(c, k, new, inst), NEW m \in 1 .. Len(new),
         c[k].op \in ScatterGathers \cup Sends,
         c[k].op = "gather_masked" => c[k].id = inst.id
  PROVE  Alters(c, SetPred(Insert(c, c[k].id, new), c[k].id, new[m].id), inst, {})
<1> DEFINE old == c[k].id
           v == new[m].id
           d1 == Insert(c, old, new)
           L == Len(new)
           p == k + L
           q == k - 1 + m
<1>1. Alters(c, d1, inst, {})
  BY ReadyAlters
<1>2. Coded(d1) /\ MasksClosed(d1)
  BY <1>1 DEF Alters
<1>3. new \in Seq(Instruction) /\ L \in Nat /\ Len(c) \in Nat
  BY LenProperties DEF Ready, Addable, Coded
<1>4. Len(d1) = Len(c) + L /\ d1[q] = new[m] /\ d1[p] = c[k]
  <2>1. InsertedAs(c, d1, k, new)
    BY <1>3, InsertIs
  <2>2. m \in 1 .. Len(new) /\ k \in k .. Len(c)
    BY <1>3
  <2> HIDE DEF d1
  <2>3. QED
    BY <2>1, <2>2 DEF InsertedAs
<1>5. p \in 1 .. Len(d1) /\ q \in 1 .. p - 1 /\ q \in 1 .. Len(d1)
  BY <1>3, <1>4
<1>6. new[m].op # "unmask_end"
  BY DEF Ready, Addable
<1> HIDE DEF d1, p, q, L
<1>7. Defined(d1, p, v)
  BY <1>4, <1>5, <1>6 DEF Defined
<1>8. v \in Nat \ {0}
  <2>1. d1[q] \in Instruction
    BY <1>2, <1>5, ElementOfSeq DEF Coded
  <2>2. QED
    BY <1>4, <2>1 DEF Instruction
<1>9. d1[p].id = old /\ d1[p].op = c[k].op
  BY <1>4
<1> HIDE DEF old, v
<1>10. Alters(d1, SetPred(d1, d1[p].id, v), inst, {})
  <2>1. d1[p].op \in ScatterGathers \cup Sends /\ (d1[p].op = "gather_masked" => d1[p].id = inst.id)
    BY <1>9 DEF old
  <2>2. QED
    BY <1>2, <1>5, <1>7, <1>8, <2>1, SetPredAlters
<1>11. Alters(d1, SetPred(d1, old, v), inst, {})
  BY <1>9, <1>10
<1>12. Alters(c, SetPred(d1, old, v), inst, {} \cup {})
  BY <1>1, <1>11, AltersFollow
<1>13. {} \cup {} = {}
  OBVIOUS
<1>14. QED
  BY <1>12, <1>13 DEF d1, old, v

LEMMA WithMaskAlters ==
  ASSUME NEW c, Coded(c), MasksClosed(c), NEW k \in 1 .. Len(c), NEW i, NEW inst, NEW w \in Nat,
         c[k].id = i.id, c[k].op \in ScatterGathers \cup Sends,
         c[k].op = "gather_masked" => c[k].id = inst.id,
         i.bb \in Nat, i.pred = AllOnes \/ (i.pred \in Int /\ Defined(c, k, i.pred)),
         Fresh(c, inst, 1), Fresh(c, inst, 2)
  PROVE  Alters(c, WithMask(c, i, inst, w), inst, {})
<1> DEFINE em == LoadEM(i, Id(inst, 1), w)
           both == New(i, Id(inst, 2), "and", w, <<i.pred, em.id>>)
<1>1. em.id = Id(inst, 1) /\ both.id = Id(inst, 2)
  BY DEF LoadEM, New
<1>2. Id(inst, 1) # Id(inst, 2) /\ Id(inst, 1) \in Int
  <2>1. inst.id \in 1 .. IdStep - 1 /\ 1 \in 0 .. 4 /\ 2 \in 0 .. 4
    BY DEF Fresh
  <2>2. QED
    BY <2>1, IdsApart
<1>3. Fits(c, k, em, inst, {})
  <2>1. <<>> \in Seq(Int) /\ Range(<<>>) = {}
    BY DEF Range
  <2>2. 1 \in 0 .. 4 /\ "em" \in {"em", "and", "select", "replicate", "load"} /\ "em" # "load"
    OBVIOUS
  <2> DEFINE none == <<>>
             n == 1
             op == "em"
             ids == {}
  <2>3. /\ none \in Seq(Int) /\ n \in 0 .. 4 /\ Fresh(c, inst, n) /\ Id(inst, n) \notin ids
        /\ op \in {"em", "and", "select", "replicate", "load"} /\ op # "load"
        /\ \A x \in Range(none) : Defined(c, k, x) \/ x \in ids
    BY <2>1, <2>2
  <2>4. em = New(i, Id(inst, n), op, w, none)
    BY DEF LoadEM
  <2> HIDE DEF none, n, op, em, ids
  <2>5. Fits(c, k, New(i, Id(inst, n), op, w, none), inst, ids)
    BY <2>3, NewFits
  <2>6. QED
    BY <2>4, <2>5 DEF ids
<1>4. CASE i.pred = AllOnes
  <2>1. Ready(c, k, <<em>>, inst)
    <3> HIDE DEF em
    <3>1. QED
      BY <1>3, ReadyOne
  <2> DEFINE new == <<em>>
             m == 1
  <2>2. Ready(c, k, new, inst) /\ m \in 1 .. Len(new) /\ new[m].id = em.id
    BY <2>1
  <2>3. WithMask(c, i, inst, w) = SetPred(Insert(c, c[k].id, new), c[k].id, em.id)
    BY <1>4 DEF WithMask
  <2> HIDE DEF em, new, m
  <2>4. Alters(c, SetPred(Insert(c, c[k].id, new), c[k].id, new[m].id), inst, {})
    BY <2>2, InsertSetPredAlters
  <2>5. QED
    BY <2>2, <2>3, <2>4
<1>5. CASE i.pred # AllOnes
  <2>1. Fits(c, k, both, inst, {em.id})
    <3> DEFINE args == <<i.pred, em.id>>
               n == 2
               op == "and"
               ids == {em.id}
    <3>1. /\ args \in Seq(Int) /\ n \in 0 .. 4 /\ Fresh(c, inst, n) /\ Id(inst, n) \notin ids
          /\ op \in {"em", "and", "select", "replicate", "load"} /\ op # "load"
          /\ \A x \in Range(args) : Defined(c, k, x) \/ x \in ids
      <4>1. i.pred \in Int /\ em.id \in Int
        BY <1>1, <1>2, <1>5
      <4> HIDE DEF em
      <4>2. args \in Seq(Int) /\ Range(args) = {i.pred, em.id}
        BY <4>1 DEF Range
      <4>3. n \in 0 .. 4 /\ op \in {"em", "and", "select", "replicate", "load"} /\ op # "load"
        OBVIOUS
      <4>4. QED
        BY <1>1, <1>2, <1>5, <4>2, <4>3
    <3>2. both = New(i, Id(inst, n), op, w, args)
      OBVIOUS
    <3> HIDE DEF args, n, op, em, both, ids
    <3>3. Fits(c, k, New(i, Id(inst, n), op, w, args), inst, ids)
      BY <3>1, NewFits
    <3>4. QED
      BY <3>2, <3>3 DEF ids
  <2>2. Ready(c, k, <<em, both>>, inst)
    <3> HIDE DEF em, both
    <3>1. QED
      BY <1>3, <2>1, ReadyTwo
  <2> DEFINE new == <<em, both>>
             m == 2
  <2>3. Ready(c, k, new, inst) /\ m \in 1 .. Len(new) /\ new[m].id = both.id
    BY <2>2
  <2>4. WithMask(c, i, inst, w) = SetPred(Insert(c, c[k].id, new), c[k].id, both.id)
    BY <1>5 DEF WithMask
  <2> HIDE DEF em, both, new, m
  <2>5. Alters(c, SetPred(Insert(c, c[k].id, new), c[k].id, new[m].id), inst, {})
    BY <2>3, InsertSetPredAlters
  <2>6. QED
    BY <2>3, <2>4, <2>5
<1>6. QED
  BY <1>4, <1>5

\* predicateSend with a scalar predicate.
LEMMA SplatSendAlters ==
  ASSUME NEW c, Coded(c), MasksClosed(c), NEW k \in 1 .. Len(c), NEW w \in Nat,
         c[k].op \in Sends, \A n \in 0 .. 4 : Fresh(c, c[k], n)
  PROVE  LET new == [c[k] EXCEPT !.id = Id(c[k], 0), !.pred = AllOnes, !.exec = w] IN
         Alters(c, WithMask(Replaced(c, c[k].id, <<new>>, new.id), new, c[k], w),
                c[k], {c[k].id})
<1> DEFINE i == c[k]
           new == [i EXCEPT !.id = Id(i, 0), !.pred = AllOnes, !.exec = w]
           d == Replaced(c, i.id, <<new>>, new.id)
<1>1. i \in Instruction /\ Shaped(i) /\ ~Masking(i)
  <2>1. i \in Instruction
    BY ElementOfSeq DEF Coded
  <2>2. QED
    BY <2>1 DEF Coded, MasksClosed, Sends
<1>2. i.id \in 1 .. IdStep - 1 /\ \A n \in 0 .. 4 : Fresh(c, i, n)
  BY SMTT(30) DEF Fresh
<1>3. Id(i, 0) \in Nat \ {0}
  <2>1. Id(i, 0) \in Made(i.id)
    BY DEF Id, Made
  <2>2. QED
    BY <1>2, <2>1, MadeIds
<1>4. /\ new \in Instruction /\ new.id = Id(i, 0) /\ new.op = i.op /\ new.bb = i.bb
      /\ new.args = i.args /\ new.pred = AllOnes
  <2> DEFINE x == Id(i, 0)
  <2>1. x \in Nat \ {0} /\ AllOnes \in Int /\ x \in Int
    BY <1>3 DEF AllOnes
  <2>2. new = [i EXCEPT !.id = x, !.pred = AllOnes, !.exec = w]
    OBVIOUS
  <2> HIDE DEF i, x, new
  <2>3. QED
    BY <1>1, <2>1, <2>2 DEF Instruction, x
<1>5. Fits(c, k, new, i, {})
  <2>1. /\ Fresh(c, i, 0) /\ i.op \in Sends /\ new.pred \notin {NoPred, ScalarOne}
        /\ \A x \in Operands(i) : Defined(c, k, x)
    BY <1>2, <1>4 DEF NoPred, ScalarOne, AllOnes, Coded
  <2> HIDE DEF i, new
  <2>2. QED
    BY <1>1, <1>4, <2>1, CopyFits
<1> DEFINE s == <<new>>
           m == 1
<1>6. Ready(c, k, s, i) /\ m \in 1 .. Len(s) /\ Len(s) = 1 /\ s[m] = new
  <2>1. Ready(c, k, <<new>>, i)
    <3> HIDE DEF new, i
    <3>1. QED
      BY <1>5, ReadyOne
  <2>2. QED
    BY <2>1
<1> HIDE DEF new, s, m, d
<1>7. d = Replaced(c, c[k].id, s, s[m].id)
  BY <1>6 DEF d, s
<1>8. /\ Alters(c, d, i, {c[k].id})
      /\ \E p \in 1 .. Len(d) : d[p].id = s[m].id /\ d[p].op = s[m].op
      /\ \A n \in 1 .. Len(d) : \/ \E j \in 1 .. Len(s) : d[n].id = s[j].id
                                \/ \E j \in 1 .. Len(c) : d[n].id = c[j].id
  <2>1. ~Masking(c[k])
    BY <1>1
  <2> HIDE DEF i
  <2>2. ReplacedAs(c, Replaced(c, c[k].id, s, s[m].id), k, s, m, i)
    BY <1>6, <2>1, ReplacedAlters
  <2>3. QED
    BY <1>7, <2>2 DEF ReplacedAs
<1>9. PICK p \in 1 .. Len(d) : d[p].id = new.id /\ d[p].op = i.op
  BY <1>4, <1>6, <1>8
<1>10. Coded(d) /\ MasksClosed(d)
  BY <1>8 DEF Alters
<1>11. Fresh(d, i, 1) /\ Fresh(d, i, 2)
  <2>1. \A n \in 1 .. Len(d) : d[n].id = Id(i, 0) \/ \E j \in 1 .. Len(c) : d[n].id = c[j].id
    <3>1. \A j \in 1 .. Len(s) : s[j].id = Id(i, 0)
      BY <1>4, <1>6 DEF m
    <3>2. QED
      BY <1>8, <3>1
  <2>2. 0 \in 0 .. 4 /\ 1 \in 0 .. 4 /\ 2 \in 0 .. 4
    OBVIOUS
  <2>3. Id(i, 0) # Id(i, 1) /\ Id(i, 0) # Id(i, 2)
    <3> HIDE DEF i
    <3>1. QED
      BY <1>2, <2>2, IdsApart
  <2>4. QED
    BY <1>2, <2>1, <2>2, <2>3 DEF Fresh
<1>12. Alters(d, WithMask(d, new, i, w), i, {})
  <2>1. /\ d[p].op \in ScatterGathers \cup Sends /\ d[p].op # "gather_masked"
        /\ new.bb \in Nat /\ new.pred = AllOnes
    BY <1>1, <1>4, <1>9 DEF Sends, Instruction
  <2> HIDE DEF i
  <2>2. QED
    BY <1>9, <1>10, <1>11, <2>1, WithMaskAlters
<1>13. Alters(c, WithMask(d, new, i, w), i, {c[k].id} \cup {})
  BY <1>8, <1>12, AltersFollow
<1>14. {c[k].id} \cup {} = {c[k].id}
  OBVIOUS
<1>15. QED
  BY <1>13, <1>14 DEF d, new

\* The arguments of a select: a mask, then others.
LEMMA ConsRange ==
  ASSUME NEW v \in Int, NEW args \in Seq(Int)
  PROVE  <<v>> \o args \in Seq(Int) /\ \A x \in Range(<<v>> \o args) : x = v \/ x \in Range(args)
<1> DEFINE a == <<v>>
           b == args
<1>1. a \in Seq(Int) /\ b \in Seq(Int) /\ Len(a) = 1 /\ a[1] = v
  OBVIOUS
<1> HIDE DEF a, b
<1>2. /\ a \o b \in Seq(Int) /\ Len(a \o b) = Len(a) + Len(b)
      /\ Len(a) \in Nat /\ Len(b) \in Nat
      /\ \A j \in 1 .. Len(a) : (a \o b)[j] = a[j]
      /\ \A j \in 1 .. Len(b) : (a \o b)[Len(a) + j] = b[j]
  <2>1. a \in Seq(Int) /\ b \in Seq(Int)
    BY <1>1
  <2>2. QED
    BY <2>1, JoinIs
<1>3. ASSUME NEW x \in Range(a \o b) PROVE x = a[1] \/ x \in Range(b)
  <2>1. DOMAIN (a \o b) = 1 .. Len(a) + Len(b) /\ DOMAIN b = 1 .. Len(b)
    BY <1>1, <1>2, LenProperties
  <2>2. PICK j \in 1 .. Len(a) + Len(b) : x = (a \o b)[j]
    BY <1>3, <2>1 DEF Range
  <2>3. CASE j = 1
    BY <1>1, <1>2, <2>2, <2>3
  <2>4. CASE j # 1
    <3> DEFINE e == j - 1
    <3>1. e \in 1 .. Len(b) /\ j = 1 + e
      BY <1>1, <1>2, <2>4
    <3> HIDE DEF e
    <3>2. x = b[e]
      BY <1>1, <1>2, <2>2, <3>1
    <3>3. QED
      BY <2>1, <3>1, <3>2 DEF Range
  <2>5. QED
    BY <2>3, <2>4
<1>4. QED
  BY <1>1, <1>2, <1>3 DEF a, b

LEMMA PredicateAlters ==
  ASSUME NEW c, Coded(c), MasksClosed(c), NEW k \in 1 .. Len(c), NEW w \in Nat,
         c[k].op = "predicate", \A n \in 0 .. 4 : Fresh(c, c[k], n)
  PROVE  LET em == LoadEM(c[k], Id(c[k], 1), w)
             select == New(c[k], Id(c[k], 2), "select", w, <<em.id>> \o c[k].args)
         IN  Alters(c, Replaced(c, c[k].id, <<em, select>>, select.id), c[k], {c[k].id})
<1> DEFINE i == c[k]
           em == LoadEM(i, Id(i, 1), w)
           args == <<em.id>> \o i.args
           select == New(i, Id(i, 2), "select", w, args)
<1>1. i \in Instruction /\ ~Masking(i) /\ i.bb \in Nat /\ i.args \in Seq(Int)
  <2>1. i \in Instruction
    BY ElementOfSeq DEF Coded
  <2>2. QED
    BY <2>1 DEF MasksClosed, Instruction
<1>2. i.id \in 1 .. IdStep - 1 /\ \A n \in 0 .. 4 : Fresh(c, i, n)
  BY DEF Fresh
<1>3. em.id = Id(i, 1) /\ select.id = Id(i, 2)
  BY DEF LoadEM, New
<1>4. 1 \in 0 .. 4 /\ 2 \in 0 .. 4
  OBVIOUS
<1>5. Id(i, 1) # Id(i, 2) /\ Id(i, 1) \in Int
  <2> HIDE DEF i
  <2>1. QED
    BY <1>2, <1>4, IdsApart
<1>6. Fits(c, k, em, i, {})
  <2> DEFINE none == <<>>
             n == 1
             op == "em"
             ids == {}
  <2>1. none \in Seq(Int) /\ Range(none) = {} /\ n \in 0 .. 4
        /\ op \in {"em", "and", "select", "replicate", "load"} /\ op # "load"
    BY DEF Range
  <2>2. em = New(i, Id(i, n), op, w, none)
    BY DEF LoadEM
  <2>3. Id(i, n) \notin ids /\ \A x \in Range(none) : Defined(c, k, x) \/ x \in ids
    BY <2>1
  <2> HIDE DEF i, none, n, op, em, ids
  <2>4. Fits(c, k, New(i, Id(i, n), op, w, none), i, ids)
    BY <1>1, <1>2, <2>1, <2>3, NewFits
  <2>5. QED
    BY <2>2, <2>4 DEF ids
<1>7. Fits(c, k, select, i, {em.id})
  <2> DEFINE n == 2
             op == "select"
             ids == {em.id}
  <2>1. n \in 0 .. 4 /\ op \in {"em", "and", "select", "replicate", "load"} /\ op # "load"
    OBVIOUS
  <2>2. em.id \in Int
    BY <1>3, <1>5
  <2>3. args \in Seq(Int) /\ \A x \in Range(args) : x = em.id \/ x \in Range(i.args)
    <3> HIDE DEF em, i
    <3>1. QED
      BY <1>1, <2>2, ConsRange
  <2>4. \A x \in Range(i.args) : Defined(c, k, x)
    BY DEF Coded, Operands
  <2> HIDE DEF args
  <2>5. Id(i, n) \notin ids /\ \A x \in Range(args) : Defined(c, k, x) \/ x \in ids
    BY <1>3, <1>5, <2>3, <2>4
  <2>6. select = New(i, Id(i, n), op, w, args)
    OBVIOUS
  <2> HIDE DEF i, n, op, em, ids, select
  <2>7. Fits(c, k, New(i, Id(i, n), op, w, args), i, ids)
    BY <1>1, <1>2, <2>1, <2>3, <2>5, NewFits
  <2>8. QED
    BY <2>6, <2>7 DEF ids
<1> HIDE DEF args
<1> DEFINE s == <<em, select>>
           m == 2
<1>8. Ready(c, k, s, i) /\ m \in 1 .. Len(s) /\ s[m] = select
  <2>1. Ready(c, k, <<em, select>>, i)
    <3> HIDE DEF em, select, i
    <3>1. QED
      BY <1>6, <1>7, ReadyTwo
  <2>2. QED
    BY <2>1
<1>9. Alters(c, Replaced(c, c[k].id, s, s[m].id), i, {c[k].id})
  <2>1. ~Masking(c[k])
    BY <1>1
  <2> HIDE DEF s, m, i, em, select
  <2>2. QED
    BY <1>8, <2>1, ReplacedAlters DEF ReplacedAs
<1>10. QED
  BY <1>8, <1>9 DEF args

LEMMA AppendJoined ==
  ASSUME NEW S, NEW a \in Seq(S), NEW s \in Seq(S), NEW b \in S
  PROVE  a \o Append(s, b) = Append(a \o s, b)
<1> DEFINE x == Append(s, b)
           y == a \o s
           l == a \o x
           r == Append(y, b)
<1>1. Len(a) \in Nat /\ Len(s) \in Nat
  BY LenProperties
<1>2. x \in Seq(S) /\ Len(x) = Len(s) + 1 /\ (\A n \in 1 .. Len(s) : x[n] = s[n])
      /\ x[Len(s) + 1] = b
  BY AppendProperties
<1>3. /\ y \in Seq(S) /\ Len(y) = Len(a) + Len(s)
      /\ \A n \in 1 .. Len(a) : y[n] = a[n]
      /\ \A n \in 1 .. Len(s) : y[Len(a) + n] = s[n]
  BY JoinIs
<1> HIDE DEF x, y
<1>4. /\ l \in Seq(S) /\ Len(l) = Len(a) + Len(x)
      /\ \A n \in 1 .. Len(a) : l[n] = a[n]
      /\ \A n \in 1 .. Len(x) : l[Len(a) + n] = x[n]
  <2>1. x \in Seq(S)
    BY <1>2
  <2>2. QED
    BY <2>1, JoinIs
<1>5. r \in Seq(S) /\ Len(r) = Len(y) + 1 /\ (\A n \in 1 .. Len(y) : r[n] = y[n])
      /\ r[Len(y) + 1] = b
  <2>1. y \in Seq(S)
    BY <1>3
  <2>2. QED
    BY <2>1, AppendProperties
<1> HIDE DEF l, r
<1>6. Len(l) = Len(r)
  BY <1>1, <1>2, <1>3, <1>4, <1>5
<1>7. \A n \in 1 .. Len(l) : l[n] = r[n]
  <2> TAKE n \in 1 .. Len(l)
  <2>1. CASE n \in 1 .. Len(a)
    <3>1. n \in 1 .. Len(y)
      BY <1>1, <1>3, <2>1
    <3>2. QED
      BY <1>3, <1>4, <1>5, <2>1, <3>1
  <2>2. CASE n > Len(a)
    <3> DEFINE m == n - Len(a)
    <3>1. m \in 1 .. Len(s) + 1 /\ n = Len(a) + m
      BY <1>1, <1>2, <1>4, <2>2
    <3> HIDE DEF m
    <3>2. l[n] = x[m]
      BY <1>2, <1>4, <3>1
    <3>3. CASE m = Len(s) + 1
      <4>1. n = Len(y) + 1
        BY <1>1, <1>3, <3>1, <3>3
      <4>2. QED
        BY <1>2, <1>5, <3>2, <3>3, <4>1
    <3>4. CASE m # Len(s) + 1
      <4>1. m \in 1 .. Len(s) /\ n \in 1 .. Len(y)
        BY <1>1, <1>3, <3>1, <3>4
      <4>2. QED
        BY <1>2, <1>3, <1>5, <3>1, <3>2, <4>1
    <3>5. QED
      BY <3>3, <3>4
  <2>3. QED
    BY <1>1, <2>1, <2>2
<1>8. l = r
  BY <1>4, <1>5, <1>6, <1>7, SeqEqual
<1>9. QED
  BY <1>8 DEF l, r, x, y

LEMMA JoinOne ==
  ASSUME NEW S, NEW a \in Seq(S), NEW b \in S
  PROVE  a \o <<b>> = Append(a, b)
<1>1. <<>> \in Seq(S) /\ Append(<<>>, b) = <<b>> /\ a \o <<>> = a
  BY ConcatEmptySeq
<1> DEFINE none == <<>>
<1>2. none \in Seq(S)
  BY <1>1
<1> HIDE DEF none
<1>3. a \o Append(none, b) = Append(a \o none, b)
  BY <1>2, AppendJoined
<1>4. QED
  BY <1>1, <1>3 DEF none

\* Instructions put before a store, whose value becomes the last of them.
LEMMA NewValueAlters ==
  ASSUME NEW c, Coded(c), MasksClosed(c), NEW k \in 1 .. Len(c), ~Masking(c[k]),
         NEW new, NEW i, Ready(c, k, new, i), NEW j \in 1 .. Len(new),
         NEW u \in k .. Len(c), ~Masking(c[u]), NEW n \in Nat
  PROVE  Alters(c, SetArg(Insert(c, c[k].id, new), c[u].id, n, new[j].id), i, {})
<1> DEFINE v == new[j].id
           d1 == Insert(c, c[k].id, new)
           L == Len(new)
           p == u + L
           q == k - 1 + j
<1>1. Alters(c, d1, i, {})
  BY ReadyAlters
<1>2. Coded(d1) /\ MasksClosed(d1)
  BY <1>1 DEF Alters
<1>3. new \in Seq(Instruction) /\ L \in Nat /\ Len(c) \in Nat
  BY LenProperties DEF Ready, Addable, Coded
<1>4. Len(d1) = Len(c) + L /\ d1[q] = new[j] /\ d1[p] = c[u]
  <2>1. InsertedAs(c, d1, k, new)
    BY <1>3, InsertIs
  <2>2. u \in k .. Len(c) /\ j \in 1 .. Len(new)
    OBVIOUS
  <2> HIDE DEF d1
  <2>3. QED
    BY <2>1, <2>2 DEF InsertedAs
<1>5. p \in 1 .. Len(d1) /\ q \in 1 .. p - 1 /\ q \in 1 .. Len(d1)
  BY <1>3, <1>4, SMTT(30)
<1>6. new[j].op # "unmask_end" /\ new[j].id \notin Given
  BY DEF Ready, Addable
<1> HIDE DEF d1, p, q, L
<1>7. Defined(d1, p, v) /\ v \notin Given
  BY <1>4, <1>5, <1>6 DEF Defined
<1>8. v \in Nat \ {0}
  <2>1. d1[q] \in Instruction
    BY <1>2, <1>5, ElementOfSeq DEF Coded
  <2>2. QED
    BY <1>4, <2>1 DEF Instruction
<1>9. ~Masking(d1[p]) /\ d1[p].id = c[u].id
  BY <1>4
<1> HIDE DEF v
<1>10. Alters(d1, SetArg(d1, d1[p].id, n, v), i, {})
  BY <1>2, <1>5, <1>7, <1>8, <1>9, SetArgAlters
<1>11. Alters(d1, SetArg(d1, c[u].id, n, v), i, {})
  BY <1>9, <1>10
<1>12. Alters(c, SetArg(d1, c[u].id, n, v), i, {} \cup {})
  BY <1>1, <1>11, AltersFollow
<1>13. {} \cup {} = {}
  OBVIOUS
<1>14. QED
  BY <1>12, <1>13 DEF d1, v

\* One more after a and s.
LEMMA ReadyJoined ==
  ASSUME NEW c, NEW k, NEW i, NEW a \in Seq(Instruction), NEW s \in Seq(Instruction),
         Ready(c, k, a \o s, i), NEW b, Fits(c, k, b, i, Ids(a \o s))
  PROVE  /\ Append(s, b) \in Seq(Instruction) /\ Last(Append(s, b)) = b
         /\ Ready(c, k, a \o Append(s, b), i)
         /\ Ids(a \o Append(s, b)) = Ids(a \o s) \cup {b.id}
<1>1. b \in Instruction
  BY DEF Fits
<1>2. a \o Append(s, b) = Append(a \o s, b)
  BY <1>1, AppendJoined
<1>3. Append(s, b) \in Seq(Instruction) /\ Last(Append(s, b)) = b
  <2>1. /\ Append(s, b) \in Seq(Instruction) /\ Len(Append(s, b)) = Len(s) + 1
        /\ Append(s, b)[Len(s) + 1] = b
    BY <1>1, AppendProperties
  <2>2. QED
    BY <2>1 DEF Last
<1>4. Ready(c, k, Append(a \o s, b), i) /\ Ids(Append(a \o s, b)) = Ids(a \o s) \cup {b.id}
  BY ReadyMore
<1>5. QED
  BY <1>2, <1>3, <1>4

\* One and two more after the first.
ReadyWith(c, k, i, a, s, last, ids) ==
  /\ s \in Seq(Instruction) /\ Last(s) = last
  /\ Ready(c, k, <<a>> \o s, i) /\ Ids(<<a>> \o s) = ids

LEMMA ReadyWithOne ==
  ASSUME NEW c, NEW k, NEW i, NEW a, Fits(c, k, a, i, {}), NEW b, Fits(c, k, b, i, {a.id})
  PROVE  ReadyWith(c, k, i, a, <<b>>, b, {a.id, b.id})
<1>1. a \in Instruction /\ b \in Instruction
  BY DEF Fits
<1> DEFINE s == <<a>>
<1>2. s \in Seq(Instruction) /\ Ready(c, k, s, i) /\ Ids(s) = {a.id}
  BY <1>1, ReadyOne
<1>3. Ready(c, k, s, i) /\ Fits(c, k, b, i, Ids(s))
  BY <1>2
<1> HIDE DEF s
<1>4. s \o <<b>> = Append(s, b)
  BY <1>1, <1>2, JoinOne
<1>5. Ready(c, k, Append(s, b), i) /\ Ids(Append(s, b)) = Ids(s) \cup {b.id}
  BY <1>3, ReadyMore
<1>6. <<b>> \in Seq(Instruction) /\ Last(<<b>>) = b
  BY <1>1 DEF Last
<1>7. QED
  BY <1>2, <1>4, <1>5, <1>6 DEF s, ReadyWith

LEMMA ReadyWithTwo ==
  ASSUME NEW c, NEW k, NEW i, NEW a, Fits(c, k, a, i, {}), NEW b, Fits(c, k, b, i, {a.id}),
         NEW d, Fits(c, k, d, i, {a.id, b.id})
  PROVE  ReadyWith(c, k, i, a, <<b, d>>, d, {a.id, b.id, d.id})
<1>1. a \in Instruction /\ b \in Instruction /\ d \in Instruction
  BY DEF Fits
<1> DEFINE s == <<a>>
           e == <<b>>
<1>2. s \in Seq(Instruction) /\ e \in Seq(Instruction)
  BY <1>1
<1>3. Ready(c, k, s \o e, i) /\ Ids(s \o e) = {a.id, b.id}
  <2>1. ReadyWith(c, k, i, a, <<b>>, b, {a.id, b.id})
    BY ReadyWithOne
  <2>2. QED
    BY <2>1 DEF ReadyWith
<1>4. Append(e, d) = <<b, d>>
  BY <1>1, AppendTwo
<1>5. Ready(c, k, s \o e, i) /\ Fits(c, k, d, i, Ids(s \o e))
  BY <1>3
<1> HIDE DEF s, e
<1>6. /\ Append(e, d) \in Seq(Instruction) /\ Last(Append(e, d)) = d
      /\ Ready(c, k, s \o Append(e, d), i)
      /\ Ids(s \o Append(e, d)) = Ids(s \o e) \cup {d.id}
  BY <1>2, <1>5, ReadyJoined
<1>7. QED
  BY <1>3, <1>4, <1>6 DEF s, ReadyWith

\* The code of SelectedStore.
SelectedIn(c, store, existing, w, n) ==
  LET load == New(store, Id(store, 0), "load", store.width, <<store.args[2]>>)
      em == LoadEM(store, Id(store, 1), w)
      both == New(store, Id(store, 2), "and", w, <<existing, em.id>>)
      mask == IF existing = NoPred THEN <<em>> ELSE <<em, both>>
      replicated == IF n = 1 THEN mask
                    ELSE Append(mask, New(store, Id(store, 3), "replicate", w * n,
                                          <<Last(mask).id>>))
      select == New(store, Id(store, 4), "select", store.width,
                    <<Last(replicated).id, store.args[1], load.id>>)
  IN  SetArg(Insert(c, store.id, <<load>> \o replicated \o <<select>>),
             store.id, 1, select.id)

LEMMA SelectedStoreAlters ==
  ASSUME NEW c, Coded(c), MasksClosed(c), NEW k \in 1 .. Len(c), NEW w \in Nat, NEW n \in Nat,
         c[k].op = "store", ~Masking(c[k]), \A j \in 0 .. 4 : Fresh(c, c[k], j),
         NEW existing \in Int, existing = NoPred \/ Defined(c, k, existing)
  PROVE  Alters(c, SelectedIn(c, c[k], existing, w, n), c[k], {})
<1> DEFINE i == c[k]
           load == New(i, Id(i, 0), "load", i.width, <<i.args[2]>>)
           em == LoadEM(i, Id(i, 1), w)
           both == New(i, Id(i, 2), "and", w, <<existing, em.id>>)
           mask == IF existing = NoPred THEN <<em>> ELSE <<em, both>>
           rep == New(i, Id(i, 3), "replicate", w * n, <<Last(mask).id>>)
           replicated == IF n = 1 THEN mask ELSE Append(mask, rep)
           select == New(i, Id(i, 4), "select", i.width,
                         <<Last(replicated).id, i.args[1], load.id>>)
           first == <<load>>
           X == first \o mask
           Y == first \o replicated
           Z == Y \o <<select>>
<1>1. /\ i \in Instruction /\ i.bb \in Nat /\ i.width \in Nat /\ i.args \in Seq(Int)
      /\ Len(i.args) = 2 /\ i.args[1] \in Int /\ i.args[2] \in Int
  <2>1. i \in Instruction /\ Shaped(i)
    BY ElementOfSeq DEF Coded
  <2>2. i.bb \in Nat /\ i.width \in Nat /\ i.args \in Seq(Int)
    BY <2>1 DEF Instruction
  <2>3. Len(i.args) = 2
    BY <2>1 DEF Shaped, Writes
  <2> HIDE DEF i
  <2>4. i.args[1] \in Int /\ i.args[2] \in Int
    BY <2>2, <2>3, ElementOfSeq, SMTT(30)
  <2>5. QED
    BY <2>1, <2>2, <2>3, <2>4
<1>2. i.id \in 1 .. IdStep - 1 /\ \A j \in 0 .. 4 : Fresh(c, i, j)
  BY DEF Fresh
<1>3. load.id = Id(i, 0) /\ em.id = Id(i, 1) /\ both.id = Id(i, 2) /\ rep.id = Id(i, 3)
      /\ select.id = Id(i, 4)
  BY DEF LoadEM, New
<1>4. 0 \in 0 .. 4 /\ 1 \in 0 .. 4 /\ 2 \in 0 .. 4 /\ 3 \in 0 .. 4 /\ 4 \in 0 .. 4
  OBVIOUS
<1>5. \A m, j \in 0 .. 4 : Id(i, m) \in Nat /\ (Id(i, m) = Id(i, j) => m = j)
  BY <1>2, IdsApart
<1>6. Defined(c, k, i.args[1]) /\ Defined(c, k, i.args[2]) /\ i.args[2] \notin MaskVariables
  <2>1. i.args[1] \in Range(i.args) /\ i.args[2] \in Range(i.args)
    BY <1>1, LenProperties, SMTT(30) DEF Range
  <2>2. QED
    BY <2>1 DEF Coded, Operands, Masking, Writes
<1>7. Fits(c, k, load, i, {})
  <2> DEFINE m == 0
             op == "load"
             v == i.width
             args == <<i.args[2]>>
             ids == {}
  <2>1. load = New(i, Id(i, m), op, v, args)
    BY DEF LoadEM
  <2>2. m \in 0 .. 4 /\ op \in {"em", "and", "select", "replicate", "load"} /\ Id(i, m) \notin ids
        /\ v \in Nat
    BY <1>1
  <2>3. args \in Seq(Int) /\ Len(args) = 1 /\ args[1] = i.args[2] /\ Range(args) = {i.args[2]}
    BY <1>1, SMTT(30) DEF Range
  <2>4. op = "load" => Len(args) = 1 /\ args[1] \notin MaskVariables
    BY <1>6, <2>3
  <2>5. \A x \in Range(args) : Defined(c, k, x) \/ x \in ids
    BY <1>6, <2>3
  <2> HIDE DEF i, m, op, v, args, ids, load
  <2>7. Fits(c, k, New(i, Id(i, m), op, v, args), i, ids)
    BY <1>1, <1>2, <2>2, <2>3, <2>4, <2>5, NewFits, ZenonT(60)
  <2>8. QED
    BY <2>1, <2>7 DEF ids
<1> HIDE DEF load
<1>8. Ready(c, k, first, i) /\ Ids(first) = {load.id} /\ first \in Seq(Instruction)
  <2> HIDE DEF i
  <2>1. load \in Instruction
    BY <1>7, FitsIs
  <2>2. first \in Seq(Instruction)
    BY <2>1
  <2>3. Ready(c, k, first, i) /\ Ids(first) = {load.id}
    BY <1>7, ReadyOne
  <2>4. QED
    BY <2>2, <2>3
<1>9. Fits(c, k, em, i, {load.id})
  <2> DEFINE m == 1
             op == "em"
             v == w
             args == <<>>
             ids == {load.id}
  <2>1. em = New(i, Id(i, m), op, v, args)
    BY DEF LoadEM
  <2>2. m \in 0 .. 4 /\ op \in {"em", "and", "select", "replicate", "load"} /\ Id(i, m) \notin ids
        /\ v \in Nat
    BY <1>3, <1>4, <1>5
  <2>3. args \in Seq(Int) /\ Range(args) = {}
    BY DEF Range
  <2>4. op = "load" => Len(args) = 1 /\ args[1] \notin MaskVariables
    OBVIOUS
  <2>5. \A x \in Range(args) : Defined(c, k, x) \/ x \in ids
    BY <2>3
  <2> HIDE DEF i, m, op, v, args, ids, em
  <2>7. Fits(c, k, New(i, Id(i, m), op, v, args), i, ids)
    BY <1>1, <1>2, <2>2, <2>3, <2>4, <2>5, NewFits, ZenonT(60)
  <2>8. QED
    BY <2>1, <2>7 DEF ids
<1>10. ASSUME existing # NoPred PROVE Fits(c, k, both, i, {load.id, em.id})
  <2> DEFINE m == 2
             op == "and"
             v == w
             args == <<existing, em.id>>
             ids == {load.id, em.id}
  <2>1. both = New(i, Id(i, m), op, v, args)
    BY DEF LoadEM
  <2>2. m \in 0 .. 4 /\ op \in {"em", "and", "select", "replicate", "load"} /\ Id(i, m) \notin ids
        /\ v \in Nat
    BY <1>3, <1>4, <1>5
  <2>3. args \in Seq(Int) /\ Range(args) = {existing, em.id}
    <3>1. em.id \in Int
      BY <1>3, <1>4, <1>5, SMTT(30)
    <3> HIDE DEF em
    <3>2. QED
      BY <3>1 DEF Range
  <2>4. op = "load" => Len(args) = 1 /\ args[1] \notin MaskVariables
    OBVIOUS
  <2>5. \A x \in Range(args) : Defined(c, k, x) \/ x \in ids
    BY <1>10, <2>3
  <2> HIDE DEF i, m, op, v, args, ids, both
  <2>7. Fits(c, k, New(i, Id(i, m), op, v, args), i, ids)
    BY <1>1, <1>2, <2>2, <2>3, <2>4, <2>5, NewFits, ZenonT(60)
  <2>8. QED
    BY <2>1, <2>7 DEF ids
<1> HIDE DEF em, both
<1>11. /\ mask \in Seq(Instruction) /\ Ready(c, k, X, i) /\ load.id \in Ids(X)
       /\ Last(mask).id \in Ids(X) /\ Ids(X) \subseteq {Id(i, 0), Id(i, 1), Id(i, 2)}
  <2>1. CASE existing = NoPred
    <3>1. mask = <<em>> /\ X = <<load>> \o <<em>>
      BY <2>1
    <3>2. ReadyWith(c, k, i, load, <<em>>, em, {load.id, em.id})
      <4> HIDE DEF i
      <4>1. QED
        BY <1>7, <1>9, ReadyWithOne
    <3>3. QED
      BY <1>3, <3>1, <3>2 DEF ReadyWith
  <2>2. CASE existing # NoPred
    <3>1. mask = <<em, both>> /\ X = <<load>> \o <<em, both>>
      BY <2>2
    <3>2. Fits(c, k, both, i, {load.id, em.id})
      BY <1>10, <2>2
    <3>3. ReadyWith(c, k, i, load, <<em, both>>, both, {load.id, em.id, both.id})
      <4> HIDE DEF i
      <4>1. QED
        BY <1>7, <1>9, <3>2, ReadyWithTwo
    <3>4. QED
      BY <1>3, <3>1, <3>3 DEF ReadyWith
  <2>3. QED
    BY <2>1, <2>2
<1> HIDE DEF mask, X
<1>12. Fits(c, k, rep, i, Ids(X))
  <2> DEFINE m == 3
             op == "replicate"
             v == w * n
             args == <<Last(mask).id>>
             ids == Ids(X)
  <2>1. rep = New(i, Id(i, m), op, v, args)
    BY DEF LoadEM
  <2>2. m \in 0 .. 4 /\ op \in {"em", "and", "select", "replicate", "load"} /\ Id(i, m) \notin ids
        /\ v \in Nat
    BY <1>4, <1>5, <1>11
  <2>3. args \in Seq(Int) /\ Range(args) = {Last(mask).id}
    <3>1. Last(mask).id \in Int
      BY <1>4, <1>5, <1>11
    <3>2. QED
      BY <3>1 DEF Range
  <2>4. op = "load" => Len(args) = 1 /\ args[1] \notin MaskVariables
    OBVIOUS
  <2>5. \A x \in Range(args) : Defined(c, k, x) \/ x \in ids
    BY <1>11, <2>3
  <2> HIDE DEF i, m, op, v, args, ids, rep
  <2>7. Fits(c, k, New(i, Id(i, m), op, v, args), i, ids)
    BY <1>1, <1>2, <2>2, <2>3, <2>4, <2>5, NewFits, ZenonT(60)
  <2>8. QED
    BY <2>1, <2>7 DEF ids
<1> HIDE DEF rep
<1>13. /\ replicated \in Seq(Instruction) /\ Ready(c, k, Y, i) /\ load.id \in Ids(Y)
       /\ Last(replicated).id \in Ids(Y)
       /\ Ids(Y) \subseteq {Id(i, 0), Id(i, 1), Id(i, 2), Id(i, 3)}
  <2>1. CASE n = 1
    <3>1. replicated = mask /\ Y = X
      BY <2>1 DEF X
    <3> HIDE DEF replicated, Y
    <3>2. QED
      BY <1>11, <3>1
  <2>2. CASE n # 1
    <3>1. replicated = Append(mask, rep)
      BY <2>2
    <3>2. Ready(c, k, first \o mask, i) /\ Fits(c, k, rep, i, Ids(first \o mask))
      BY <1>11, <1>12 DEF X
    <3> HIDE DEF first, replicated, i
    <3>3. /\ Append(mask, rep) \in Seq(Instruction) /\ Last(Append(mask, rep)) = rep
          /\ Ready(c, k, first \o Append(mask, rep), i)
          /\ Ids(first \o Append(mask, rep)) = Ids(first \o mask) \cup {rep.id}
      BY <1>8, <1>11, <3>2, ReadyJoined
    <3>4. QED
      BY <1>3, <1>11, <3>1, <3>3 DEF X
  <2>3. QED
    BY <2>1, <2>2
<1> HIDE DEF replicated, Y
<1>14. Fits(c, k, select, i, Ids(Y))
  <2> DEFINE m == 4
             op == "select"
             v == i.width
             args == <<Last(replicated).id, i.args[1], load.id>>
             ids == Ids(Y)
  <2>1. select = New(i, Id(i, m), op, v, args)
    BY DEF LoadEM
  <2>2. m \in 0 .. 4 /\ op \in {"em", "and", "select", "replicate", "load"} /\ Id(i, m) \notin ids
        /\ v \in Nat
    BY <1>1, <1>4, <1>5, <1>13
  <2>3. args \in Seq(Int) /\ Range(args) = {Last(replicated).id, i.args[1], load.id}
    <3>1. Last(replicated).id \in Int /\ i.args[1] \in Int /\ load.id \in Int
      BY <1>1, <1>3, <1>4, <1>5, <1>13
    <3>2. QED
      BY <3>1 DEF Range
  <2>4. op = "load" => Len(args) = 1 /\ args[1] \notin MaskVariables
    OBVIOUS
  <2>5. \A x \in Range(args) : Defined(c, k, x) \/ x \in ids
    BY <1>6, <1>13, <2>3
  <2> HIDE DEF i, m, op, v, args, ids, select
  <2>7. Fits(c, k, New(i, Id(i, m), op, v, args), i, ids)
    BY <1>1, <1>2, <2>2, <2>3, <2>4, <2>5, NewFits, ZenonT(60)
  <2>8. QED
    BY <2>1, <2>7 DEF ids
<1> HIDE DEF select
<1> DEFINE j == Len(Z)
           one == 1
<1>15. Ready(c, k, Z, i) /\ j \in 1 .. Len(Z) /\ Z[j] = select
  <2>1. Y \in Seq(Instruction) /\ select \in Instruction
    BY <1>13, <1>14 DEF Ready, Addable, Fits
  <2>2. Z = Append(Y, select)
    <3> HIDE DEF i
    <3>1. QED
      BY <2>1, JoinOne
  <2> HIDE DEF Z, i
  <2>3. Ready(c, k, Append(Y, select), i)
    BY <1>13, <1>14, ReadyMore
  <2>4. /\ Append(Y, select) \in Seq(Instruction) /\ Len(Append(Y, select)) = Len(Y) + 1
        /\ Append(Y, select)[Len(Y) + 1] = select /\ Len(Y) \in Nat
    BY <2>1, AppendProperties, LenProperties
  <2>5. QED
    BY <2>2, <2>3, <2>4
<1>16. k \in k .. Len(c) /\ one \in Nat
  OBVIOUS
<1> HIDE DEF j, one, Z
<1>17. Alters(c, SetArg(Insert(c, c[k].id, Z), c[k].id, one, Z[j].id), i, {})
  <2> HIDE DEF i
  <2>1. QED
    BY <1>15, <1>16, NewValueAlters
<1>18. SelectedIn(c, i, existing, w, n) = SetArg(Insert(c, i.id, Z), i.id, one, select.id)
  BY DEF SelectedIn, load, em, both, mask, rep, replicated, select, Y, Z, one
<1>19. QED
  BY <1>15, <1>17, <1>18

LEMMA AltersMore ==
  ASSUME NEW c, NEW d, NEW i, NEW G, NEW H, Alters(c, d, i, G), G \subseteq H
  PROVE  Alters(c, d, i, H)
BY DEF Alters, Comes

LEMMA EraseUnusedAlters ==
  ASSUME NEW c, Coded(c), NEW k \in 1 .. Len(c), ~Masking(c[k]), NEW d, NEW i,
         Alters(c, d, i, {}), Unused(d, c[k].id)
  PROVE  Alters(c, Erase(d, c[k].id), i, {c[k].id})
<1>1. Coded(d) /\ MasksClosed(d) /\ SameMasks(c, d) /\ Comes(c, d, i, {})
  BY DEF Alters
<1>2. PICK p \in 1 .. Len(d) : d[p].id = c[k].id
  BY <1>1 DEF Comes
<1>3. ~Masking(d[p])
  <2>1. SUFFICES ASSUME Masking(d[p]) PROVE FALSE
    OBVIOUS
  <2>2. PICK n \in 1 .. Len(c) : c[n] = d[p]
    BY <1>1, <2>1 DEF SameMasks
  <2>3. n = k
    BY <1>2, <2>2 DEF Coded
  <2>4. QED
    BY <2>1, <2>2, <2>3
<1>4. Alters(d, Erase(d, d[p].id), i, {d[p].id})
  <2>1. Unused(d, d[p].id)
    BY <1>2
  <2>2. QED
    BY <1>1, <1>3, <2>1, EraseAlters
<1>5. Alters(d, Erase(d, c[k].id), i, {c[k].id})
  BY <1>2, <1>4
<1>6. Alters(c, Erase(d, c[k].id), i, {} \cup {c[k].id})
  BY <1>5, AltersFollow
<1>7. {} \cup {c[k].id} = {c[k].id}
  OBVIOUS
<1>8. QED
  BY <1>6, <1>7

\* The code of PredicateWrRegion.
WrRegionIn(c, i, inst, update, slot, w) ==
  LET em == LoadEM(i, Id(inst, 1), w)
      both == New(i, Id(inst, 2), "and", w, <<em.id, i.pred>>)
      mask == IF i.pred = AllOnes THEN <<em>> ELSE <<em, both>>
      new == [i EXCEPT !.id = Id(inst, 0), !.pred = Last(mask).id]
      changed == SetArg(Insert(c, i.id, mask \o <<new>>), update, slot, new.id)
  IN  IF Unused(changed, i.id) THEN Erase(changed, i.id) ELSE changed

LEMMA WrRegionAlters ==
  ASSUME NEW c, Coded(c), MasksClosed(c), NEW k \in 1 .. Len(c), NEW w \in Nat, NEW inst,
         c[k].op = "wrregion", \A j \in 0 .. 4 : Fresh(c, inst, j),
         NEW u \in k .. Len(c), ~Masking(c[u]), NEW slot \in Nat
  PROVE  Alters(c, WrRegionIn(c, c[k], inst, c[u].id, slot, w), inst, {c[k].id})
<1> DEFINE i == c[k]
           em == LoadEM(i, Id(inst, 1), w)
           both == New(i, Id(inst, 2), "and", w, <<em.id, i.pred>>)
           mask == IF i.pred = AllOnes THEN <<em>> ELSE <<em, both>>
           new == [i EXCEPT !.id = Id(inst, 0), !.pred = Last(mask).id]
           s == mask \o <<new>>
           changed == SetArg(Insert(c, i.id, s), c[u].id, slot, new.id)
<1>1. i \in Instruction /\ Shaped(i) /\ i.bb \in Nat /\ i.pred \in Int /\ ~Masking(i)
      /\ i.op = "wrregion"
  <2>1. i \in Instruction /\ Shaped(i)
    BY ElementOfSeq DEF Coded
  <2>2. QED
    BY <2>1 DEF Instruction, MasksClosed
<1>2. i.pred # AllOnes => Defined(c, k, i.pred)
  <2>1. i.pred \notin {NoPred, ScalarOne}
    BY <1>1 DEF Shaped
  <2>2. QED
    BY <2>1 DEF Coded, Operands
<1>3. em.id = Id(inst, 1) /\ both.id = Id(inst, 2)
  BY DEF LoadEM, New
<1>4. 0 \in 0 .. 4 /\ 1 \in 0 .. 4 /\ 2 \in 0 .. 4
  OBVIOUS
<1>5. inst.id \in 1 .. IdStep - 1 /\ \A j \in 0 .. 4 : Fresh(c, inst, j)
  BY <1>4 DEF Fresh
<1>6. \A m, j \in 0 .. 4 : Id(inst, m) \in Nat /\ (Id(inst, m) = Id(inst, j) => m = j)
  BY <1>5, IdsApart
<1>7. \A j \in 0 .. 4 : Id(inst, j) \in Nat \ {0}
  <2> TAKE j \in 0 .. 4
  <2>1. Id(inst, j) \in Made(inst.id)
    BY DEF Id, Made
  <2>2. QED
    BY <1>5, <2>1, MadeIds
<1>8. Fits(c, k, em, inst, {})
  <2> DEFINE m == 1
             op == "em"
             args == <<>>
             ids == {}
  <2>1. em = New(i, Id(inst, m), op, w, args)
    BY DEF LoadEM
  <2>2. /\ m \in 0 .. 4 /\ op \in {"em", "and", "select", "replicate", "load"} /\ op # "load"
        /\ args \in Seq(Int) /\ Range(args) = {} /\ Id(inst, m) \notin ids
    BY DEF Range
  <2>3. \A x \in Range(args) : Defined(c, k, x) \/ x \in ids
    BY <2>2
  <2> HIDE DEF i, m, op, args, ids, em
  <2>4. Fits(c, k, New(i, Id(inst, m), op, w, args), inst, ids)
    BY <1>1, <1>5, <2>2, <2>3, NewFits
  <2>5. QED
    BY <2>1, <2>4 DEF ids
<1>9. ASSUME i.pred # AllOnes PROVE Fits(c, k, both, inst, {em.id})
  <2> DEFINE m == 2
             op == "and"
             args == <<em.id, i.pred>>
             ids == {em.id}
  <2>1. both = New(i, Id(inst, m), op, w, args)
    OBVIOUS
  <2>2. /\ m \in 0 .. 4 /\ op \in {"em", "and", "select", "replicate", "load"} /\ op # "load"
        /\ Id(inst, m) \notin ids
    BY <1>3, <1>4, <1>6, SMTT(30)
  <2>3. args \in Seq(Int) /\ Range(args) = {em.id, i.pred}
    <3>1. em.id \in Int
      BY <1>3, <1>4, <1>6, SMTT(30)
    <3> HIDE DEF em, i
    <3>2. QED
      BY <1>1, <3>1, SMTT(30) DEF Range
  <2>4. \A x \in Range(args) : Defined(c, k, x) \/ x \in ids
    BY <1>2, <1>9, <2>3
  <2> HIDE DEF i, m, op, args, ids, em, both
  <2>5. Fits(c, k, New(i, Id(inst, m), op, w, args), inst, ids)
    BY <1>1, <1>5, <2>2, <2>3, <2>4, NewFits
  <2>6. QED
    BY <2>1, <2>5 DEF ids
<1> HIDE DEF em, both
<1>10. ASSUME NEW p \in Nat \ {0}, NEW ids, p \in ids, Id(inst, 0) \notin ids,
              new = [i EXCEPT !.id = Id(inst, 0), !.pred = p]
       PROVE  Fits(c, k, new, inst, ids) /\ new.id = Id(inst, 0)
  <2> DEFINE x == Id(inst, 0)
  <2>1. x \in Nat \ {0} /\ x \in Int /\ p \in Int
    BY <1>4, <1>7
  <2>2. new = [i EXCEPT !.id = x, !.pred = p]
    BY <1>10
  <2> HIDE DEF x, new
  <2>3. /\ new \in Instruction /\ new.id = x /\ new.op = i.op /\ new.bb = i.bb
        /\ new.args = i.args /\ new.pred = p
    <3> HIDE DEF i
    <3>1. QED
      BY <1>1, <2>1, <2>2 DEF Instruction
  <2>4. /\ new.pred \notin {NoPred, ScalarOne} /\ new.pred \in ids
        /\ \A y \in Operands(i) : Defined(c, k, y)
    BY <1>10, <2>3, SMTT(30) DEF NoPred, ScalarOne, Coded
  <2>5. Fresh(c, inst, 0)
    BY <1>4, <1>5
  <2> HIDE DEF i
  <2>9. i.op = "wrregion" \/ (i.op \in Sends /\ i.bb = inst.bb)
    BY <1>1 DEF i
  <2>6. /\ new \in Instruction /\ new.id = Id(inst, 0) /\ new.op = i.op /\ new.bb = i.bb
        /\ new.args = i.args /\ Id(inst, 0) \notin ids /\ Shaped(i) /\ ~Masking(i)
        /\ new.pred = AllOnes \/ Defined(c, k, new.pred) \/ new.pred \in ids
    <3>1. x = Id(inst, 0)
      BY DEF x
    <3>2. Id(inst, 0) \notin ids
      BY <1>10
    <3>3. Shaped(i) /\ ~Masking(i)
      BY <1>1
    <3>4. QED
      BY <2>3, <2>4, <3>1, <3>2, <3>3
  <2>7. Fits(c, k, new, inst, ids)
    <3> DEFINE b == new
    <3>1. /\ b \in Instruction /\ b.id = Id(inst, 0) /\ b.op = i.op /\ b.bb = i.bb
          /\ b.args = i.args /\ b.pred \notin {NoPred, ScalarOne}
          /\ b.pred = AllOnes \/ Defined(c, k, b.pred) \/ b.pred \in ids
      BY <2>4, <2>6
    <3>2. Fits(c, k, b, inst, ids)
      <4> HIDE DEF b
      <4>1. QED
        BY <2>4, <2>5, <2>6, <2>9, <3>1, CopyFits, Zenon
    <3>3. QED
      BY <3>2
  <2>8. QED
    BY <2>6, <2>7
<1>11. Ready(c, k, s, inst) /\ Len(s) \in Nat \ {0} /\ s[Len(s)] = new
  <2>1. CASE i.pred = AllOnes
    <3>1. Last(mask) = em /\ s = <<em>> \o <<new>>
      BY <2>1 DEF Last
    <3>2. Fits(c, k, new, inst, {em.id})
      <4>1. em.id \in Nat \ {0} /\ Id(inst, 0) \notin {em.id}
        BY <1>3, <1>4, <1>6, <1>7
      <4>2. new = [i EXCEPT !.id = Id(inst, 0), !.pred = em.id]
        BY <3>1
      <4> HIDE DEF new, i
      <4>3. QED
        BY <1>10, <4>1, <4>2
    <3> HIDE DEF new, i, s
    <3>3. Ready(c, k, <<em, new>>, inst)
      BY <1>8, <3>2, ReadyTwo
    <3>4. em \in Instruction /\ new \in Instruction
      BY <1>8, <3>2 DEF Fits
    <3>5. <<em>> \o <<new>> = <<em, new>>
      <4>1. <<em>> \in Seq(Instruction)
        BY <3>4
      <4>2. <<em>> \o <<new>> = Append(<<em>>, new)
        BY <3>4, <4>1, JoinOne
      <4>3. QED
        BY <3>4, <4>2, AppendTwo
    <3>6. Len(<<em, new>>) = 2 /\ <<em, new>>[2] = new
      OBVIOUS
    <3>7. s = <<em, new>>
      BY <3>1, <3>5
    <3>8. QED
      BY <3>3, <3>6, <3>7
  <2>2. CASE i.pred # AllOnes
    <3>1. Last(mask) = both /\ s = <<em, both>> \o <<new>>
      BY <2>2 DEF Last
    <3>2. Fits(c, k, both, inst, {em.id})
      BY <1>9, <2>2
    <3>3. Fits(c, k, new, inst, {em.id, both.id})
      <4>1. both.id \in Nat \ {0} /\ Id(inst, 0) \notin {em.id, both.id}
        BY <1>3, <1>4, <1>6, <1>7
      <4>2. new = [i EXCEPT !.id = Id(inst, 0), !.pred = both.id]
        BY <3>1
      <4> HIDE DEF new, i
      <4>3. QED
        BY <1>10, <4>1, <4>2
    <3> HIDE DEF new, i, s
    <3>4. Ready(c, k, <<em, both, new>>, inst)
      BY <1>8, <3>2, <3>3, ReadyThree
    <3>5. em \in Instruction /\ new \in Instruction /\ both \in Instruction
      BY <1>8, <3>2, <3>3 DEF Fits
    <3>6. <<em, both>> \o <<new>> = <<em, both, new>>
      <4>1. <<em, both>> \in Seq(Instruction)
        BY <3>5
      <4>2. <<em, both>> \o <<new>> = Append(<<em, both>>, new)
        BY <3>5, <4>1, JoinOne
      <4>3. QED
        BY <3>5, <4>2, AppendThree
    <3>7. Len(<<em, both, new>>) = 3 /\ <<em, both, new>>[3] = new
      OBVIOUS
    <3>8. s = <<em, both, new>>
      BY <3>1, <3>6
    <3>9. QED
      BY <3>4, <3>7, <3>8
  <2>3. QED
    BY <2>1, <2>2
<1> DEFINE j == Len(s)
<1>12. Ready(c, k, s, inst) /\ j \in 1 .. Len(s) /\ s[j].id = new.id
  <2> HIDE DEF s, new
  <2>1. QED
    BY <1>11
<1> HIDE DEF s, j, new
<1>13. Alters(c, SetArg(Insert(c, c[k].id, s), c[u].id, slot, s[j].id), inst, {})
  <2>1. ~Masking(c[k])
    BY <1>1
  <2> HIDE DEF i
  <2>2. QED
    BY <1>12, <2>1, NewValueAlters
<1>14. Alters(c, changed, inst, {})
  BY <1>12, <1>13
<1> HIDE DEF changed
<1>15. WrRegionIn(c, i, inst, c[u].id, slot, w)
         = IF Unused(changed, i.id) THEN Erase(changed, i.id) ELSE changed
  BY DEF WrRegionIn, changed, em, both, s, new
<1>16. CASE Unused(changed, i.id)
  <2>1. Alters(c, Erase(changed, c[k].id), inst, {c[k].id})
    BY <1>1, <1>14, <1>16, EraseUnusedAlters
  <2>2. QED
    BY <1>15, <1>16, <2>1
<1>17. CASE ~Unused(changed, i.id)
  <2>1. {} \subseteq {c[k].id}
    OBVIOUS
  <2>2. Alters(c, changed, inst, {c[k].id})
    BY <1>14, <2>1, AltersMore
  <2>3. QED
    BY <1>15, <1>17, <2>2
<1>18. QED
  BY <1>16, <1>17

-----------------------------------------------------------------------------
(* The walk back from a store.                                             *)

\* Where the walk from the store at place k may be.
WalkStates(c, k) ==
  {w \in [v : Int, user : Int, wr : Int, update : Int,
          out : {"walk", "stop", "gather", "leave", "assert"}] :
     /\ \E u \in 1 .. k : c[u].id = w.user /\ ~Masking(c[u]) /\ Defined(c, u, w.v)
     /\ \/ w.wr = 0
        \/ \E p \in 1 .. k - 1 :
             /\ c[p].id = w.wr /\ c[p].op = "wrregion"
             /\ \E u \in p + 1 .. k : c[u].id = w.update /\ ~Masking(c[u])
             /\ \/ w.v = c[p].args[NewValue]
                \/ \E q \in 1 .. p - 1 :
                     /\ c[q].id = c[p].args[NewValue] /\ c[q].op = "bitcast"
                     /\ Defined(c, q, w.v)
     /\ w.out = "gather" => InstrIn(c, w.v).op \in MaskedGathers}

\* What a value is: an argument or an instruction before.
LEMMA DefinedInstr ==
  ASSUME NEW c, Coded(c), NEW u \in 1 .. Len(c) + 1, NEW x, Defined(c, u, x)
  PROVE  \/ x \in Given /\ InstrIn(c, x) = [id |-> x, op |-> "argument"]
         \/ \E m \in 1 .. u - 1 : m \in 1 .. Len(c) /\ c[m].id = x /\ InstrIn(c, x) = c[m]
<1>1. Len(c) \in Nat /\ DOMAIN c = 1 .. Len(c)
  BY LenProperties DEF Coded
<1>2. CASE x \in Given
  <2>1. x \notin Ids(c)
    BY <1>1, <1>2 DEF Ids, Coded
  <2>2. QED
    BY <1>2, <2>1 DEF InstrIn
<1>3. CASE x \notin Given
  <2>1. PICK m \in 1 .. u - 1 : c[m].id = x
    BY <1>3 DEF Defined
  <2>2. m \in 1 .. Len(c)
    BY <1>1
  <2>3. InstrIn(c, c[m].id) = c[m]
    BY <2>2, InstrFound
  <2>4. QED
    BY <2>1, <2>2, <2>3
<1>4. QED
  BY <1>2, <1>3

LEMMA DefinedLater ==
  ASSUME NEW c, NEW k \in Nat, NEW n \in Nat, k <= n, NEW x, Defined(c, k, x)
  PROVE  Defined(c, n, x)
BY DEF Defined

\* An argument of the instruction at place m.
LEMMA ArgDefined ==
  ASSUME NEW c, Coded(c), NEW m \in 1 .. Len(c), NEW n \in 1 .. Len(c[m].args)
  PROVE  c[m].args[n] \in Int /\ Defined(c, m, c[m].args[n])
<1>1. c[m] \in Instruction
  BY ElementOfSeq DEF Coded
<1>2. c[m].args \in Seq(Int)
  BY <1>1 DEF Instruction
<1>3. c[m].args[n] \in Operands(c[m]) /\ c[m].args[n] \in Int
  <2>1. DOMAIN c[m].args = 1 .. Len(c[m].args) /\ c[m].args[n] \in Int
    BY <1>2, LenProperties, ElementOfSeq
  <2>2. QED
    BY <2>1 DEF Operands, Range
<1>4. QED
  BY <1>3 DEF Coded

LEMMA WalkStays ==
  ASSUME Coded(code), MasksClosed(code), NEW k \in 1 .. Len(code), NEW w \in WalkStates(code, k)
  PROVE  WalkOver(w) \in WalkStates(code, k)
<1> DEFINE i == Instr(w.v)
           width == IF i.op = "wrregion" THEN WidthOf(i.args[NewValue]) ELSE 0
           S == [v : Int, user : Int, wr : Int, update : Int,
                 out : {"walk", "stop", "gather", "leave", "assert"}]
<1>1. w \in S
  BY DEF WalkStates
<1>2. Len(code) \in Nat
  BY LenProperties DEF Coded
<1>3. PICK u \in 1 .. k : code[u].id = w.user /\ ~Masking(code[u]) /\ Defined(code, u, w.v)
  BY DEF WalkStates
<1>4. u \in 1 .. Len(code) /\ u \in Nat
  BY <1>2
<1>5. \/ w.v \in Given /\ i = [id |-> w.v, op |-> "argument"]
      \/ \E m \in 1 .. u - 1 : m \in 1 .. Len(code) /\ code[m].id = w.v /\ i = code[m]
  <2>1. u \in 1 .. Len(code) + 1
    BY <1>2, <1>4
  <2>2. QED
    BY <1>3, <2>1, DefinedInstr DEF Instr
<1> HIDE DEF i
<1>6. ASSUME NEW out \in {"stop", "gather", "leave", "assert"}, out = "gather" => i.op \in MaskedGathers
      PROVE  [w EXCEPT !.out = out] \in WalkStates(code, k)
  <2> DEFINE x == [w EXCEPT !.out = out]
  <2>1. x \in S /\ x.v = w.v /\ x.user = w.user /\ x.wr = w.wr /\ x.update = w.update
        /\ x.out = out
    BY <1>1
  <2> HIDE DEF x, S
  <2>2. out = "gather" => InstrIn(code, w.v).op \in MaskedGathers
    BY <1>6 DEF i, Instr
  <2>3. x \in WalkStates(code, k)
    BY <2>1, <2>2 DEF WalkStates, S
  <2>4. QED
    BY <2>3 DEF x
<1>7. CASE w.out # "walk"
  <2>1. WalkOver(w) = w
    BY <1>7 DEF WalkOver
  <2>2. QED
    BY <2>1
<1>8. CASE w.out = "walk" /\ i.op \in MaskedGathers
  <2>1. WalkOver(w) = [w EXCEPT !.out = "gather"]
    BY <1>8 DEF WalkOver, i, MaskedGathers
  <2>2. QED
    BY <1>6, <1>8, <2>1
<1>9. CASE w.out = "walk" /\ i.op \notin MaskedGathers \cup {"bitcast", "wrregion"}
  <2>1. WalkOver(w) = [w EXCEPT !.out = IF i.id \in AlreadyPredicated THEN "leave" ELSE "stop"]
    BY <1>9 DEF WalkOver, i, MaskedGathers
  <2>2. QED
    BY <1>6, <2>1
<1>10. CASE w.out = "walk" /\ i.op = "wrregion" /\ width # SimdWidth
  <2>1. WalkOver(w) = [w EXCEPT !.out = IF width = 1 THEN "leave"
                                        ELSE IF width < SimdWidth THEN "stop" ELSE "assert"]
    BY <1>10 DEF WalkOver, i, MaskedGathers
  <2> HIDE DEF width
  <2>2. QED
    BY <1>6, <2>1
<1>11. CASE w.out = "walk" /\ i.op = "bitcast"
  <2>1. WalkOver(w) = [w EXCEPT !.v = i.args[1], !.user = i.id]
    BY <1>11 DEF WalkOver, i, MaskedGathers
  <2>2. PICK m \in 1 .. u - 1 : m \in 1 .. Len(code) /\ code[m].id = w.v /\ i = code[m]
    BY <1>5, <1>11
  <2>3. Len(i.args) = 1 /\ 1 \in 1 .. Len(code[m].args)
    <3>1. Shaped(code[m]) /\ code[m].op = "bitcast"
      BY <1>11, <2>2 DEF Coded
    <3>2. Len(code[m].args) = 1
      BY <3>1 DEF Shaped
    <3>3. QED
      BY <2>2, <3>2
  <2> DEFINE y == i.args[1]
             x == [w EXCEPT !.v = y, !.user = i.id]
  <2>4. y \in Int /\ Defined(code, m, y)
    BY <2>2, <2>3, ArgDefined
  <2>5. i.id \in Int
    BY <1>1, <2>2
  <2> HIDE DEF y
  <2>6. x \in S /\ x.v = y /\ x.user = i.id /\ x.wr = w.wr /\ x.update = w.update /\ x.out = "walk"
    BY <1>1, <1>11, <2>4, <2>5
  <2> HIDE DEF x, S
  <2>7. m \in 1 .. k /\ code[m].id = x.user /\ ~Masking(code[m]) /\ Defined(code, m, x.v)
    <3>1. m \in 1 .. k
      BY <1>4
    <3>2. ~Masking(code[m])
      BY <1>11, <2>2 DEF MasksClosed
    <3>3. QED
      BY <2>2, <2>4, <2>6, <3>1, <3>2
  <2>8. ASSUME w.wr # 0
        PROVE  \E p \in 1 .. k - 1 :
                 /\ code[p].id = w.wr /\ code[p].op = "wrregion"
                 /\ \E a \in p + 1 .. k : code[a].id = w.update /\ ~Masking(code[a])
                 /\ \E q \in 1 .. p - 1 :
                      /\ code[q].id = code[p].args[NewValue] /\ code[q].op = "bitcast"
                      /\ Defined(code, q, y)
    <3>1. PICK p \in 1 .. k - 1 :
                 /\ code[p].id = w.wr /\ code[p].op = "wrregion"
                 /\ \E a \in p + 1 .. k : code[a].id = w.update /\ ~Masking(code[a])
                 /\ \/ w.v = code[p].args[NewValue]
                    \/ \E q \in 1 .. p - 1 :
                         /\ code[q].id = code[p].args[NewValue] /\ code[q].op = "bitcast"
                         /\ Defined(code, q, w.v)
      BY <2>8 DEF WalkStates
    <3>2. p \in 1 .. Len(code) /\ p \in Nat
      BY <1>2
    <3>3. w.v \notin Given
      BY <2>2 DEF Coded
    <3>4. CASE w.v = code[p].args[NewValue]
      <4>1. NewValue \in 1 .. Len(code[p].args)
        BY <3>1, <3>2, SMTT(30) DEF Coded, Shaped, NewValue
      <4>2. Defined(code, p, w.v)
        BY <3>2, <3>4, <4>1, ArgDefined
      <4>3. PICK q \in 1 .. p - 1 : code[q].id = w.v
        BY <3>3, <4>2 DEF Defined
      <4>4. q \in 1 .. Len(code)
        BY <1>2, <3>2
      <4>5. q = m
        BY <2>2, <4>3, <4>4 DEF Coded
      <4>6. QED
        BY <1>11, <2>2, <2>4, <3>1, <3>4, <4>3, <4>5
    <3>5. CASE w.v # code[p].args[NewValue]
      <4>1. PICK q \in 1 .. p - 1 :
                   /\ code[q].id = code[p].args[NewValue] /\ code[q].op = "bitcast"
                   /\ Defined(code, q, w.v)
        BY <3>1, <3>5
      <4>2. PICK n \in 1 .. q - 1 : code[n].id = w.v
        BY <3>3, <4>1 DEF Defined
      <4>3. n \in 1 .. Len(code)
        BY <1>2, <3>2
      <4>4. n = m
        BY <2>2, <4>2, <4>3 DEF Coded
      <4>5. m \in Nat /\ q \in Nat /\ m <= q
        BY <4>2, <4>4
      <4>6. Defined(code, q, y)
        BY <2>4, <4>5, DefinedLater
      <4>7. QED
        BY <3>1, <4>1, <4>6
    <3>6. QED
      BY <3>4, <3>5
  <2>9. x \in WalkStates(code, k)
    BY <2>6, <2>7, <2>8, ZenonT(60) DEF WalkStates, S
  <2>10. QED
    BY <2>1, <2>9 DEF x, y
<1>12. CASE w.out = "walk" /\ i.op = "wrregion" /\ width = SimdWidth
  <2> DEFINE y == i.args[NewValue]
             b == IF w.wr = 0 THEN w.user ELSE UserOfNewValue(w.wr)
             o == IF i.pred = AllOnes THEN "walk" ELSE "stop"
             x == [w EXCEPT !.wr = i.id, !.v = y, !.update = b, !.out = o]
  <2>1. WalkOver(w) = x
    BY <1>12 DEF WalkOver, i, MaskedGathers
  <2>2. PICK m \in 1 .. u - 1 : m \in 1 .. Len(code) /\ code[m].id = w.v /\ i = code[m]
    BY <1>5, <1>12
  <2>3. NewValue \in 1 .. Len(code[m].args)
    BY <1>12, <2>2 DEF Coded, Shaped, NewValue
  <2>4. y \in Int /\ Defined(code, m, y)
    BY <2>2, <2>3, ArgDefined
  <2>5. m \in 1 .. k - 1 /\ m \in Nat
    BY <1>4
  <2>6. \E a \in m + 1 .. k : code[a].id = b /\ ~Masking(code[a])
    <3>1. CASE w.wr = 0
      <4>1. u \in m + 1 .. k /\ b = w.user
        BY <3>1, <2>5
      <4>2. QED
        BY <1>3, <4>1
    <3>2. CASE w.wr # 0
      <4>1. PICK p \in 1 .. k - 1 :
                 /\ code[p].id = w.wr /\ code[p].op = "wrregion"
                 /\ \/ w.v = code[p].args[NewValue]
                    \/ \E q \in 1 .. p - 1 :
                         /\ code[q].id = code[p].args[NewValue] /\ code[q].op = "bitcast"
                         /\ Defined(code, q, w.v)
        BY <3>2 DEF WalkStates
      <4>2. p \in 1 .. Len(code) /\ p \in Nat
        BY <1>2
      <4>3. w.v \notin Given
        BY <2>2 DEF Coded
      <4>4. Instr(w.wr) = code[p]
        BY <4>1, <4>2, InstrFound DEF Instr
      <4>5. CASE w.v = code[p].args[NewValue]
        <5>1. NewValue \in 1 .. Len(code[p].args)
          BY <4>1, <4>2 DEF Coded, Shaped, NewValue
        <5>2. Defined(code, p, w.v)
          BY <4>2, <4>5, <5>1, ArgDefined
        <5>3. PICK q \in 1 .. p - 1 : code[q].id = w.v
          BY <4>3, <5>2 DEF Defined
        <5>4. q \in 1 .. Len(code)
          BY <1>2, <4>2
        <5>5. q = m
          BY <2>2, <5>3, <5>4 DEF Coded
        <5>6. p \in m + 1 .. k
          BY <4>2, <5>3, <5>5, <2>5
        <5>7. b = w.wr
          BY <1>12, <3>2, <4>4, <4>5 DEF UserOfNewValue, i
        <5>8. ~Masking(code[p])
          BY <4>1, <4>2 DEF MasksClosed
        <5>9. QED
          BY <4>1, <5>6, <5>7, <5>8
      <4>6. CASE w.v # code[p].args[NewValue]
        <5>1. PICK q \in 1 .. p - 1 :
                     /\ code[q].id = code[p].args[NewValue] /\ code[q].op = "bitcast"
                     /\ Defined(code, q, w.v)
          BY <4>1, <4>6
        <5>2. PICK n \in 1 .. q - 1 : code[n].id = w.v
          BY <4>3, <5>1 DEF Defined
        <5>3. n \in 1 .. Len(code) /\ q \in 1 .. Len(code)
          BY <1>2, <4>2
        <5>4. n = m
          BY <2>2, <5>2, <5>3 DEF Coded
        <5>5. q \in m + 1 .. k
          BY <4>2, <5>2, <5>4, <2>5
        <5>6. Instr(code[p].args[NewValue]) = code[q]
          BY <5>1, <5>3, InstrFound DEF Instr
        <5>7. b = code[q].id
          BY <3>2, <4>4, <5>1, <5>6 DEF UserOfNewValue
        <5>8. ~Masking(code[q])
          BY <5>1, <5>3 DEF MasksClosed
        <5>9. QED
          BY <5>5, <5>7, <5>8
      <4>7. QED
        BY <4>5, <4>6
    <3>3. QED
      BY <3>1, <3>2
  <2>7. PICK a \in m + 1 .. k : code[a].id = b /\ ~Masking(code[a])
    BY <2>6
  <2>8. b \in Int /\ i.id \in Int
    <3>1. a \in 1 .. Len(code)
      BY <1>2, <2>5
    <3>2. code[a] \in Instruction
      BY <3>1, ElementOfSeq DEF Coded
    <3>3. QED
      BY <1>1, <2>2, <2>7, <3>2, SMTT(30) DEF Instruction
  <2>9. o \in {"walk", "stop"}
    OBVIOUS
  <2> HIDE DEF y, b, o
  <2>10. x \in S /\ x.v = y /\ x.user = w.user /\ x.wr = i.id /\ x.update = b /\ x.out = o
    BY <1>1, <2>4, <2>8, <2>9
  <2> HIDE DEF x, S
  <2>11. Defined(code, u, x.v)
    <3>1. m <= u
      BY <1>4
    <3>2. Defined(code, u, y)
      BY <1>4, <2>4, <2>5, <3>1, DefinedLater
    <3>3. QED
      BY <2>10, <3>2
  <2>12. /\ code[m].id = x.wr /\ code[m].op = "wrregion" /\ x.v = code[m].args[NewValue]
         /\ code[a].id = x.update /\ ~Masking(code[a])
    BY <1>12, <2>2, <2>7, <2>10 DEF y
  <2>13. x \in WalkStates(code, k)
    <3>1. x.out # "gather"
      BY <2>9, <2>10
    <3>2. \E e \in 1 .. k : code[e].id = x.user /\ ~Masking(code[e]) /\ Defined(code, e, x.v)
      BY <1>3, <2>10, <2>11
    <3>3. \E p \in 1 .. k - 1 :
             /\ code[p].id = x.wr /\ code[p].op = "wrregion"
             /\ \E e \in p + 1 .. k : code[e].id = x.update /\ ~Masking(code[e])
             /\ x.v = code[p].args[NewValue]
      BY <2>5, <2>12
    <3>4. QED
      BY <2>10, <3>1, <3>2, <3>3 DEF WalkStates, S
  <2>14. QED
    BY <2>1, <2>13 DEF x
<1>13. w.out = "walk" => \/ i.op \in MaskedGathers \/ i.op \notin MaskedGathers \cup {"bitcast", "wrregion"}
                         \/ i.op = "bitcast" \/ i.op = "wrregion"
  OBVIOUS
<1>14. QED
  BY <1>7, <1>8, <1>9, <1>10, <1>11, <1>12, <1>13

Walks(store, g) ==
  g = [n \in 0 .. Len(code) + 1 |->
         IF n = 0 THEN [v |-> store.args[1], user |-> store.id, wr |-> 0, update |-> 0,
                        out |-> "walk"]
         ELSE WalkOver(g[n - 1])]

LEMMA WalkIs ==
  ASSUME Coded(code), MasksClosed(code), NEW k \in 1 .. Len(code), code[k].op = "store",
         ~Masking(code[k])
  PROVE  Walk(code[k]) \in WalkStates(code, k)
<1> DEFINE N == Len(code) + 1
           V == WalkStates(code, k)
           base == [v |-> code[k].args[1], user |-> code[k].id, wr |-> 0, update |-> 0,
                    out |-> "walk"]
           step == [x \in (0 .. N) \X V |-> WalkOver(x[2])]
<1>1. Len(code) \in Nat
  BY LenProperties DEF Coded
<1>2. N \in Nat
  BY <1>1
<1>3. base \in V
  <2>1. Shaped(code[k]) /\ code[k] \in Instruction
    BY ElementOfSeq DEF Coded
  <2>2. Len(code[k].args) = 2
    BY <2>1 DEF Shaped, Writes
  <2>3. 1 \in 1 .. Len(code[k].args)
    BY <2>2
  <2>4. code[k].args[1] \in Int /\ Defined(code, k, code[k].args[1])
    BY <2>3, ArgDefined
  <2>5. code[k].id \in Int
    BY <2>1 DEF Instruction
  <2> DEFINE x == code[k].args[1]
             y == code[k].id
             b == [v |-> x, user |-> y, wr |-> 0, update |-> 0, out |-> "walk"]
  <2> HIDE DEF x
  <2>6. /\ b \in [v : Int, user : Int, wr : Int, update : Int,
                  out : {"walk", "stop", "gather", "leave", "assert"}]
        /\ b.v = x /\ b.user = y /\ b.wr = 0 /\ b.out = "walk"
    BY <2>4, <2>5 DEF x
  <2> HIDE DEF b, y
  <2>7. k \in 1 .. k
    OBVIOUS
  <2>8. \E u \in 1 .. k : code[u].id = b.user /\ ~Masking(code[u]) /\ Defined(code, u, b.v)
    BY <2>4, <2>6, <2>7 DEF x, y
  <2>9. b \in WalkStates(code, k)
    BY <2>6, <2>8 DEF WalkStates
  <2>10. QED
    BY <2>9 DEF b, x, y
<1>4. step \in [(0 .. N) \X V -> V]
  <2>1. \A w \in V : WalkOver(w) \in V
    BY WalkStays
  <2> HIDE DEF V
  <2>2. QED
    BY <2>1
<1>5. PICK g \in [0 .. N -> V] : Fold(g, N, base, step)
  <2> HIDE DEF N, V, base, step
  <2>1. QED
    BY <1>2, <1>3, <1>4, FoldExists
<1>6. ASSUME NEW n \in 0 .. N, n # 0
      PROVE  step[<<n, g[n - 1]>>] = WalkOver(g[n - 1])
  <2> HIDE DEF V, base
  <2>1. n - 1 \in 0 .. N /\ g[n - 1] \in V
    BY <1>2, <1>6
  <2>2. <<n, g[n - 1]>> \in (0 .. N) \X V
    BY <2>1
  <2>3. QED
    BY <2>2
<1>7. Walks(code[k], g)
  <2> HIDE DEF step
  <2>1. QED
    BY <1>5, <1>6 DEF Walks, Fold
<1> DEFINE W == CHOOSE h : Walks(code[k], h)
<1>8. Walk(code[k]) = W[N]
  BY DEF Walk, Walks
<1>9. Walks(code[k], W)
  BY <1>7
<1> DEFINE Q == {n \in Nat : n <= N => W[n] \in V}
<1> HIDE DEF W, V
<1>10. 0 \in Q
  BY <1>3, <1>9, <1>1 DEF Walks
<1>11. ASSUME NEW n \in Nat, n \in Q PROVE n + 1 \in Q
  <2>1. CASE n + 1 <= N
    <3>1. n + 1 \in 0 .. N /\ n + 1 # 0 /\ (n + 1) - 1 = n /\ n <= N
      BY <1>2, <2>1
    <3>2. W[n + 1] = WalkOver(W[n])
      BY <1>9, <3>1 DEF Walks
    <3>3. W[n] \in V
      BY <1>11, <3>1
    <3>4. WalkOver(W[n]) \in V
      BY <3>3, WalkStays DEF V
    <3>5. QED
      BY <3>2, <3>4
  <2>2. CASE ~(n + 1 <= N)
    BY <2>2
  <2>3. QED
    BY <2>1, <2>2
<1>12. N \in Q
  <2> HIDE DEF Q
  <2>1. Nat \subseteq Q
    BY <1>10, <1>11, NumberInduction
  <2>2. QED
    BY <1>2, <2>1
<1>13. QED
  BY <1>2, <1>8, <1>12 DEF V

-----------------------------------------------------------------------------
(* The elements of a sequence at some places.                              *)

Selections(s, K, g) ==
  g = [n \in 0 .. Len(s) |->
         IF n = 0 THEN <<>> ELSE IF n \in K THEN Append(g[n - 1], s[n]) ELSE g[n - 1]]

\* d has the elements of s at the places up to n that are in K, f leads to them.
Chosen(s, K, n, d, f) ==
  /\ f \in [1 .. Len(d) -> {m \in 1 .. n : m \in K}]
  /\ \A j \in 1 .. Len(d) : d[j] = s[f[j]]
  /\ \A i, j \in 1 .. Len(d) : i < j => f[i] < f[j]
  /\ \A m \in 1 .. n : m \in K => \E j \in 1 .. Len(d) : f[j] = m

LEMMA ChosenMore ==
  ASSUME NEW T, NEW s \in Seq(T), NEW K, NEW n \in 1 .. Len(s), n \in K,
         NEW d \in Seq(T), NEW f, Chosen(s, K, n - 1, d, f)
  PROVE  \E g : Chosen(s, K, n, Append(d, s[n]), g)
<1> DEFINE e == Append(d, s[n])
           g == [j \in 1 .. Len(e) |-> IF j = Len(d) + 1 THEN n ELSE f[j]]
<1>1. Len(d) \in Nat /\ Len(s) \in Nat
  BY LenProperties
<1>2. n \in Nat /\ n - 1 \in Nat /\ s[n] \in T
  BY <1>1, ElementOfSeq
<1>3. /\ Len(e) = Len(d) + 1
      /\ \A j \in 1 .. Len(e) : e[j] = IF j = Len(d) + 1 THEN s[n] ELSE d[j]
  BY <1>1, <1>2, AppendProperties
<1> HIDE DEF e
<1>4. \A j \in 1 .. Len(e) : j # Len(d) + 1 => j \in 1 .. Len(d)
  BY <1>1, <1>3
<1>5. \A j \in 1 .. Len(d) : f[j] \in 1 .. n - 1 /\ f[j] \in K /\ j \in 1 .. Len(e) /\ g[j] = f[j]
  BY <1>1, <1>3 DEF Chosen
<1>6. Len(d) + 1 \in 1 .. Len(e) /\ g[Len(d) + 1] = n
  BY <1>1, <1>3
<1>7. \A j \in 1 .. Len(e) : g[j] \in 1 .. n /\ g[j] \in K
  <2> HIDE DEF g
  <2>1. \A m \in 1 .. n - 1 : m \in 1 .. n
    BY <1>2
  <2>2. n \in 1 .. n
    BY <1>2
  <2>3. QED
    BY <1>4, <1>5, <1>6, <2>1, <2>2
<1>8. g \in [1 .. Len(e) -> {m \in 1 .. n : m \in K}]
  BY <1>7
<1>9. \A j \in 1 .. Len(e) : e[j] = s[g[j]]
  <2> SUFFICES ASSUME NEW j \in 1 .. Len(e) PROVE e[j] = s[g[j]]
    OBVIOUS
  <2>1. CASE j = Len(d) + 1
    BY <2>1, <1>3, <1>6
  <2>2. CASE j # Len(d) + 1
    <3>1. j \in 1 .. Len(d)
      BY <2>2, <1>4
    <3>2. e[j] = d[j] /\ g[j] = f[j] /\ d[j] = s[f[j]]
      BY <2>2, <3>1, <1>3, <1>5 DEF Chosen
    <3>3. QED
      BY <3>2
  <2>3. QED
    BY <2>1, <2>2
<1>10. \A i, j \in 1 .. Len(e) : i < j => g[i] < g[j]
  <2> SUFFICES ASSUME NEW i \in 1 .. Len(e), NEW j \in 1 .. Len(e), i < j PROVE g[i] < g[j]
    OBVIOUS
  <2>0. i # Len(d) + 1
    BY <1>1, <1>3
  <2> HIDE DEF g
  <2>1. i \in 1 .. Len(d) /\ g[i] = f[i] /\ f[i] \in 1 .. n - 1
    BY <1>4, <1>5, <2>0
  <2>2. CASE j = Len(d) + 1
    BY <2>1, <2>2, <1>2, <1>6
  <2>3. CASE j # Len(d) + 1
    BY <2>1, <2>3, <1>4, <1>5 DEF Chosen
  <2>4. QED
    BY <2>2, <2>3
<1>11. ASSUME NEW m \in 1 .. n, m \in K PROVE \E j \in 1 .. Len(e) : g[j] = m
  <2>1. CASE m = n
    BY <2>1, <1>6
  <2>2. CASE m # n
    <3>1. m \in 1 .. n - 1
      BY <2>2, <1>2
    <3>2. PICK j \in 1 .. Len(d) : f[j] = m
      BY <3>1, <1>11 DEF Chosen
    <3>3. QED
      BY <3>2, <1>5
  <2>3. QED
    BY <2>1, <2>2
<1> HIDE DEF g
<1>12. Chosen(s, K, n, e, g)
  BY <1>8, <1>9, <1>10, <1>11 DEF Chosen
<1>13. QED
  BY <1>12 DEF e

LEMMA ChosenSame ==
  ASSUME NEW s, NEW K, NEW n \in Nat \ {0}, n \notin K, NEW d, NEW f, Chosen(s, K, n - 1, d, f)
  PROVE  Chosen(s, K, n, d, f)
<1>1. \A m \in 1 .. n : m \in K => m \in 1 .. n - 1
  OBVIOUS
<1>2. {m \in 1 .. n : m \in K} = {m \in 1 .. n - 1 : m \in K}
  BY <1>1
<1>3. QED
  BY <1>1, <1>2 DEF Chosen

LEMMA SelectedIs ==
  ASSUME NEW T, NEW s \in Seq(T), NEW K
  PROVE  Selected(s, K) \in Seq(T) /\ \E f : Chosen(s, K, Len(s), Selected(s, K), f)
<1> DEFINE N == Len(s)
           V == Seq(T)
           base == <<>>
           step == [x \in (0 .. N) \X V |->
                      IF x[1] # 0 /\ x[1] \in K THEN Append(x[2], s[x[1]]) ELSE x[2]]
<1>1. N \in Nat /\ base \in V
  BY LenProperties, EmptySeq
<1>2. step \in [(0 .. N) \X V -> V]
  <2> SUFFICES ASSUME NEW n \in 0 .. N, NEW d \in V
               PROVE  (IF n # 0 /\ n \in K THEN Append(d, s[n]) ELSE d) \in V
    OBVIOUS
  <2>1. n # 0 => Append(d, s[n]) \in V
    <3>1. n # 0 => s[n] \in T
      BY <1>1, ElementOfSeq
    <3>2. QED
      BY <3>1, AppendProperties
  <2>2. QED
    BY <2>1
<1>3. PICK g \in [0 .. N -> V] : Fold(g, N, base, step)
  <2> HIDE DEF N, V, base, step
  <2>1. QED
    BY <1>1, <1>2, FoldExists
<1>4. ASSUME NEW n \in 0 .. N, n # 0
      PROVE  step[<<n, g[n - 1]>>] = IF n \in K THEN Append(g[n - 1], s[n]) ELSE g[n - 1]
  <2>1. n - 1 \in 0 .. N /\ g[n - 1] \in V
    <3> HIDE DEF N, V, base, step
    <3>1. n - 1 \in 0 .. N
      BY <1>1, <1>4
    <3>2. QED
      BY <3>1
  <2>2. <<n, g[n - 1]>> \in (0 .. N) \X V
    BY <2>1
  <2> HIDE DEF V
  <2>3. QED
    BY <1>4, <2>2
<1>5. Selections(s, K, g)
  <2> HIDE DEF step
  <2>1. QED
    BY <1>3, <1>4 DEF Selections, Fold
<1> DEFINE W == CHOOSE h : Selections(s, K, h)
<1>6. Selected(s, K) = W[N]
  BY DEF Selected, Selections
<1>7. Selections(s, K, W)
  BY <1>5
<1> HIDE DEF W
<1> DEFINE Claim(n) == W[n] \in V /\ \E f : Chosen(s, K, n, W[n], f)
           Q == {n \in Nat : n <= N => Claim(n)}
<1>8. Claim(0)
  <2>1. W[0] = <<>>
    BY <1>1, <1>7 DEF Selections
  <2>2. Len(<<>>) = 0 /\ 1 .. 0 = {}
    OBVIOUS
  <2> DEFINE e == <<>>
             f == [j \in 1 .. Len(e) |-> 0]
  <2>3. Chosen(s, K, 0, e, f)
    <3> HIDE DEF e
    <3>1. Len(e) = 0
      BY <2>2 DEF e
    <3>2. QED
      BY <3>1, <2>2 DEF Chosen
  <2> HIDE DEF f
  <2>4. QED
    BY <1>1, <2>1, <2>3
<1>9. ASSUME NEW n \in Nat, n + 1 <= N, Claim(n) PROVE Claim(n + 1)
  <2> DEFINE m == n + 1
             d == W[n]
  <2>1. m \in 1 .. Len(s) /\ m \in Nat \ {0} /\ m - 1 = n /\ m \in 0 .. Len(s) /\ m # 0
    BY <1>1, <1>9
  <2> HIDE DEF m
  <2>2. W[m] = IF m \in K THEN Append(d, s[m]) ELSE d
    <3>1. W[m] = IF m \in K THEN Append(W[m - 1], s[m]) ELSE W[m - 1]
      BY <1>7, <2>1 DEF Selections
    <3>2. QED
      BY <2>1, <3>1
  <2>3. PICK f : d \in Seq(T) /\ Chosen(s, K, m - 1, d, f)
    BY <1>9, <2>1
  <2> HIDE DEF m, d
  <2>4. CASE m \in K
    <3>1. \E h : Chosen(s, K, m, Append(d, s[m]), h)
      BY <2>1, <2>3, <2>4, ChosenMore
    <3>2. Append(d, s[m]) \in Seq(T)
      BY <2>1, <2>3, ElementOfSeq, AppendProperties
    <3>3. Claim(m)
      BY <2>2, <2>4, <3>1, <3>2
    <3>4. QED
      BY <3>3 DEF m
  <2>5. CASE m \notin K
    <3>1. Chosen(s, K, m, d, f)
      BY <2>1, <2>3, <2>5, ChosenSame
    <3>2. Claim(m)
      BY <2>2, <2>3, <2>5, <3>1
    <3>3. QED
      BY <3>2 DEF m
  <2>6. QED
    BY <2>4, <2>5
<1>10. 0 \in Q
  BY <1>8
<1>11. ASSUME NEW n \in Nat, n \in Q PROVE n + 1 \in Q
  <2>1. n + 1 <= N => n <= N
    BY <1>1
  <2>2. n + 1 <= N => Claim(n + 1)
    <3> HIDE DEF Claim
    <3>1. QED
      BY <1>9, <1>11, <2>1
  <2>3. QED
    BY <2>2
<1>12. N \in Q
  <2> HIDE DEF Q
  <2>1. Nat \subseteq Q
    BY <1>10, <1>11, NumberInduction
  <2>2. QED
    BY <1>1, <2>1
<1>13. QED
  BY <1>1, <1>6, <1>12

-----------------------------------------------------------------------------
(* The blocks to predicate.                                                *)

Blocks(o) ==
  /\ o \in Seq(Nat \X Nat)
  /\ \A m, n \in 1 .. Len(o) : o[m][1] = o[n][1] => m = n

\* A block with a width for each of the blocks of s.
LEMMA BlocksWith ==
  ASSUME NEW s \in Seq(Nat), \A m, n \in 1 .. Len(s) : s[m] = s[n] => m = n, NEW w \in Nat
  PROVE  LET o == [k \in DOMAIN s |-> <<s[k], w>>]
         IN  Blocks(o) /\ Len(o) = Len(s) /\ \A k \in 1 .. Len(s) : o[k][1] = s[k]
<1> DEFINE o == [k \in DOMAIN s |-> <<s[k], w>>]
           N == Len(s)
<1>1. N \in Nat /\ DOMAIN s = 1 .. N /\ \A k \in 1 .. N : s[k] \in Nat
  BY LenProperties, ElementOfSeq
<1>2. o = [k \in 1 .. N |-> <<s[k], w>>]
  BY <1>1
<1> HIDE DEF o, N
<1>3. \A k \in 1 .. N : <<s[k], w>> \in Nat \X Nat
  BY <1>1
<1>4. o \in [1 .. N -> Nat \X Nat]
  BY <1>2, <1>3
<1>5. o \in Seq(Nat \X Nat) /\ Len(o) = N
  BY <1>1, <1>4, IsASeq, LenProperties
<1>6. \A k \in 1 .. N : o[k][1] = s[k]
  BY <1>2
<1>7. QED
  BY <1>5, <1>6 DEF Blocks, o, N

LEMMA BlocksJoined ==
  ASSUME NEW a, Blocks(a), NEW b, Blocks(b),
         \A m \in 1 .. Len(a), n \in 1 .. Len(b) : a[m][1] # b[n][1]
  PROVE  Blocks(a \o b)
<1> DEFINE o == a \o b
           S == Nat \X Nat
<1>1. a \in Seq(S) /\ b \in Seq(S)
  BY DEF Blocks
<1> HIDE DEF S
<1>2. /\ o \in Seq(S) /\ Len(o) = Len(a) + Len(b)
      /\ \A k \in 1 .. Len(o) : o[k] = IF k <= Len(a) THEN a[k] ELSE b[k - Len(a)]
  BY <1>1, ConcatProperties
<1>3. Len(a) \in Nat /\ Len(b) \in Nat
  BY <1>1, LenProperties
<1> HIDE DEF o
<1>4. ASSUME NEW k \in 1 .. Len(o)
      PROVE  \/ k \in 1 .. Len(a) /\ o[k] = a[k]
             \/ k - Len(a) \in 1 .. Len(b) /\ o[k] = b[k - Len(a)]
  BY <1>2, <1>3
<1>5. ASSUME NEW m \in 1 .. Len(o), NEW n \in 1 .. Len(o), o[m][1] = o[n][1] PROVE m = n
  <2> DEFINE i == m - Len(a)
             j == n - Len(a)
  <2>1. i = j => m = n
    BY <1>2, <1>3
  <2>2. (m \in 1 .. Len(a) /\ o[m] = a[m]) \/ (i \in 1 .. Len(b) /\ o[m] = b[i])
    BY <1>4
  <2>3. (n \in 1 .. Len(a) /\ o[n] = a[n]) \/ (j \in 1 .. Len(b) /\ o[n] = b[j])
    BY <1>4
  <2> HIDE DEF i, j
  <2>4. QED
    BY <1>5, <2>1, <2>2, <2>3, ZenonT(60) DEF Blocks
<1>6. QED
  BY <1>2, <1>5 DEF Blocks, o, S

LEMMA BlocksFirst ==
  ASSUME Init
  PROVE  Blocks(order)
<1>1. /\ Width \in Nat /\ source.cmWidth \in Nat
      /\ source.PredicatedBlocks \in Seq(Nat) /\ IsInjective(source.PredicatedBlocks)
      /\ source.outer \in Seq(Nat)
  BY FunctionsAssumption DEF Init
<1> DEFINE p == source.PredicatedBlocks
           blocks == [k \in DOMAIN p |-> <<p[k], Width>>]
           all == [b \in DOMAIN source.outer |-> b]
           K == DOMAIN source.outer \ Range(p)
           others == Selected(all, K)
           first == [k \in DOMAIN others |-> <<others[k], source.cmWidth>>]
<1>2. order = IF source.cmWidth = 0 THEN blocks ELSE first \o blocks
  BY DEF Init
<1>3. DOMAIN p = 1 .. Len(p) /\ \A m, n \in 1 .. Len(p) : p[m] = p[n] => m = n
  BY <1>1, LenProperties DEF IsInjective
<1>4. Blocks(blocks) /\ Len(blocks) = Len(p) /\ \A k \in 1 .. Len(p) : blocks[k][1] = p[k]
  <2> DEFINE w == Width
  <2>1. p \in Seq(Nat) /\ w \in Nat
    BY <1>1
  <2>2. \A m, n \in 1 .. Len(p) : p[m] = p[n] => m = n
    BY <1>3
  <2> HIDE DEF p, w
  <2>3. LET o == [k \in DOMAIN p |-> <<p[k], w>>]
        IN  Blocks(o) /\ Len(o) = Len(p) /\ \A k \in 1 .. Len(p) : o[k][1] = p[k]
    BY ONLY <2>1, <2>2, BlocksWith
  <2>4. QED
    BY <2>3 DEF w
<1>5. all \in Seq(Nat) /\ Len(all) = Len(source.outer)
      /\ \A b \in 1 .. Len(source.outer) : all[b] = b
  <2> DEFINE N == Len(source.outer)
  <2>1. N \in Nat /\ DOMAIN source.outer = 1 .. N
    BY <1>1, LenProperties
  <2>2. all = [b \in 1 .. N |-> b]
    BY <2>1
  <2> HIDE DEF all, N
  <2>3. all \in [1 .. N -> Nat]
    BY <2>1, <2>2
  <2>4. all \in Seq(Nat) /\ Len(all) = N
    BY <2>1, <2>3, IsASeq, LenProperties
  <2>5. QED
    BY <2>2, <2>4 DEF N
<1> HIDE DEF all, K
<1>6. others \in Seq(Nat) /\ \E f : Chosen(all, K, Len(all), others, f)
  BY <1>5, SelectedIs
<1> HIDE DEF others
<1>7. PICK f : Chosen(all, K, Len(all), others, f)
  BY <1>6
<1>8. ASSUME NEW j \in 1 .. Len(others) PROVE others[j] = f[j] /\ f[j] \in K
  <2>1. f[j] \in 1 .. Len(all) /\ f[j] \in K /\ others[j] = all[f[j]]
    BY <1>7 DEF Chosen
  <2>2. QED
    BY <1>5, <2>1
<1>9. \A m, n \in 1 .. Len(others) : others[m] = others[n] => m = n
  <2> SUFFICES ASSUME NEW m \in 1 .. Len(others), NEW n \in 1 .. Len(others), f[m] = f[n]
               PROVE  m = n
    BY <1>8
  <2>1. ~(m < n) /\ ~(n < m)
    <3>1. f[m] \in 1 .. Len(all) /\ f[n] \in 1 .. Len(all)
      BY <1>7 DEF Chosen
    <3>2. m < n => f[m] < f[n]
      BY <1>7 DEF Chosen
    <3>3. n < m => f[n] < f[m]
      BY <1>7 DEF Chosen
    <3>4. QED
      BY <3>1, <3>2, <3>3
  <2>2. QED
    BY <2>1
<1>10. /\ Blocks(first) /\ Len(first) = Len(others)
       /\ \A k \in 1 .. Len(others) : first[k][1] = others[k]
  BY <1>1, <1>6, <1>9, BlocksWith
<1>11. \A m \in 1 .. Len(first), n \in 1 .. Len(blocks) : first[m][1] # blocks[n][1]
  <2> SUFFICES ASSUME NEW m \in 1 .. Len(first), NEW n \in 1 .. Len(blocks) PROVE first[m][1] # blocks[n][1]
    OBVIOUS
  <2>1. first[m][1] \notin Range(p)
    <3>1. first[m][1] \in K
      BY <1>8, <1>10
    <3>2. QED
      BY <3>1 DEF K
  <2>2. blocks[n][1] \in Range(p)
    <3>1. n \in DOMAIN p /\ blocks[n][1] = p[n]
      BY <1>3, <1>4
    <3>2. QED
      BY <3>1 DEF Range
  <2>3. QED
    BY <2>1, <2>2
<1> HIDE DEF first, blocks
<1>12. Blocks(first \o blocks)
  BY <1>4, <1>10, <1>11, BlocksJoined
<1>13. QED
  BY <1>2, <1>4, <1>12

-----------------------------------------------------------------------------
(* The code of the source.                                                 *)

LEMMA SourceCoded ==
  ASSUME NEW f \in SourceFunctions
  PROVE  Coded(f.code) /\ \A k \in 1 .. Len(f.code) : Formed(f.code[k])
<1> DEFINE c == f.code
<1>1. c \in Seq(Instruction) /\ DOMAIN c = 1 .. Len(c) /\ Len(c) \in Nat
  BY FunctionsAssumption, LenProperties
<1>2. \A k \in 1 .. Len(c) : Formed(c[k])
  BY <1>1, FunctionsAssumption
<1>3. IsSSA(c) /\ \A k, n \in 1 .. Len(c) : c[k].op = "unmask_end" => c[k].id \notin Operands(c[n])
  BY <1>1, FunctionsAssumption
<1> HIDE DEF c
<1>4. \A j, k \in 1 .. Len(c) : c[j].id = c[k].id => j = k
  <2> DEFINE ids == [k \in 1 .. Len(c) |-> c[k].id]
  <2>1. IsInjective(ids)
    BY <1>1, <1>3 DEF IsSSA
  <2>2. \A j, k \in 1 .. Len(c) : ids[j] = ids[k] => j = k
    BY <2>1 DEF IsInjective
  <2>3. QED
    BY <2>2
<1>5. \A k \in 1 .. Len(c) : c[k].id \notin Given /\ Shaped(c[k])
  BY <1>2 DEF Formed
<1>6. ASSUME NEW k \in 1 .. Len(c), NEW x \in Operands(c[k]) PROVE Defined(c, k, x)
  <2>1. x \in {c[n].id : n \in 1 .. k - 1} \cup Given
    BY <1>1, <1>3, <1>6 DEF IsSSA
  <2>2. CASE x \in Given
    BY <2>2 DEF Defined
  <2>3. CASE x \notin Given
    <3>1. PICK n \in 1 .. k - 1 : c[n].id = x
      BY <2>1, <2>3
    <3>2. n \in 1 .. Len(c)
      BY <1>1
    <3>3. c[n].op # "unmask_end"
      BY <1>3, <1>6, <3>1, <3>2
    <3>4. QED
      BY <3>1, <3>3 DEF Defined
  <2>4. QED
    BY <2>2, <2>3
<1>7. Coded(c)
  BY <1>1, <1>4, <1>5, <1>6 DEF Coded
<1>8. QED
  BY <1>2, <1>7 DEF c

\* The operands of an instruction of a region.
LEMMA MaskOperands ==
  ASSUME NEW i \in Instruction, Shaped(i), i.op \in {"load", "store", "unmask_begin", "unmask_end"}
  PROVE  /\ i.op = "unmask_begin" => Operands(i) = {}
         /\ i.op \in {"load", "unmask_end"} => Operands(i) = {i.args[1]}
         /\ i.op = "store" => Operands(i) = {i.args[1], i.args[2]}
<1>1. i.pred = NoPred
  BY DEF Shaped
<1>2. Operands(i) = Range(i.args)
  BY <1>1 DEF Operands
<1>3. DOMAIN i.args = 1 .. Len(i.args)
  BY LenProperties DEF Instruction
<1>4. Range(i.args) = {i.args[n] : n \in 1 .. Len(i.args)}
  BY <1>3 DEF Range
<1>5. CASE i.op = "unmask_begin"
  <2>1. Len(i.args) = 0
    BY <1>5 DEF Shaped
  <2>2. QED
    BY <1>2, <1>4, <1>5, <2>1
<1>6. CASE i.op \in {"load", "unmask_end"}
  <2>1. Len(i.args) = 1
    BY <1>6 DEF Shaped
  <2>2. 1 .. 1 = {1}
    OBVIOUS
  <2>3. QED
    BY <1>2, <1>4, <1>6, <2>1, <2>2
<1>7. CASE i.op = "store"
  <2>1. Len(i.args) = 2
    BY <1>7 DEF Shaped, Writes
  <2>2. 1 .. 2 = {1, 2}
    OBVIOUS
  <2>3. QED
    BY <1>2, <1>4, <1>7, <2>1, <2>2
<1>8. QED
  BY <1>5, <1>6, <1>7

LEMMA SourceMasksClosed ==
  ASSUME NEW f \in SourceFunctions
  PROVE  MasksClosed(f.code)
<1> DEFINE c == f.code
<1>1. /\ Coded(c) /\ DOMAIN c = 1 .. Len(c) /\ Len(c) \in Nat
      /\ \A k \in 1 .. Len(c) : Formed(c[k]) /\ Shaped(c[k]) /\ c[k] \in Instruction
  BY SourceCoded, LenProperties, ElementOfSeq DEF Coded
<1>2. MasksPaired(c)
  BY FunctionsAssumption
<1> HIDE DEF c
<1>3. ASSUME NEW r \in Regions(c)
      PROVE  /\ r.begin \in 1 .. Len(c) /\ c[r.begin].op = "unmask_begin"
             /\ r.store \in 1 .. Len(c) /\ c[r.store].op = "store"
             /\ r.load \in 1 .. Len(c) /\ c[r.load].op = "load"
             /\ r.end \in 1 .. Len(c) /\ c[r.end].op = "unmask_end"
             /\ c[r.store].args[1] = c[r.begin].id
             /\ c[r.end].args[1] = c[r.load].id
  BY <1>1 DEF Regions, Of
<1>4. ASSUME NEW k \in 1 .. Len(c), Masking(c[k])
      PROVE  /\ c[k].op \in {"unmask_begin", "unmask_end", "load", "store"}
             /\ c[k].op = "store" => c[k].width = 1
             /\ \A n \in 1 .. Len(c) : c[n].id \in Operands(c[k]) => Masking(c[n])
  <2>1. CASE c[k].op = "unmask_begin"
    <3>1. Operands(c[k]) = {}
      BY <1>1, <2>1, MaskOperands
    <3>2. QED
      BY <2>1, <3>1
  <2>2. CASE c[k].op = "unmask_end"
    <3>1. PICK r \in Regions(c) : r.end = k /\ c[r.load].args[1] \in MaskVariables
      BY <1>1, <1>2, <2>2 DEF MasksPaired, Of
    <3>2. Operands(c[k]) = {c[r.load].id}
      <4>1. Operands(c[k]) = {c[k].args[1]}
        BY <1>1, <2>2, MaskOperands
      <4>2. QED
        BY <1>3, <3>1, <4>1
    <3>3. Masking(c[r.load]) /\ r.load \in 1 .. Len(c)
      BY <1>3, <3>1 DEF Masking
    <3>4. \A n \in 1 .. Len(c) : c[n].id \in Operands(c[k]) => n = r.load
      BY <1>1, <3>2, <3>3 DEF Coded
    <3>5. QED
      BY <2>2, <3>3, <3>4
  <2>3. CASE c[k].op = "load" /\ c[k].args[1] \in MaskVariables
    <3>1. Operands(c[k]) \subseteq Given
      <4>1. Operands(c[k]) = {c[k].args[1]}
        BY <1>1, <2>3, MaskOperands
      <4>2. QED
        BY <2>3, <4>1, MaskVariablesGiven
    <3>2. QED
      BY <1>1, <2>3, <3>1 DEF Coded
  <2>4. CASE c[k].op \in Writes /\ c[k].args[2] \in MaskVariables
    <3>1. c[k].width = 1 /\ \E r \in Regions(c) : r.store = k
      BY <1>1, <1>2, <2>4 DEF MasksPaired
    <3>2. PICK r \in Regions(c) : r.store = k
      BY <3>1
    <3>3. c[k].op = "store" /\ c[k].args[1] = c[r.begin].id
      BY <1>3, <3>2
    <3>4. Operands(c[k]) = {c[k].args[1], c[k].args[2]}
      BY <1>1, <3>3, MaskOperands
    <3>5. Masking(c[r.begin]) /\ r.begin \in 1 .. Len(c)
      BY <1>3 DEF Masking
    <3>6. \A n \in 1 .. Len(c) : c[n].id \in Operands(c[k]) => n = r.begin
      <4>1. c[k].args[2] \in Given
        BY <2>4, MaskVariablesGiven
      <4>2. QED
        BY <1>1, <3>3, <3>4, <3>5, <4>1 DEF Coded
    <3>7. QED
      BY <3>1, <3>3, <3>5, <3>6
  <2>5. QED
    BY <1>4, <2>1, <2>2, <2>3, <2>4 DEF Masking
<1>5. MasksClosed(c)
  BY <1>4 DEF MasksClosed
<1>6. QED
  BY <1>5 DEF c

LEMMA SameMasksSelf ==
  ASSUME NEW c, Coded(c)
  PROVE  SameMasks(c, c)
<1>1. \A m, n \in 1 .. Len(c), j, k \in 1 .. Len(c) : m < n /\ c[j] = c[m] /\ c[k] = c[n] => j < k
  BY DEF Coded
<1>2. QED
  BY <1>1 DEF SameMasks

-----------------------------------------------------------------------------
(* The invariant of predicateCode.                                         *)

\* The instruction with the id is one of the source, and nothing is made for it yet.
Unmade(c, id) == id \in 1 .. IdStep - 1 /\ \A n \in 1 .. Len(c) : c[n].id \notin Made(id)

\* What predicateInst has not come to.
Waits(i) ==
  \/ i.id \in todo
  \/ \E n \in 1 .. Len(order) : order[n][1] = i.bb /\ (phase = "predicateBlock" => n # 1)

MasksStay ==
  /\ source \in SourceFunctions
  /\ Coded(code) /\ MasksClosed(code) /\ SameMasks(source.code, code)
  /\ \A k \in 1 .. Len(code) :
       /\ code[k].op \notin {"savemask", "unmask", "remask"}
       /\ code[k].op = "unmask_end" => Unmade(code, code[k].id)

WaitingFresh ==
  \A k \in 1 .. Len(code) : Waits(code[k]) =>
    /\ code[k].op \in Ignored \/ Unmade(code, code[k].id)
    /\ code[k].op = "gather_masked" => code[k].pred \in {AllOnes, GivenPred}

GathersGiven ==
  \A k \in 1 .. Len(code) :
    code[k].op = "gather_masked" /\ code[k].id \in DOMAIN OriginalPred =>
      OriginalPred[code[k].id] = GivenPred

TodoHere ==
  /\ Blocks(order)
  /\ phase = "predicateBlock" => order # <<>>
  /\ phase = "predicateCode" => todo = {}
  /\ \A x \in todo : \E k \in 1 .. Len(code) : code[k].id = x /\ code[k].bb = Head(order)[1]

PassInv ==
  /\ MasksStay /\ WaitingFresh /\ GathersGiven /\ TodoHere
  /\ ends = {} /\ begins = {}

LEMMA MadeApart ==
  ASSUME NEW x \in 1 .. IdStep - 1, NEW y \in 1 .. IdStep - 1, NEW z, z \in Made(x), z \in Made(y)
  PROVE  x = y
BY DEF Made, IdStep

\* The next instruction of the block.
InstIs(p) ==
  /\ p \in 1 .. Len(code)
  /\ Inst = code[p] /\ code[p].id \in todo /\ code[p].bb = order[1][1]
  /\ \A j \in 1 .. Len(code) : j < p => code[j].id \notin todo

LEMMA InstAt ==
  ASSUME Coded(code), TodoHere, phase = "predicateBlock", todo # {}
  PROVE  (\E p : InstIs(p)) /\ 1 \in 1 .. Len(order) /\ Head(order) = order[1]
         /\ order[1][1] \in Nat /\ SimdWidth \in Nat
<1> DEFINE S == {k \in DOMAIN code : code[k].id \in todo}
<1>1. Len(code) \in Nat /\ DOMAIN code = 1 .. Len(code)
  BY LenProperties DEF Coded
<1>2. order \in Seq(Nat \X Nat) /\ order # <<>>
  BY DEF TodoHere, Blocks
<1>3. 1 \in 1 .. Len(order) /\ Head(order) = order[1] /\ order[1] \in Nat \X Nat
  BY <1>2, HeadTailProperties, ElementOfSeq, LenProperties, EmptySeq
<1>4. S \subseteq Nat /\ S # {}
  <2>1. PICK x \in todo : TRUE
    OBVIOUS
  <2>2. PICK k \in 1 .. Len(code) : code[k].id = x
    BY <2>1 DEF TodoHere
  <2>3. QED
    BY <1>1, <2>1, <2>2
<1> DEFINE p == Min(S)
<1>5. p \in S /\ \A j \in S : p <= j
  <2> HIDE DEF S
  <2>1. \E n \in S : \A k \in S : n <= k
    BY <1>4, LeastNumber
  <2>2. QED
    BY <2>1 DEF Min
<1>6. Inst = code[p]
  BY DEF Inst
<1> HIDE DEF p
<1>7. code[p].bb = order[1][1]
  <2>1. PICK k \in 1 .. Len(code) : code[k].id = code[p].id /\ code[k].bb = Head(order)[1]
    BY <1>5 DEF TodoHere
  <2>2. k = p
    BY <1>1, <1>5, <2>1 DEF Coded
  <2>3. QED
    BY <1>3, <2>1, <2>2
<1>8. InstIs(p)
  <2>1. \A j \in 1 .. Len(code) : j < p => code[j].id \notin todo
    BY <1>1, <1>5
  <2>2. QED
    BY <1>1, <1>5, <1>6, <1>7, <2>1 DEF InstIs
<1>9. order[1][1] \in Nat /\ SimdWidth \in Nat
  BY <1>3 DEF SimdWidth
<1>10. QED
  BY <1>3, <1>8, <1>9

\* What happens to the predicates the calls had before.
KeepsPreds ==
  \A x \in DOMAIN OriginalPred' :
    \/ x \in DOMAIN OriginalPred /\ OriginalPred'[x] = OriginalPred[x]
    \/ OriginalPred'[x] = GivenPred
    \/ \A n \in 1 .. Len(code) : code[n].id = x => code[n].op # "gather_masked"

\* The invariant is kept by what is made for the next instruction.
LEMMA AltersKeeps ==
  ASSUME PassInv, phase = "predicateBlock", NEW p, InstIs(p),
         NEW gone, Alters(code, code', code[p], gone), gone \cap (todo \ {code[p].id}) = {},
         Unmade(code, code[p].id), code[p].op # "unmask_end", KeepsPreds,
         todo' = todo \ {code[p].id}, UNCHANGED <<source, order, ends, begins, phase>>
  PROVE  PassInv'
<1> DEFINE i == code[p]
           c == code
           d == code'
           Later(k) == \/ d[k].id \in todo'
                       \/ \E m \in 1 .. Len(order) : order[m][1] = d[k].bb /\ m # 1
<1>1. p \in 1 .. Len(c) /\ i.bb = order[1][1] /\ i.id \in 1 .. IdStep - 1
  BY DEF InstIs, Unmade
<1>2. Coded(c) /\ Coded(d) /\ MasksClosed(d) /\ SameMasks(c, d) /\ Comes(c, d, i, gone)
  BY DEF Alters, PassInv, MasksStay
<1>3. \A m, n \in 1 .. Len(order) : order[m][1] = order[n][1] => m = n
  BY DEF PassInv, TodoHere, Blocks
<1>4. 1 \in 1 .. Len(order)
  BY <1>2, InstAt DEF PassInv, InstIs
<1>5. ASSUME NEW k \in 1 .. Len(d), NewFor(i, d[k])
      PROVE  /\ d[k].op \notin {"unmask_end", "gather_masked", "savemask", "unmask", "remask"}
             /\ d[k].id \in Made(i.id)
             /\ \A n \in 1 .. Len(c) : c[n].id # d[k].id
             /\ d[k].op \in Ignored \/ d[k].bb = i.bb
  <2>1. d[k].id \in Made(i.id)
    BY <1>5 DEF NewFor
  <2>2. d[k].op \in Ignored \/ (d[k].op \in Sends /\ d[k].bb = i.bb)
    BY <1>5 DEF NewFor, Ignored
  <2>3. d[k].op \notin {"unmask_end", "gather_masked", "savemask", "unmask", "remask"}
    BY <1>5 DEF NewFor, Sends
  <2>4. QED
    BY <2>1, <2>2, <2>3 DEF Unmade
<1>6. ASSUME NEW k \in 1 .. Len(d)
      PROVE  NewFor(i, d[k]) \/ \E n \in 1 .. Len(c) : SameKind(i, c[n], d[k])
  BY <1>2 DEF Comes
<1>7. ASSUME NEW x \in 1 .. IdStep - 1, Unmade(c, x), x # i.id PROVE Unmade(d, x)
  <2> SUFFICES ASSUME NEW n \in 1 .. Len(d), d[n].id \in Made(x) PROVE FALSE
    BY DEF Unmade
  <2>1. CASE NewFor(i, d[n])
    BY <1>1, <1>5, <1>7, <2>1, MadeApart
  <2>2. CASE \E m \in 1 .. Len(c) : SameKind(i, c[m], d[n])
    BY <1>7, <2>2 DEF SameKind, Unmade
  <2>3. QED
    BY <1>6, <2>1, <2>2
<1>8. ASSUME NEW k \in 1 .. Len(d), Later(k)
      PROVE  \/ d[k].op \in Ignored /\ d[k].op # "gather_masked"
             \/ \E n \in 1 .. Len(c) : SameKind(i, c[n], d[k]) /\ Waits(c[n]) /\ c[n].id # i.id
  <2>0. d[k].id \in todo' \/ \E m \in 1 .. Len(order) : order[m][1] = d[k].bb /\ m # 1
    BY <1>8
  <2>1. CASE NewFor(i, d[k])
    <3>1. d[k].id \notin todo
      <4>1. ASSUME d[k].id \in todo PROVE FALSE
        <5>1. \E n \in 1 .. Len(c) : c[n].id = d[k].id
          BY <4>1 DEF PassInv, TodoHere
        <5>2. QED
          BY <1>5, <2>1, <5>1
      <4>2. QED
        BY <4>1
    <3>2. PICK m \in 1 .. Len(order) : order[m][1] = d[k].bb /\ m # 1
      BY <2>0, <3>1
    <3>3. d[k].bb # i.bb
      BY <1>1, <1>3, <1>4, <3>2
    <3>4. QED
      BY <1>5, <2>1, <3>3
  <2>2. CASE \E n \in 1 .. Len(c) : SameKind(i, c[n], d[k])
    <3>1. PICK n \in 1 .. Len(c) : SameKind(i, c[n], d[k])
      BY <2>2
    <3>2. c[n].id = d[k].id /\ c[n].bb = d[k].bb
      BY <3>1 DEF SameKind
    <3>3. Waits(c[n])
      BY <2>0, <3>2 DEF Waits
    <3>4. c[n].id # i.id
      <4>1. ASSUME c[n].id = i.id PROVE FALSE
        <5>1. n = p
          BY <1>1, <1>2, <4>1 DEF Coded
        <5>2. d[k].id \notin todo'
          BY <3>2, <4>1
        <5>3. PICK m \in 1 .. Len(order) : order[m][1] = d[k].bb /\ m # 1
          BY <2>0, <5>2
        <5>4. QED
          BY <1>1, <1>3, <1>4, <3>2, <5>1, <5>3
      <4>2. QED
        BY <4>1
    <3>5. QED
      BY <3>1, <3>3, <3>4
  <2>3. QED
    BY <1>6, <2>1, <2>2
<1>9. MasksStay'
  <2>1. SameMasks(source.code, d)
    BY <1>2, SameMasksFollow DEF PassInv, MasksStay
  <2>2. ASSUME NEW k \in 1 .. Len(d), d[k].op = "unmask_end" PROVE Unmade(d, d[k].id)
    <3>1. PICK n \in 1 .. Len(c) : SameKind(i, c[n], d[k])
      BY <1>5, <1>6, <2>2
    <3>2. c[n].op = "unmask_end" /\ c[n].id = d[k].id
      BY <2>2, <3>1 DEF SameKind
    <3>3. Unmade(c, d[k].id)
      BY <3>2 DEF PassInv, MasksStay
    <3>4. c[n].id # i.id
      BY <1>1, <1>2, <3>2 DEF Coded
    <3>5. QED
      BY <1>7, <3>2, <3>3, <3>4 DEF Unmade
  <2>3. ASSUME NEW k \in 1 .. Len(d) PROVE d[k].op \notin {"savemask", "unmask", "remask"}
    BY <1>5, <1>6 DEF SameKind, PassInv, MasksStay
  <2>4. QED
    BY <1>2, <2>1, <2>2, <2>3 DEF PassInv, MasksStay
<1>10. WaitingFresh'
  <2>1. ASSUME NEW k \in 1 .. Len(d), Later(k)
        PROVE  /\ d[k].op \in Ignored \/ Unmade(d, d[k].id)
               /\ d[k].op = "gather_masked" => d[k].pred \in {AllOnes, GivenPred}
    <3>1. CASE d[k].op \in Ignored /\ d[k].op # "gather_masked"
      BY <3>1
    <3>2. CASE \E n \in 1 .. Len(c) : SameKind(i, c[n], d[k]) /\ Waits(c[n]) /\ c[n].id # i.id
      <4>1. PICK n \in 1 .. Len(c) : SameKind(i, c[n], d[k]) /\ Waits(c[n]) /\ c[n].id # i.id
        BY <3>2
      <4>2. /\ c[n].op \in Ignored \/ Unmade(c, c[n].id)
            /\ c[n].op = "gather_masked" => c[n].pred \in {AllOnes, GivenPred}
        BY <4>1 DEF PassInv, WaitingFresh
      <4>3. d[k].op = c[n].op /\ d[k].id = c[n].id
        BY <4>1 DEF SameKind
      <4>4. d[k].op \in Ignored \/ Unmade(d, d[k].id)
        BY <1>7, <4>1, <4>2, <4>3 DEF Unmade
      <4>5. d[k].op = "gather_masked" => d[k].pred \in {AllOnes, GivenPred}
        BY <4>1, <4>2, <4>3 DEF SameKind
      <4>6. QED
        BY <4>4, <4>5
    <3>3. QED
      BY <1>8, <2>1, <3>1, <3>2
  <2>2. ASSUME NEW k \in 1 .. Len(code'), Waits(code[k])' PROVE Later(k)
    BY <2>2 DEF Waits
  <2>3. QED
    BY <2>1, <2>2 DEF WaitingFresh
<1>11. GathersGiven'
  <2>1. ASSUME NEW k \in 1 .. Len(d), d[k].op = "gather_masked", d[k].id \in DOMAIN OriginalPred'
        PROVE  OriginalPred'[d[k].id] = GivenPred
    <3>1. PICK n \in 1 .. Len(c) : SameKind(i, c[n], d[k])
      BY <1>5, <1>6, <2>1
    <3>2. c[n].op = "gather_masked" /\ c[n].id = d[k].id
      BY <2>1, <3>1 DEF SameKind
    <3>3. d[k].id \in DOMAIN OriginalPred => OriginalPred[d[k].id] = GivenPred
      BY <3>2 DEF PassInv, GathersGiven
    <3>4. QED
      BY <2>1, <3>2, <3>3 DEF KeepsPreds
  <2>2. QED
    BY <2>1 DEF GathersGiven
<1>12. TodoHere'
  <2>1. ASSUME NEW x \in todo' PROVE \E k \in 1 .. Len(d) : d[k].id = x /\ d[k].bb = Head(order)[1]
    <3>1. x \in todo /\ x # i.id
      BY <2>1
    <3>2. PICK n \in 1 .. Len(c) : c[n].id = x /\ c[n].bb = Head(order)[1]
      BY <3>1 DEF PassInv, TodoHere
    <3>3. PICK k \in 1 .. Len(d) : d[k].id = x
      BY <1>2, <3>1, <3>2 DEF Comes
    <3>4. PICK m \in 1 .. Len(c) : SameKind(i, c[m], d[k])
      BY <1>5, <1>6, <3>2, <3>3
    <3>5. m = n
      BY <1>2, <3>2, <3>3, <3>4 DEF SameKind, Coded
    <3>6. QED
      BY <3>2, <3>3, <3>4, <3>5 DEF SameKind
  <2>2. QED
    BY <2>1 DEF PassInv, TodoHere
<1>13. ends' = {} /\ begins' = {}
  BY DEF PassInv
<1>14. QED
  BY <1>9, <1>10, <1>11, <1>12, <1>13 DEF PassInv

LEMMA TurnIs ==
  ASSUME PassInv, phase = "predicateBlock", todo # {}, NEW p, InstIs(p), code[p].op \notin Ignored
  PROVE  /\ Unmade(code, code[p].id)
         /\ \A n \in 0 .. 4 : Fresh(code, code[p], n)
         /\ p \in 1 .. Len(code) /\ Len(code) \in Nat
         /\ Coded(code) /\ MasksClosed(code) /\ Shaped(code[p]) /\ code[p] \in Instruction
         /\ code[p].op # "unmask_end" /\ SimdWidth \in Nat
<1>1. Coded(code) /\ MasksClosed(code) /\ p \in 1 .. Len(code)
  BY DEF PassInv, MasksStay, InstIs
<1>2. Unmade(code, code[p].id)
  <2>1. Waits(code[p])
    BY DEF Waits, InstIs
  <2>2. QED
    BY <1>1, <2>1 DEF PassInv, WaitingFresh
<1>3. \A n \in 0 .. 4 : Id(code[p], n) \in Made(code[p].id)
  BY DEF Id, Made
<1>4. \A n \in 0 .. 4 : Fresh(code, code[p], n)
  BY <1>2, <1>3 DEF Fresh, Unmade
<1>5. Shaped(code[p]) /\ code[p] \in Instruction /\ Len(code) \in Nat
  BY <1>1, ElementOfSeq, LenProperties DEF Coded
<1>6. SimdWidth \in Nat
  BY <1>1, InstAt DEF PassInv
<1>7. QED
  BY <1>1, <1>2, <1>4, <1>5, <1>6 DEF Ignored

\* A predicate operand is there before the instruction.
LEMMA PredDefined ==
  ASSUME NEW c, Coded(c), NEW k \in 1 .. Len(c), c[k].pred \notin {NoPred, ScalarOne}
  PROVE  c[k].pred \in Int /\ (c[k].pred = AllOnes \/ Defined(c, k, c[k].pred))
<1>1. c[k] \in Instruction
  BY ElementOfSeq DEF Coded
<1>2. c[k].pred = AllOnes \/ c[k].pred \in Operands(c[k])
  BY DEF Operands
<1>3. QED
  BY <1>1, <1>2 DEF Instruction, Coded

LEMMA LeaveKeeps ==
  ASSUME PassInv, phase = "predicateBlock", UNCHANGED <<code, OriginalPred, source, order, ends, begins, phase>>,
         todo' \subseteq todo
  PROVE  PassInv'
<1>1. \A k \in 1 .. Len(code) : Waits(code[k])' => Waits(code[k])
  BY DEF Waits
<1>2. WaitingFresh'
  BY <1>1 DEF PassInv, WaitingFresh
<1>3. MasksStay' /\ GathersGiven' /\ TodoHere'
  BY DEF PassInv, MasksStay, GathersGiven, TodoHere, Unmade
<1>4. QED
  BY <1>2, <1>3 DEF PassInv

LEMMA StartKeeps ==
  ASSUME PassInv, StartBlock
  PROVE  PassInv'
<1>1. Coded(code) /\ Blocks(order) /\ DOMAIN code = 1 .. Len(code)
  BY LenProperties DEF PassInv, MasksStay, TodoHere, Coded
<1>2. /\ phase = "predicateCode" /\ phase' = "predicateBlock" /\ order # <<>>
      /\ todo' = {code[k].id : k \in InBlock(code, Head(order)[1])}
      /\ UNCHANGED <<source, code, order, OriginalPred, ends, begins>>
  BY DEF StartBlock
<1>3. 1 \in 1 .. Len(order) /\ Head(order) = order[1]
  BY <1>1, <1>2, HeadTailProperties, LenProperties, EmptySeq DEF Blocks
<1>4. ASSUME NEW x \in todo' PROVE \E k \in 1 .. Len(code) : code[k].id = x /\ code[k].bb = order[1][1]
  BY <1>1, <1>2, <1>3 DEF InBlock
<1>5. ASSUME NEW k \in 1 .. Len(code), Waits(code[k])' PROVE Waits(code[k])
  <2>1. CASE code[k].id \in todo'
    <3>1. code[k].bb = order[1][1]
      BY <1>1, <1>4, <2>1 DEF Coded
    <3>2. QED
      BY <1>2, <1>3, <3>1 DEF Waits
  <2>2. CASE code[k].id \notin todo'
    BY <1>2, <1>5, <2>2 DEF Waits
  <2>3. QED
    BY <2>1, <2>2
<1>6. WaitingFresh'
  BY <1>2, <1>5 DEF PassInv, WaitingFresh
<1>7. TodoHere'
  <2>1. Blocks(order') /\ phase' # "predicateCode" /\ order' # <<>>
    BY <1>1, <1>2
  <2>2. ASSUME NEW x \in todo'
        PROVE  \E k \in 1 .. Len(code') : code'[k].id = x /\ code'[k].bb = Head(order')[1]
    <3>1. PICK k \in 1 .. Len(code) : code[k].id = x /\ code[k].bb = order[1][1]
      BY <1>4, <2>2
    <3>2. code' = code /\ order' = order /\ Head(order) = order[1]
      BY <1>2, <1>3
    <3>3. QED
      BY <3>1, <3>2
  <2>3. QED
    BY <2>1, <2>2 DEF TodoHere
<1>8. MasksStay' /\ GathersGiven'
  BY <1>2 DEF PassInv, MasksStay, GathersGiven, Unmade
<1>9. QED
  BY <1>2, <1>6, <1>7, <1>8 DEF PassInv

LEMMA EndKeeps ==
  ASSUME PassInv, EndBlock
  PROVE  PassInv'
<1>1. Blocks(order) /\ order # <<>>
  BY DEF PassInv, TodoHere, EndBlock
<1>2. /\ phase = "predicateBlock" /\ phase' = "predicateCode" /\ order' = Tail(order) /\ todo = {}
      /\ UNCHANGED <<source, code, todo, OriginalPred, ends, begins>>
  BY DEF EndBlock
<1>3. /\ order' \in Seq(Nat \X Nat) /\ Len(order') = Len(order) - 1 /\ Len(order) \in Nat
      /\ \A n \in 1 .. Len(order') : order'[n] = order[n + 1]
  BY <1>1, <1>2, HeadTailProperties, LenProperties, EmptySeq DEF Blocks
<1>4. \A n \in 1 .. Len(order') : n + 1 \in 1 .. Len(order) /\ n + 1 # 1
  BY <1>3
<1>5. ASSUME NEW k \in 1 .. Len(code), Waits(code[k])' PROVE Waits(code[k])
  BY <1>2, <1>3, <1>4, <1>5 DEF Waits
<1>6. WaitingFresh'
  BY <1>2, <1>5 DEF PassInv, WaitingFresh
<1>7. Blocks(order)'
  <2>1. ASSUME NEW m \in 1 .. Len(order'), NEW n \in 1 .. Len(order'), order'[m][1] = order'[n][1]
        PROVE  m = n
    <3>1. m + 1 = n + 1
      <4> DEFINE i == m + 1
                 j == n + 1
      <4>1. i \in 1 .. Len(order) /\ j \in 1 .. Len(order) /\ order[i][1] = order[j][1]
        BY <1>3, <1>4, <2>1
      <4> HIDE DEF i, j
      <4>2. i = j
        BY <1>1, <4>1 DEF Blocks
      <4>3. QED
        BY <4>2 DEF i, j
    <3>2. QED
      BY <3>1
  <2>2. QED
    BY <1>3, <2>1 DEF Blocks
<1>8. TodoHere'
  BY <1>2, <1>7 DEF TodoHere
<1>9. MasksStay' /\ GathersGiven'
  BY <1>2 DEF PassInv, MasksStay, GathersGiven, Unmade
<1>10. QED
  BY <1>2, <1>6, <1>8, <1>9 DEF PassInv

LEMMA GiveMaskKeeps ==
  ASSUME PassInv, PredicateScatterGather
  PROVE  PassInv'
<1>1. phase = "predicateBlock" /\ todo # {}
  BY DEF PredicateScatterGather, At
<1>2. PICK p : InstIs(p)
  BY <1>1, InstAt DEF PassInv, MasksStay
<1>3. Inst = code[p]
  BY <1>2 DEF InstIs
<1>4. CASE UNCHANGED <<code, OriginalPred>> /\ Advance
  <2>1. todo' \subseteq todo /\ UNCHANGED <<source, order, ends, begins, phase>>
    BY <1>4 DEF Advance
  <2>2. QED
    BY <1>1, <1>4, <2>1, LeaveKeeps
<1>5. CASE ~(UNCHANGED <<code, OriginalPred>> /\ Advance)
  <2>1. GiveMask(code, Inst) /\ Inst.op \in ScatterGathers \cup Sends /\ (Inst.op \in Sends => Inst.pred # ScalarOne)
    <3>1. ~(At(ScatterGathers) /\ Inst.md /\ Leave)
      BY <1>5 DEF Leave
    <3>2. ~Report("mismatching SIMD width of scatter/gather inside SIMD control flow")
      BY <1>5 DEF Report
    <3>3. GiveMask(code, Inst) /\ ((At(ScatterGathers) /\ ~Inst.md) \/ (At(Sends) /\ Inst.pred # ScalarOne))
      BY <3>1, <3>2 DEF PredicateScatterGather
    <3>4. ScatterGathers \cap Sends = {}
      BY DEF ScatterGathers, Sends
    <3>5. QED
      BY <3>3, <3>4 DEF At
  <2>2. /\ Unmade(code, code[p].id)
        /\ \A n \in 0 .. 4 : Fresh(code, code[p], n)
        /\ p \in 1 .. Len(code) /\ Coded(code) /\ MasksClosed(code)
        /\ Shaped(code[p]) /\ code[p] \in Instruction
        /\ code[p].op # "unmask_end" /\ SimdWidth \in Nat
    <3>1. code[p].op \notin Ignored
      BY <1>3, <2>1 DEF ScatterGathers, Sends, Ignored
    <3>2. QED
      BY <1>1, <1>2, <3>1, TurnIs
  <2>3. code[p].pred \notin {NoPred, ScalarOne}
    BY <1>3, <2>1, <2>2 DEF Shaped, ScatterGathers, Sends
  <2>4. code[p].pred \in Int /\ (code[p].pred = AllOnes \/ Defined(code, p, code[p].pred))
    BY <2>2, <2>3, PredDefined
  <2>5. code' = WithMask(code, Inst, Inst, SimdWidth)
    BY <2>1 DEF GiveMask, WithMask
  <2>6. /\ OriginalPred' = IF Inst.pred = AllOnes THEN OriginalPred
                           ELSE Assign(OriginalPred, Inst.id, Inst.pred)
        /\ Advance
    BY <2>1 DEF GiveMask
  <2> DEFINE i == code[p]
             w == SimdWidth
  <2>7. Alters(code, WithMask(code, i, i, w), i, {})
    <3>1. i.bb \in Nat
      BY <2>2 DEF Instruction
    <3>2. Fresh(code, i, 1) /\ Fresh(code, i, 2)
      BY <2>2
    <3>3. i.op \in ScatterGathers \cup Sends
      BY <1>3, <2>1
    <3> HIDE DEF w
    <3>4. w \in Nat
      BY <2>2 DEF w
    <3>5. QED
      BY <2>2, <2>4, <3>1, <3>2, <3>3, <3>4, WithMaskAlters
  <2>8. KeepsPreds
    <3>1. CASE i.pred = AllOnes
      BY <1>3, <2>6, <3>1 DEF KeepsPreds
    <3>2. CASE i.pred # AllOnes
      <4>1. \A x \in DOMAIN OriginalPred' :
              \/ x = i.id /\ OriginalPred'[x] = i.pred
              \/ x \in DOMAIN OriginalPred /\ OriginalPred'[x] = OriginalPred[x]
        BY <1>3, <2>6, <3>2 DEF Assign
      <4>2. i.op = "gather_masked" => i.pred = GivenPred
        <5>1. Waits(i)
          BY <1>2 DEF Waits, InstIs
        <5>2. QED
          BY <2>2, <3>2, <5>1 DEF PassInv, WaitingFresh
      <4>3. \A n \in 1 .. Len(code) : code[n].id = i.id => n = p
        BY <2>2 DEF Coded
      <4>4. QED
        BY <4>1, <4>2, <4>3 DEF KeepsPreds
    <3>3. QED
      BY <3>1, <3>2
  <2>9. todo' = todo \ {i.id} /\ UNCHANGED <<source, order, ends, begins, phase>>
    BY <1>3, <2>6 DEF Advance
  <2>10. Alters(code, code', i, {})
    BY <1>3, <2>5, <2>7
  <2>11. {} \cap (todo \ {i.id}) = {}
    OBVIOUS
  <2>12. QED
    BY <1>1, <1>2, <2>2, <2>8, <2>9, <2>10, <2>11, AltersKeeps
<1>6. QED
  BY <1>4, <1>5

LEMMA SendKeeps ==
  ASSUME PassInv, PredicateSend
  PROVE  PassInv'
<1>1. phase = "predicateBlock" /\ todo # {} /\ Inst.op \in Sends /\ Inst.pred = ScalarOne
  BY DEF PredicateSend, At
<1>2. PICK p : InstIs(p)
  BY <1>1, InstAt DEF PassInv, MasksStay
<1>3. Inst = code[p]
  BY <1>2 DEF InstIs
<1>4. /\ Unmade(code, code[p].id)
      /\ \A n \in 0 .. 4 : Fresh(code, code[p], n)
      /\ p \in 1 .. Len(code) /\ Coded(code) /\ MasksClosed(code)
      /\ code[p].op # "unmask_end" /\ SimdWidth \in Nat
  <2>1. code[p].op \notin Ignored
    BY <1>1, <1>3 DEF Sends, Ignored
  <2>2. QED
    BY <1>1, <1>2, <2>1, TurnIs
<1> DEFINE i == code[p]
           new == [Inst EXCEPT !.id = Id(Inst, 0), !.pred = AllOnes, !.exec = SimdWidth]
<1>5. GiveMask(Replaced(code, Inst.id, <<new>>, new.id), new)
  BY DEF PredicateSend
<1>6. new.pred = AllOnes
  <2>1. code[p] \in Instruction
    BY <1>4, ElementOfSeq DEF Coded
  <2>2. QED
    BY <1>3, <2>1 DEF Instruction
<1>7. /\ code' = WithMask(Replaced(code, Inst.id, <<new>>, new.id), new, Inst, SimdWidth)
      /\ OriginalPred' = OriginalPred /\ Advance
  <2> HIDE DEF new
  <2>1. QED
    BY <1>5, <1>6 DEF GiveMask, WithMask
<1>8. Alters(code, code', i, {i.id})
  <2> DEFINE w == SimdWidth
             e == [i EXCEPT !.id = Id(i, 0), !.pred = AllOnes, !.exec = w]
  <2>1. code' = WithMask(Replaced(code, i.id, <<e>>, e.id), e, i, w)
    BY <1>3, <1>7
  <2>2. w \in Nat /\ i.op \in Sends
    BY <1>1, <1>3, <1>4
  <2> HIDE DEF w
  <2>3. Alters(code, WithMask(Replaced(code, i.id, <<e>>, e.id), e, i, w), i, {i.id})
    BY <1>4, <2>2, SplatSendAlters
  <2>4. QED
    BY <2>1, <2>3
<1>9. KeepsPreds
  BY <1>7 DEF KeepsPreds
<1>10. todo' = todo \ {i.id} /\ UNCHANGED <<source, order, ends, begins, phase>>
  BY <1>3, <1>7 DEF Advance
<1>11. {i.id} \cap (todo \ {i.id}) = {}
  OBVIOUS
<1>12. QED
  BY <1>1, <1>2, <1>4, <1>8, <1>9, <1>10, <1>11, AltersKeeps

LEMMA RewriteKeeps ==
  ASSUME PassInv, RewritePredication
  PROVE  PassInv'
<1>1. phase = "predicateBlock" /\ todo # {} /\ Inst.op = "predicate"
  BY DEF RewritePredication, At
<1>2. PICK p : InstIs(p)
  BY <1>1, InstAt DEF PassInv, MasksStay
<1>3. Inst = code[p]
  BY <1>2 DEF InstIs
<1>4. CASE Inst.width # SimdWidth
  <2>1. todo' \subseteq todo /\ UNCHANGED <<code, OriginalPred, source, order, ends, begins, phase>>
    BY <1>4 DEF RewritePredication, Report, Advance
  <2>2. QED
    BY <1>1, <2>1, LeaveKeeps
<1>5. CASE Inst.width = SimdWidth
  <2>1. /\ Unmade(code, code[p].id)
        /\ \A n \in 0 .. 4 : Fresh(code, code[p], n)
        /\ p \in 1 .. Len(code) /\ Coded(code) /\ MasksClosed(code)
        /\ code[p].op # "unmask_end" /\ SimdWidth \in Nat
    <3>1. code[p].op \notin Ignored
      BY <1>1, <1>3 DEF Ignored
    <3>2. QED
      BY <1>1, <1>2, <3>1, TurnIs
  <2> DEFINE i == code[p]
             w == SimdWidth
             em == LoadEM(i, Id(i, 1), w)
             select == New(i, Id(i, 2), "select", w, <<em.id>> \o i.args)
  <2>2. code' = Replaced(code, i.id, <<em, select>>, select.id) /\ OriginalPred' = OriginalPred /\ Advance
    BY <1>3, <1>5 DEF RewritePredication
  <2>3. Alters(code, code', i, {i.id})
    <3>1. w \in Nat /\ i.op = "predicate"
      BY <1>1, <1>3, <2>1
    <3> HIDE DEF w
    <3>2. Alters(code, Replaced(code, i.id, <<em, select>>, select.id), i, {i.id})
      BY <2>1, <3>1, PredicateAlters
    <3>3. QED
      BY <2>2, <3>2
  <2>4. KeepsPreds
    BY <2>2 DEF KeepsPreds
  <2>5. todo' = todo \ {i.id} /\ UNCHANGED <<source, order, ends, begins, phase>>
    BY <1>3, <2>2 DEF Advance
  <2>6. {i.id} \cap (todo \ {i.id}) = {}
    OBVIOUS
  <2>7. QED
    BY <1>1, <1>2, <2>1, <2>3, <2>4, <2>5, <2>6, AltersKeeps
<1>6. QED
  BY <1>4, <1>5

\* The number of elements a lane has in the stored value.
LEMMA ChannelsNumber ==
  ASSUME Coded(code), NEW store
  PROVE  NumChannels(store) \in Nat
<1> DEFINE i == Instr(store.args[1])
           ops == MaskedGathers \cup {"gather_scaled2", "call"}
<1>1. NumChannels(store) = IF i.op \in ops THEN i.width \div i.exec ELSE 1
  BY DEF NumChannels
<1>2. CASE i.op \in ops
  <2>1. store.args[1] \in Ids(code)
    <3>1. ASSUME store.args[1] \notin Ids(code) PROVE FALSE
      <4>1. i.op = "argument"
        BY <3>1 DEF Instr, InstrIn
      <4>2. QED
        BY <1>2, <4>1 DEF MaskedGathers
    <3>2. QED
      BY <3>1
  <2>2. DOMAIN code = 1 .. Len(code)
    BY LenProperties DEF Coded
  <2>3. PICK m \in 1 .. Len(code) : code[m].id = store.args[1]
    BY <2>1, <2>2 DEF Ids
  <2>4. i = code[m]
    BY <2>3, InstrFound DEF Instr
  <2>5. i \in Instruction /\ Shaped(i)
    BY <2>4, ElementOfSeq DEF Coded
  <2>6. i.width \in Nat /\ i.exec \in Nat
    BY <2>5 DEF Instruction
  <2>7. i.exec # 0
    BY <1>2, <2>5 DEF Shaped
  <2> DEFINE a == i.width
             b == i.exec
  <2> HIDE DEF i, a, b
  <2>8. a \div b \in Nat
    <3>1. a \in Nat /\ b \in Nat /\ b # 0
      BY <2>6, <2>7 DEF a, b
    <3>2. QED
      BY <3>1
  <2>9. QED
    BY <1>1, <1>2, <2>8 DEF a, b
<1>3. CASE i.op \notin ops
  BY <1>1, <1>3
<1>4. QED
  BY <1>2, <1>3

\* The predicate of the gather walked back to.
LEMMA ExistingGiven ==
  ASSUME PassInv, NEW k \in 1 .. Len(code), NEW walk \in WalkStates(code, k), walk.out = "gather",
         walk.v \in DOMAIN OriginalPred
  PROVE  OriginalPred[walk.v] = GivenPred
<1>1. Coded(code) /\ DOMAIN code = 1 .. Len(code)
  BY LenProperties DEF PassInv, MasksStay, Coded
<1>2. InstrIn(code, walk.v).op \in MaskedGathers
  BY DEF WalkStates
<1>3. walk.v \in Ids(code)
  BY <1>2 DEF InstrIn, MaskedGathers
<1>4. PICK m \in 1 .. Len(code) : code[m].id = walk.v
  BY <1>1, <1>3 DEF Ids
<1>5. code[m].op = "gather_masked"
  BY <1>1, <1>2, <1>4, InstrFound DEF MaskedGathers
<1>6. QED
  BY <1>4, <1>5 DEF PassInv, GathersGiven

LEMMA WrRegionKeeps ==
  ASSUME PassInv, phase = "predicateBlock", todo # {}, NEW p, InstIs(p), code[p].op = "store",
         NEW walk \in WalkStates(code, p), walk.wr # 0, PredicateWrRegion(walk.wr, walk.update), Advance
  PROVE  PassInv'
<1>1. /\ Unmade(code, code[p].id)
      /\ \A n \in 0 .. 4 : Fresh(code, code[p], n)
      /\ p \in 1 .. Len(code) /\ Len(code) \in Nat /\ Coded(code) /\ MasksClosed(code)
      /\ code[p].op # "unmask_end" /\ SimdWidth \in Nat
  <2>1. code[p].op \notin Ignored
    BY DEF Ignored
  <2>2. QED
    BY <2>1, TurnIs
<1>2. Inst = code[p]
  BY DEF InstIs
<1>3. PICK q \in 1 .. p - 1 :
        /\ code[q].id = walk.wr /\ code[q].op = "wrregion"
        /\ \E u \in q + 1 .. p : code[u].id = walk.update /\ ~Masking(code[u])
  BY DEF WalkStates
<1>4. PICK u \in q + 1 .. p : code[u].id = walk.update /\ ~Masking(code[u])
  BY <1>3
<1>5. q \in 1 .. Len(code) /\ u \in q .. Len(code) /\ q < p
  BY <1>1
<1>6. Instr(walk.wr) = code[q]
  BY <1>1, <1>3, <1>5, InstrFound DEF Instr
<1> DEFINE slot == Slot(walk.update)
           w == SimdWidth
           i == code[p]
<1>7. slot \in Nat
  BY DEF Slot, NewValue
<1>8. /\ code' = WrRegionIn(code, code[q], i, walk.update, slot, w)
      /\ OriginalPred' = IF code[q].pred = AllOnes THEN OriginalPred
                         ELSE Assign(OriginalPred, walk.wr, code[q].pred)
  <2>1. code[q].id = walk.wr
    BY <1>3
  <2>2. QED
    BY <1>2, <1>6, <2>1 DEF PredicateWrRegion, WrRegionIn
<1>9. Alters(code, code', i, {code[q].id})
  <2>1. w \in Nat
    BY <1>1
  <2> HIDE DEF w, slot, i
  <2>2. \A j \in 0 .. 4 : Fresh(code, i, j)
    BY <1>1 DEF i
  <2>3. Alters(code, WrRegionIn(code, code[q], i, code[u].id, slot, w), i, {code[q].id})
    BY <1>1, <1>3, <1>4, <1>5, <1>7, <2>1, <2>2, WrRegionAlters
  <2>4. QED
    BY <1>4, <1>8, <2>3
<1>10. KeepsPreds
  <2>1. \A x \in DOMAIN OriginalPred' :
          x = walk.wr \/ (x \in DOMAIN OriginalPred /\ OriginalPred'[x] = OriginalPred[x])
    BY <1>8 DEF Assign
  <2>2. \A n \in 1 .. Len(code) : code[n].id = walk.wr => code[n].op # "gather_masked"
    <3>1. \A n \in 1 .. Len(code) : code[n].id = walk.wr => n = q
      BY <1>1, <1>3, <1>5 DEF Coded
    <3>2. QED
      BY <1>3, <3>1
  <2>3. QED
    BY <2>1, <2>2 DEF KeepsPreds
<1>11. todo' = todo \ {i.id} /\ UNCHANGED <<source, order, ends, begins, phase>>
  BY <1>2 DEF Advance
<1>12. {code[q].id} \cap (todo \ {i.id}) = {}
  <2>1. code[q].id \notin todo
    BY <1>5 DEF InstIs
  <2>2. QED
    BY <2>1
<1>13. QED
  BY <1>1, <1>9, <1>10, <1>11, <1>12, AltersKeeps

LEMMA StoreKeeps ==
  ASSUME PassInv, PredicateStore
  PROVE  PassInv' \/ (phase' = "stuck" /\ UNCHANGED <<source, code, todo, runVars>>)
<1>1. phase = "predicateBlock" /\ todo # {} /\ Inst.op = "store"
  BY DEF PredicateStore, At
<1>2. PICK p : InstIs(p)
  BY <1>1, InstAt DEF PassInv, MasksStay
<1>3. Inst = code[p]
  BY <1>2 DEF InstIs
<1>4. /\ Unmade(code, code[p].id)
      /\ \A n \in 0 .. 4 : Fresh(code, code[p], n)
      /\ p \in 1 .. Len(code) /\ Coded(code) /\ MasksClosed(code)
      /\ code[p].op # "unmask_end" /\ SimdWidth \in Nat
  <2>1. code[p].op \notin Ignored
    BY <1>1, <1>3 DEF Ignored
  <2>2. QED
    BY <1>1, <1>2, <2>1, TurnIs
<1> DEFINE i == code[p]
           walk == Walk(Inst)
           existing == ExistingPred(walk)
<1>5. CASE (Exempt(Inst) \/ walk.out = "leave") /\ Leave
  <2>1. todo' \subseteq todo /\ UNCHANGED <<code, OriginalPred, source, order, ends, begins, phase>>
    BY <1>5 DEF Leave, Advance
  <2>2. QED
    BY <1>1, <2>1, LeaveKeeps
<1>6. CASE phase' = "stuck" /\ UNCHANGED <<source, code, todo, runVars>>
  BY <1>6
<1>7. ASSUME ~Exempt(Inst), Advance,
             \/ walk.wr # 0 /\ PredicateWrRegion(walk.wr, walk.update)
             \/ /\ walk.wr = 0 /\ code' = SelectedStore(Inst, existing)
                /\ OriginalPred' = OriginalPred
             \/ walk.wr = 0 /\ UNCHANGED <<code, OriginalPred>>
      PROVE  PassInv'
  <2>1. ~Masking(i)
    <3>1. i.width # 1
      BY <1>3, <1>7 DEF Exempt
    <3>2. QED
      BY <1>1, <1>3, <1>4, <3>1 DEF MasksClosed
  <2>2. walk \in WalkStates(code, p)
    BY <1>1, <1>3, <1>4, <2>1, WalkIs
  <2> HIDE DEF walk
  <2>3. CASE walk.wr # 0 /\ PredicateWrRegion(walk.wr, walk.update)
    BY <1>1, <1>2, <1>3, <1>7, <2>2, <2>3, WrRegionKeeps
  <2>4. CASE UNCHANGED <<code, OriginalPred>>
    <3>1. todo' \subseteq todo /\ UNCHANGED <<source, order, ends, begins, phase>>
      BY <1>7 DEF Advance
    <3>2. QED
      BY <1>1, <2>4, <3>1, LeaveKeeps
  <2>5. CASE code' = SelectedStore(Inst, existing) /\ OriginalPred' = OriginalPred
    <3>1. existing \in {NoPred, GivenPred}
      BY <1>4, <2>2, ExistingGiven DEF ExistingPred
    <3> DEFINE n == NumChannels(Inst)
               w == SimdWidth
    <3>2. code' = SelectedIn(code, i, existing, w, n)
      BY <1>3, <2>5 DEF SelectedStore, SelectedIn
    <3> HIDE DEF existing
    <3>3. existing \in Int /\ (existing = NoPred \/ Defined(code, p, existing))
      <4>1. GivenPred \in Given /\ GivenPred \in Int
        BY FunctionsAssumption DEF Given
      <4>2. QED
        BY <3>1, <4>1 DEF Defined, NoPred
    <3>4. n \in Nat /\ w \in Nat
      BY <1>4, ChannelsNumber
    <3> HIDE DEF n, w
    <3>5. Alters(code, SelectedIn(code, code[p], existing, w, n), code[p], {})
      BY <1>1, <1>3, <1>4, <2>1, <3>3, <3>4, SelectedStoreAlters
    <3>6. Alters(code, code', i, {})
      BY <3>2, <3>5
    <3>7. KeepsPreds
      BY <2>5 DEF KeepsPreds
    <3>8. todo' = todo \ {i.id} /\ UNCHANGED <<source, order, ends, begins, phase>>
      BY <1>3, <1>7 DEF Advance
    <3>9. {} \cap (todo \ {i.id}) = {}
      OBVIOUS
    <3>10. QED
      BY <1>1, <1>2, <1>4, <3>6, <3>7, <3>8, <3>9, AltersKeeps
  <2>6. QED
    BY <1>7, <2>3, <2>4, <2>5
<1>8. QED
  <2> HIDE DEF walk, existing
  <2>1. QED
    BY <1>5, <1>6, <1>7 DEF PredicateStore, walk, existing

-----------------------------------------------------------------------------
(* The invariant of lowerUnmaskOps.                                        *)

\* The places of an unmask_begin, of the store and the load that take its mask
\* through a variable, and of the unmask_end.
RegionAt(c, q) ==
  /\ q.begin \in 1 .. Len(c) /\ q.store \in 1 .. Len(c)
  /\ q.load \in 1 .. Len(c) /\ q.end \in 1 .. Len(c)
  /\ q.begin < q.store /\ q.store < q.load /\ q.load < q.end
  /\ c[q.begin].op = "unmask_begin" /\ c[q.store].op = "store"
  /\ c[q.load].op = "load" /\ c[q.end].op = "unmask_end"
  /\ c[q.store].bb = c[q.begin].bb /\ c[q.load].bb = c[q.begin].bb /\ c[q.end].bb = c[q.begin].bb
  /\ c[q.load].args[1] \in MaskVariables
  /\ c[q.store].args[2] = c[q.load].args[1]
  /\ c[q.end].args[1] = c[q.load].id
  /\ c[q.end].id \in 1 .. IdStep - 1
  /\ \A k \in 1 .. Len(c) :
       c[k].op \in Writes /\ c[k].args[2] = c[q.load].args[1] => k = q.store

\* The region as the source has it, and with the mask saved and restored.
AsWritten(c, q) ==
  c[q.store].args[1] = c[q.begin].id /\ Unmade(c, c[q.end].id)

AsLowered(c, q) ==
  /\ q.begin - 2 \in 1 .. Len(c)
  /\ c[q.begin - 2].op = "savemask" /\ c[q.begin - 2].bb = c[q.begin].bb
  /\ c[q.begin - 1].op = "unmask" /\ c[q.begin - 1].bb = c[q.begin].bb
  /\ c[q.end - 1].op = "remask" /\ c[q.end - 1].bb = c[q.begin].bb
  /\ c[q.store].args[1] = c[q.begin - 2].id
  /\ Len(c[q.end - 1].args) = 1 /\ c[q.end - 1].args[1] = c[q.load].id
  /\ \A n \in 1 .. Len(c) : c[q.begin].id \notin Operands(c[n])

RegionsOf(c, Q) ==
  /\ \A q \in Q : RegionAt(c, q)
  /\ \A p, q \in Q : p # q =>
       /\ p.begin # q.begin /\ p.end # q.end
       /\ c[p.load].args[1] # c[q.load].args[1]
       /\ c[p.begin].bb = c[q.begin].bb /\ p.begin < q.begin =>
            p.end < q.begin \/ q.end < p.end
  /\ \A k \in 1 .. Len(c) : c[k].op = "unmask_end" => \E q \in Q : k = q.end

\* The regions Q, those of the unmask_end calls of e lowered.
LowerOK(c, e, b, Q) ==
  /\ Coded(c)
  /\ RegionsOf(c, Q)
  /\ \A q \in Q : IF c[q.end].id \in e THEN AsLowered(c, q) ELSE AsWritten(c, q)
  /\ \A k \in 1 .. Len(c) :
       /\ c[k].op = "unmask" => \E q \in Q : c[q.end].id \in e /\ k = q.begin - 1
       /\ c[k].op = "remask" => \E q \in Q : c[q.end].id \in e /\ k = q.end - 1
  /\ \A x \in e : \E q \in Q : c[q.end].id = x
  /\ \A x \in b : \E q \in Q : c[q.end].id \in e /\ c[q.begin].id = x
  /\ \A q \in Q : c[q.end].id \in e => c[q.begin].id \in b

\* The places of the regions of the source in the predicated code.
LEMMA LowerFirst ==
  ASSUME MasksStay
  PROVE  \E Q : LowerOK(code, {}, {}, Q)
<1> DEFINE a == source.code
           c == code
           R == {r \in Regions(a) : a[r.load].args[1] \in MaskVariables}
           g(n) == Place(c, a[n].id)
           at(r) == [begin |-> g(r.begin), store |-> g(r.store), load |-> g(r.load), end |-> g(r.end)]
           Q == {at(r) : r \in R}
<1>1. /\ source \in SourceFunctions
      /\ Coded(c) /\ Coded(a) /\ MasksClosed(c) /\ SameMasks(a, c) /\ MasksPaired(a)
      /\ \A k \in 1 .. Len(a) : Formed(a[k])
      /\ DOMAIN a = 1 .. Len(a) /\ DOMAIN c = 1 .. Len(c) /\ Len(a) \in Nat /\ Len(c) \in Nat
  <2>1. source \in SourceFunctions
    BY DEF MasksStay
  <2>2. Coded(a) /\ \A k \in 1 .. Len(a) : Formed(a[k])
    BY <2>1, SourceCoded
  <2>3. MasksPaired(a)
    BY <2>1, FunctionsAssumption
  <2>4. Coded(c) /\ MasksClosed(c) /\ SameMasks(a, c)
    BY DEF MasksStay
  <2>5. QED
    BY <2>1, <2>2, <2>3, <2>4, LenProperties DEF Coded
<1>2. ASSUME NEW n \in 1 .. Len(a), Masking(a[n])
      PROVE  g(n) \in 1 .. Len(c) /\ c[g(n)] = a[n]
  <2>1. PICK k \in 1 .. Len(c) : c[k] = a[n]
    BY <1>1, <1>2 DEF SameMasks
  <2>2. Place(c, c[k].id) = k
    BY <1>1, PlaceFound
  <2>3. QED
    BY <2>1, <2>2
<1>3. ASSUME NEW m \in 1 .. Len(a), NEW n \in 1 .. Len(a), Masking(a[m]), Masking(a[n]), m < n
      PROVE  g(m) < g(n)
  <2>1. g(m) \in 1 .. Len(c) /\ c[g(m)] = a[m] /\ g(n) \in 1 .. Len(c) /\ c[g(n)] = a[n]
    BY <1>2, <1>3
  <2> HIDE DEF g
  <2>2. QED
    BY <1>1, <1>3, <2>1 DEF SameMasks
<1>4. ASSUME NEW k \in 1 .. Len(c), Masking(c[k])
      PROVE  \E n \in 1 .. Len(a) : a[n] = c[k] /\ g(n) = k
  <2>1. PICK n \in 1 .. Len(a) : a[n] = c[k]
    BY <1>1, <1>4 DEF SameMasks
  <2>2. Place(c, c[k].id) = k
    BY <1>1, PlaceFound
  <2>3. QED
    BY <2>1, <2>2
<1> HIDE DEF g
<1>5. ASSUME NEW r \in R
      PROVE  /\ r.begin \in 1 .. Len(a) /\ a[r.begin].op = "unmask_begin"
             /\ r.store \in 1 .. Len(a) /\ a[r.store].op = "store"
             /\ r.load \in 1 .. Len(a) /\ a[r.load].op = "load"
             /\ r.end \in 1 .. Len(a) /\ a[r.end].op = "unmask_end"
             /\ r.begin < r.store /\ r.store < r.load /\ r.load < r.end
             /\ a[r.store].bb = a[r.begin].bb /\ a[r.load].bb = a[r.begin].bb
             /\ a[r.end].bb = a[r.begin].bb
             /\ a[r.store].args[1] = a[r.begin].id
             /\ a[r.load].args[1] = a[r.store].args[2]
             /\ a[r.load].args[1] \in MaskVariables
             /\ a[r.end].args[1] = a[r.load].id
  BY <1>1 DEF Regions, Of
<1>6. ASSUME NEW r \in R
      PROVE  Masking(a[r.begin]) /\ Masking(a[r.store]) /\ Masking(a[r.load]) /\ Masking(a[r.end])
  BY <1>5 DEF Masking, Writes
<1>7. ASSUME NEW r \in R
      PROVE  /\ g(r.begin) \in 1 .. Len(c) /\ c[g(r.begin)] = a[r.begin]
             /\ g(r.store) \in 1 .. Len(c) /\ c[g(r.store)] = a[r.store]
             /\ g(r.load) \in 1 .. Len(c) /\ c[g(r.load)] = a[r.load]
             /\ g(r.end) \in 1 .. Len(c) /\ c[g(r.end)] = a[r.end]
             /\ g(r.begin) < g(r.store) /\ g(r.store) < g(r.load) /\ g(r.load) < g(r.end)
  <2>1. /\ g(r.begin) \in 1 .. Len(c) /\ c[g(r.begin)] = a[r.begin]
        /\ g(r.store) \in 1 .. Len(c) /\ c[g(r.store)] = a[r.store]
        /\ g(r.load) \in 1 .. Len(c) /\ c[g(r.load)] = a[r.load]
        /\ g(r.end) \in 1 .. Len(c) /\ c[g(r.end)] = a[r.end]
    BY <1>2, <1>5, <1>6
  <2>2. g(r.begin) < g(r.store) /\ g(r.store) < g(r.load) /\ g(r.load) < g(r.end)
    BY <1>3, <1>5, <1>6
  <2>3. QED
    BY <2>1, <2>2
<1>8. ASSUME NEW r \in R, NEW s \in R, a[r.load].args[1] = a[s.load].args[1] PROVE r = s
  BY <1>1, <1>8 DEF MasksPaired, RegionsApart
<1>9. ASSUME NEW r \in R, NEW k \in 1 .. Len(c), c[k].op \in Writes,
             c[k].args[2] = a[r.load].args[1]
      PROVE  k = g(r.store)
  <2>1. Masking(c[k])
    BY <1>5, <1>9 DEF Masking
  <2>2. PICK n \in 1 .. Len(a) : a[n] = c[k] /\ g(n) = k
    BY <1>4, <2>1
  <2>7. n \in DOMAIN a /\ a[n].op \in Writes /\ a[n].args[2] \in MaskVariables
    BY <1>1, <1>5, <1>9, <2>2
  <2>8. \A m \in DOMAIN a : a[m].op \in Writes /\ a[m].args[2] \in MaskVariables =>
          \E s \in Regions(a) : s.store = m
    BY <1>1 DEF MasksPaired
  <2>3. PICK s \in Regions(a) : s.store = n
    BY <2>7, <2>8
  <2>4. a[s.load].args[1] = a[s.store].args[2]
    BY DEF Regions
  <2>5. s \in R /\ a[s.load].args[1] = a[r.load].args[1]
    BY <1>5, <1>9, <2>2, <2>3, <2>4
  <2>6. s = r
    BY <1>8, <2>5
  <2>9. QED
    BY <2>2, <2>3, <2>6
<1>10. ASSUME NEW q \in Q
       PROVE  RegionAt(c, q) /\ AsWritten(c, q)
  <2>1. PICK r \in R : q = at(r)
    OBVIOUS
  <2>2. q.begin = g(r.begin) /\ q.store = g(r.store) /\ q.load = g(r.load) /\ q.end = g(r.end)
    BY <2>1
  <2> HIDE DEF at, R, Q
  <2>3. \A k \in 1 .. Len(c) : c[k].op \in Writes /\ c[k].args[2] = a[r.load].args[1] => k = g(r.store)
    BY <1>9
  <2>4. Unmade(c, a[r.end].id) /\ a[r.end].id \in 1 .. IdStep - 1
    <3> DEFINE k == g(r.end)
    <3>1. k \in 1 .. Len(c) /\ c[k].op = "unmask_end" /\ c[k].id = a[r.end].id
      BY <1>5, <1>7
    <3> HIDE DEF k
    <3>2. Unmade(c, c[k].id)
      BY <3>1 DEF MasksStay
    <3>3. QED
      BY <3>1, <3>2 DEF Unmade
  <2>5. RegionAt(c, q)
    <3> DEFINE e == q.end
               l == q.load
               s == q.store
               b == q.begin
    <3>1. /\ b \in 1 .. Len(c) /\ s \in 1 .. Len(c) /\ l \in 1 .. Len(c) /\ e \in 1 .. Len(c)
          /\ b < s /\ s < l /\ l < e
      BY <1>7, <2>2
    <3>2. c[b] = a[r.begin] /\ c[s] = a[r.store] /\ c[l] = a[r.load] /\ c[e] = a[r.end]
      BY <1>7, <2>2
    <3>3. \A k \in 1 .. Len(c) : c[k].op \in Writes /\ c[k].args[2] = c[l].args[1] => k = s
      BY <2>2, <2>3, <3>2
    <3> HIDE DEF e, l, s, b
    <3>4. /\ c[b].op = "unmask_begin" /\ c[s].op = "store" /\ c[l].op = "load"
          /\ c[e].op = "unmask_end"
          /\ c[s].bb = c[b].bb /\ c[l].bb = c[b].bb /\ c[e].bb = c[b].bb
          /\ c[l].args[1] \in MaskVariables /\ c[s].args[2] = c[l].args[1]
          /\ c[e].args[1] = c[l].id
      BY <1>5, <3>2
    <3>5. c[e].id \in 1 .. IdStep - 1
      BY <2>4, <3>2
    <3>6. QED
      BY <3>1, <3>3, <3>4, <3>5 DEF RegionAt, e, l, s, b
  <2>6. AsWritten(c, q)
    <3>1. c[q.store] = a[r.store] /\ c[q.begin] = a[r.begin] /\ c[q.end] = a[r.end]
      BY <1>7, <2>2
    <3>2. a[r.store].args[1] = a[r.begin].id
      BY <1>5
    <3>3. QED
      BY <2>4, <3>1, <3>2 DEF AsWritten
  <2>7. QED
    BY <2>5, <2>6
<1>11. ASSUME NEW p \in Q, NEW q \in Q, p # q
       PROVE  /\ p.begin # q.begin /\ p.end # q.end
              /\ c[p.load].args[1] # c[q.load].args[1]
              /\ c[p.begin].bb = c[q.begin].bb /\ p.begin < q.begin =>
                   p.end < q.begin \/ q.end < p.end
  <2>1. PICK r \in R : p = at(r)
    OBVIOUS
  <2>2. PICK s \in R : q = at(s)
    OBVIOUS
  <2>3. r # s
    BY <1>11, <2>1, <2>2
  <2>4. p.begin = g(r.begin) /\ p.load = g(r.load) /\ p.end = g(r.end)
        /\ q.begin = g(s.begin) /\ q.load = g(s.load) /\ q.end = g(s.end)
    BY <2>1, <2>2
  <2>5. /\ r.begin # s.begin /\ a[r.load].args[1] # a[s.load].args[1]
        /\ a[r.begin].bb = a[s.begin].bb /\ r.begin < s.begin => r.end < s.begin \/ s.end < r.end
    BY <1>1, <2>3 DEF MasksPaired, RegionsApart
  <2> HIDE DEF at, R, Q
  <2>6. \A m, n \in 1 .. Len(a) : Masking(a[m]) /\ Masking(a[n]) /\ g(m) = g(n) => m = n
    <3>1. ASSUME NEW m \in 1 .. Len(a), NEW n \in 1 .. Len(a), Masking(a[m]), Masking(a[n]), g(m) = g(n)
          PROVE  m = n
      <4>1. a[m] = a[n]
        BY <1>2, <3>1
      <4>2. QED
        BY <1>1, <4>1 DEF Coded
    <3>2. QED
      BY <3>1
  <2>7. p.begin # q.begin
    <3>1. Masking(a[r.begin]) /\ Masking(a[s.begin])
      BY <1>6
    <3>2. r.begin \in 1 .. Len(a) /\ s.begin \in 1 .. Len(a) /\ r.begin # s.begin
      BY <1>5, <2>5
    <3>3. QED
      BY <2>4, <2>6, <3>1, <3>2
  <2>8. c[p.load].args[1] # c[q.load].args[1]
    BY <1>7, <2>4, <2>5
  <2>9. p.end # q.end
    <3>1. ASSUME r.end = s.end PROVE FALSE
      <4>1. a[r.load].id = a[s.load].id
        BY <1>5, <3>1, ZenonT(60)
      <4>2. r.load = s.load
        BY <1>1, <1>5, <4>1 DEF Coded
      <4>3. QED
        BY <2>5, <4>2
    <3>2. Masking(a[r.end]) /\ Masking(a[s.end])
      BY <1>6
    <3>3. r.end \in 1 .. Len(a) /\ s.end \in 1 .. Len(a) /\ r.end # s.end
      BY <1>5, <3>1
    <3>4. QED
      BY <2>4, <2>6, <3>2, <3>3
  <2>10. ASSUME c[p.begin].bb = c[q.begin].bb, p.begin < q.begin
         PROVE  p.end < q.begin \/ q.end < p.end
    <3>1. a[r.begin].bb = a[s.begin].bb
      BY <1>7, <2>4, <2>10
    <3>2. ~(s.begin < r.begin)
      <4>1. ASSUME s.begin < r.begin PROVE FALSE
        <5>1. g(s.begin) < g(r.begin)
          BY <1>3, <1>5, <1>6, <4>1
        <5>2. QED
          BY <1>7, <2>4, <2>10, <5>1
      <4>2. QED
        BY <4>1
    <3>3. r.begin < s.begin
      BY <1>5, <2>5, <3>2
    <3>4. r.end < s.begin \/ s.end < r.end
      BY <2>5, <3>1, <3>3
    <3>5. QED
      BY <1>3, <1>5, <1>6, <2>4, <3>4, ZenonT(60)
  <2>11. QED
    BY <2>7, <2>8, <2>9, <2>10
<1>12. ASSUME NEW k \in 1 .. Len(c), c[k].op = "unmask_end" PROVE \E q \in Q : k = q.end
  <2>1. Masking(c[k])
    BY <1>12 DEF Masking
  <2>2. PICK n \in 1 .. Len(a) : a[n] = c[k] /\ g(n) = k
    BY <1>4, <2>1
  <2>3. PICK r \in Regions(a) : r.end = n /\ a[r.load].args[1] \in MaskVariables
    BY <1>1, <1>12, <2>2 DEF MasksPaired, Of
  <2>4. at(r) \in Q /\ at(r).end = k
    BY <2>2, <2>3
  <2>5. QED
    BY <2>4
<1> HIDE DEF Q
<1>13. RegionsOf(c, Q)
  BY <1>10, <1>11, <1>12 DEF RegionsOf
<1>14. \A k \in 1 .. Len(c) : c[k].op # "unmask" /\ c[k].op # "remask"
  BY DEF MasksStay
<1>15. LowerOK(c, {}, {}, Q)
  BY <1>1, <1>10, <1>13, <1>14 DEF LowerOK
<1>16. QED
  BY <1>15

-----------------------------------------------------------------------------
(* One unmask_end: the regions move with the code.                         *)

\* What lowerUnmaskOps does for an unmask_begin and its unmask_end.
LoweredCode(c, begin, end) ==
  LET saved == MaskSaved(begin, end)
  IN  Insert(ReplaceUses(Insert(c, begin.id, saved), begin.id, saved[1].id), end.id, Remask(end))

Shift(b, e, n) == IF n < b THEN n ELSE IF n < e THEN n + 2 ELSE n + 3

\* What has become of i where uses of old are replaced.
RenamedAs(i, j, old, new) ==
  /\ j.id = i.id /\ j.op = i.op /\ j.bb = i.bb /\ Len(j.args) = Len(i.args)
  /\ \A m \in 1 .. Len(i.args) : j.args[m] = Renamed(i.args[m], old, new)
  /\ \A x \in Operands(j) :
       (x = new /\ old \in Operands(i)) \/ (x \in Operands(i) /\ x # old)

Moved(c, d, b, e) ==
  /\ Coded(d) /\ Len(d) = Len(c) + 3
  /\ \A n \in 1 .. Len(c) : RenamedAs(c[n], d[Shift(b, e, n)], c[b].id, Id(c[e], 0))
  /\ \A k \in 1 .. Len(d) :
       k \in {b, b + 1, e + 2} \/ \E n \in 1 .. Len(c) : k = Shift(b, e, n)
  /\ d[b].id = Id(c[e], 0) /\ d[b].op = "savemask" /\ d[b].bb = c[b].bb /\ Operands(d[b]) = {}
  /\ d[b + 1].id = Id(c[e], 1) /\ d[b + 1].op = "unmask" /\ d[b + 1].bb = c[b].bb
  /\ Operands(d[b + 1]) \subseteq {Id(c[e], 0)}
  /\ d[e + 2].id = Id(c[e], 2) /\ d[e + 2].op = "remask" /\ d[e + 2].bb = c[e].bb
  /\ Len(d[e + 2].args) = 1 /\ d[e + 2].args[1] = c[e].args[1]
  /\ Operands(d[e + 2]) = {c[e].args[1]}

\* The new instructions.
LEMMA MaskSavedIs ==
  ASSUME NEW begin, begin.bb \in Nat, NEW end, end.id \in 1 .. IdStep - 1
  PROVE  LET s == MaskSaved(begin, end) IN
         /\ s \in Seq(Instruction) /\ Len(s) = 2
         /\ s[1].id = Id(end, 0) /\ s[1].op = "savemask" /\ s[1].bb = begin.bb
         /\ Operands(s[1]) = {} /\ Shaped(s[1])
         /\ s[2].id = Id(end, 1) /\ s[2].op = "unmask" /\ s[2].bb = begin.bb
         /\ Operands(s[2]) = {Id(end, 0)} /\ Shaped(s[2])
<1> DEFINE x == Id(end, 0)
           y == Id(end, 1)
           a == New(begin, x, "savemask", 1, <<>>)
           b == New(begin, y, "unmask", 0, <<x>>)
<1>1. x \in Nat \ {0} /\ y \in Nat \ {0}
  <2>1. x \in Made(end.id) /\ y \in Made(end.id)
    BY DEF Made, Id
  <2>2. QED
    BY <2>1, MadeIds
<1>2. MaskSaved(begin, end) = <<a, b>>
  BY DEF MaskSaved, New
<1> HIDE DEF x, y
<1>3. a \in Instruction /\ b \in Instruction
  BY <1>1 DEF New, NoPred, Instruction, Kinds
<1>4. /\ a.id = x /\ a.op = "savemask" /\ a.bb = begin.bb /\ a.args = <<>> /\ a.pred = NoPred
      /\ b.id = y /\ b.op = "unmask" /\ b.bb = begin.bb /\ b.args = <<x>> /\ b.pred = NoPred
  BY DEF New
<1>5. Operands(a) = {} /\ Operands(b) = {x}
  <2>1. Range(<<>>) = {} /\ Range(<<x>>) = {x}
    BY DEF Range
  <2>2. QED
    BY <1>4, <2>1 DEF Operands
<1>6. Shaped(a) /\ Shaped(b)
  BY <1>4 DEF Shaped, ScatterGathers, Sends, Writes, MaskedGathers
<1> HIDE DEF a, b
<1>7. <<a, b>> \in Seq(Instruction) /\ Len(<<a, b>>) = 2 /\ <<a, b>>[1] = a /\ <<a, b>>[2] = b
  BY <1>3
<1>8. QED
  BY <1>2, <1>4, <1>5, <1>6, <1>7 DEF x, y

LEMMA RemaskIs ==
  ASSUME NEW end \in Instruction, end.id \in 1 .. IdStep - 1, Len(end.args) = 1
  PROVE  LET s == Remask(end) IN
         /\ s \in Seq(Instruction) /\ Len(s) = 1
         /\ s[1].id = Id(end, 2) /\ s[1].op = "remask" /\ s[1].bb = end.bb
         /\ Len(s[1].args) = 1 /\ s[1].args[1] = end.args[1]
         /\ Operands(s[1]) = {end.args[1]} /\ Shaped(s[1])
<1> DEFINE x == Id(end, 2)
           a == New(end, x, "remask", 0, end.args)
<1>1. x \in Nat \ {0}
  <2>1. x \in Made(end.id)
    BY DEF Made, Id
  <2>2. QED
    BY <2>1, MadeIds
<1>2. Remask(end) = <<a>>
  BY DEF Remask
<1> HIDE DEF x
<1>3. a \in Instruction
  BY <1>1 DEF New, NoPred, Instruction, Kinds
<1>4. a.id = x /\ a.op = "remask" /\ a.bb = end.bb /\ a.args = end.args /\ a.pred = NoPred
  BY DEF New
<1>5. Operands(a) = {end.args[1]}
  <2>1. end.args \in Seq(Int)
    BY DEF Instruction
  <2>2. DOMAIN end.args = {1}
    BY <2>1, LenProperties
  <2>3. Range(end.args) = {end.args[1]}
    BY <2>2 DEF Range
  <2>4. QED
    BY <1>4, <2>3 DEF Operands
<1>6. Shaped(a)
  BY <1>4 DEF Shaped, ScatterGathers, Sends, Writes, MaskedGathers
<1> HIDE DEF a
<1>7. <<a>> \in Seq(Instruction) /\ Len(<<a>>) = 1 /\ <<a>>[1] = a
  BY <1>3
<1>8. QED
  BY <1>2, <1>4, <1>5, <1>6, <1>7 DEF x

\* The first insertion.
SavedIn(c, d, b, e) ==
  /\ Coded(d) /\ Len(d) = Len(c) + 2
  /\ \A n \in 1 .. Len(c) : d[IF n < b THEN n ELSE n + 2] = c[n]
  /\ d[b].id = Id(c[e], 0) /\ d[b].op = "savemask" /\ d[b].bb = c[b].bb /\ Operands(d[b]) = {}
  /\ d[b + 1].id = Id(c[e], 1) /\ d[b + 1].op = "unmask" /\ d[b + 1].bb = c[b].bb
  /\ Operands(d[b + 1]) = {Id(c[e], 0)}

LEMMA SaveInserted ==
  ASSUME NEW c, Coded(c), NEW b \in 1 .. Len(c), NEW e \in 1 .. Len(c), Unmade(c, c[e].id)
  PROVE  SavedIn(c, Insert(c, c[b].id, MaskSaved(c[b], c[e])), b, e)
<1> DEFINE s == MaskSaved(c[b], c[e])
           d == Insert(c, c[b].id, s)
<1>1. c[b] \in Instruction /\ c[e] \in Instruction /\ Len(c) \in Nat
  BY ElementOfSeq, LenProperties DEF Coded
<1>2. c[b].bb \in Nat /\ c[e].id \in 1 .. IdStep - 1
  BY <1>1 DEF Instruction, Unmade
<1>3. /\ s \in Seq(Instruction) /\ Len(s) = 2
      /\ s[1].id = Id(c[e], 0) /\ s[1].op = "savemask" /\ s[1].bb = c[b].bb
      /\ Operands(s[1]) = {} /\ Shaped(s[1])
      /\ s[2].id = Id(c[e], 1) /\ s[2].op = "unmask" /\ s[2].bb = c[b].bb
      /\ Operands(s[2]) = {Id(c[e], 0)} /\ Shaped(s[2])
  BY <1>2, MaskSavedIs
<1> HIDE DEF s
<1>4. /\ Id(c[e], 0) \in Made(c[e].id) /\ Id(c[e], 1) \in Made(c[e].id)
      /\ Id(c[e], 0) # Id(c[e], 1)
  <2>1. Id(c[e], 0) # Id(c[e], 1)
    BY <1>2, IdsApart
  <2>2. QED
    BY <2>1 DEF Id, Made
<1>5. /\ Id(c[e], 0) \notin Given /\ Id(c[e], 1) \notin Given
      /\ \A m \in 1 .. Len(c) : c[m].id # Id(c[e], 0) /\ c[m].id # Id(c[e], 1)
  BY <1>2, <1>4, MadeIds DEF Unmade
<1>6. Addable(c, b, s)
  <2>1. 1 .. Len(s) = {1, 2}
    BY <1>3
  <2>2. \A m, n \in {1, 2} : s[m].id = s[n].id => m = n
    BY <1>3, <1>4
  <2>3. ASSUME NEW n \in {1, 2}
        PROVE  /\ s[n].id \notin Given /\ Shaped(s[n]) /\ s[n].op # "unmask_end"
               /\ \A m \in 1 .. Len(c) : s[n].id # c[m].id
               /\ \A x \in Operands(s[n]) : Defined(c, b, x) \/ \E m \in 1 .. n - 1 : s[m].id = x
    <3>1. CASE n = 1
      BY <1>3, <1>5, <3>1
    <3>2. CASE n = 2
      <4>1. 1 \in 1 .. n - 1
        BY <3>2
      <4>2. \A x \in Operands(s[n]) : s[1].id = x
        BY <1>3, <3>2
      <4>3. QED
        BY <1>3, <1>5, <3>2, <4>1, <4>2
    <3>3. QED
      BY <3>1, <3>2
  <2>4. QED
    BY <1>3, <2>1, <2>2, <2>3 DEF Addable
<1>7. Coded(d)
  BY <1>6, InsertCoded
<1>8. /\ Len(d) = Len(c) + Len(s)
      /\ \A n \in 1 .. b - 1 : d[n] = c[n]
      /\ \A n \in 1 .. Len(s) : d[b - 1 + n] = s[n]
      /\ \A n \in b .. Len(c) : d[n + Len(s)] = c[n]
  <2>1. s \in Seq(Instruction)
    BY <1>3
  <2>2. InsertedAs(c, d, b, s)
    BY <2>1, InsertIs
  <2>3. QED
    BY <2>2 DEF InsertedAs
<1> HIDE DEF d
<1>9. d[b] = s[1] /\ d[b + 1] = s[2]
  <2>1. d[b - 1 + 1] = s[1] /\ d[b - 1 + 2] = s[2]
    <3>1. 1 \in 1 .. Len(s) /\ 2 \in 1 .. Len(s)
      BY <1>3
    <3>2. QED
      BY <1>8, <3>1
  <2>2. b - 1 + 1 = b /\ b - 1 + 2 = b + 1
    OBVIOUS
  <2>3. QED
    BY <2>1, <2>2
<1>10. ASSUME NEW n \in 1 .. Len(c) PROVE d[IF n < b THEN n ELSE n + 2] = c[n]
  <2>1. CASE n < b
    <3>1. n \in 1 .. b - 1
      BY <2>1
    <3>2. QED
      BY <1>8, <2>1, <3>1
  <2>2. CASE ~(n < b)
    <3>1. n \in b .. Len(c)
      BY <1>1, <2>2
    <3>2. QED
      BY <1>3, <1>8, <2>2, <3>1
  <2>3. QED
    BY <2>1, <2>2
<1>11. SavedIn(c, d, b, e)
  BY <1>3, <1>7, <1>8, <1>9, <1>10 DEF SavedIn
<1>12. QED
  BY <1>11 DEF d, s

\* The first insertion and the change of uses.
SavedUsed(c, d, b, e) ==
  /\ Coded(d) /\ Len(d) = Len(c) + 2
  /\ \A n \in 1 .. Len(c) :
       RenamedAs(c[n], d[IF n < b THEN n ELSE n + 2], c[b].id, Id(c[e], 0))
  /\ d[b].id = Id(c[e], 0) /\ d[b].op = "savemask" /\ d[b].bb = c[b].bb /\ Operands(d[b]) = {}
  /\ d[b + 1].id = Id(c[e], 1) /\ d[b + 1].op = "unmask" /\ d[b + 1].bb = c[b].bb
  /\ Operands(d[b + 1]) \subseteq {Id(c[e], 0)}

LEMMA SaveUsed ==
  ASSUME NEW c, Coded(c), NEW d, NEW b \in 1 .. Len(c), NEW e \in 1 .. Len(c),
         SavedIn(c, d, b, e)
  PROVE  SavedUsed(c, ReplaceUses(d, c[b].id, Id(c[e], 0)), b, e)
<1> DEFINE old == c[b].id
           new == Id(c[e], 0)
           f == ReplaceUses(d, old, new)
           at(n) == IF n < b THEN n ELSE n + 2
<1>1. Coded(d) /\ Len(d) = Len(c) + 2 /\ Len(c) \in Nat
  BY LenProperties DEF SavedIn, Coded
<1>2. /\ \A n \in 1 .. Len(c) : at(n) \in 1 .. Len(d) /\ d[at(n)] = c[n]
      /\ b \in 1 .. Len(d) /\ b + 1 \in 1 .. Len(d) /\ b + 2 \in 1 .. Len(d)
      /\ d[b].id = new /\ d[b + 2].id = old
  <2>1. \A n \in 1 .. Len(c) : at(n) \in 1 .. Len(d)
    BY <1>1
  <2>2. b \in 1 .. Len(d) /\ b + 1 \in 1 .. Len(d) /\ b + 2 \in 1 .. Len(d)
    BY <1>1
  <2>3. d[b + 2] = c[b]
    BY DEF SavedIn
  <2>4. QED
    BY <2>1, <2>2, <2>3 DEF SavedIn
<1> HIDE DEF at
<1>3. new \in Nat \ {0} /\ old \in Nat \ {0}
  <2>1. d[b] \in Instruction /\ d[b + 2] \in Instruction
    BY <1>1, <1>2, ElementOfSeq DEF Coded
  <2>2. QED
    BY <1>2, <2>1 DEF Instruction
<1>4. Coded(f)
  <2> DEFINE m == b + 2
  <2>1. m \in 1 .. Len(d) /\ b \in 1 .. m - 1 /\ d[m].id = old /\ d[b].id = new
    BY <1>2
  <2>2. d[b].op # "unmask_end"
    BY DEF SavedIn
  <2> HIDE DEF m
  <2>3. Coded(ReplaceUses(d, d[m].id, d[b].id))
    BY <1>1, <2>1, <2>2, ReplaceCoded
  <2>4. QED
    BY <2>1, <2>3
<1> HIDE DEF new, old
<1>5. UsesReplaced(d, f, old, new)
  BY <1>1, <1>3, ReplaceIs
<1>6. \A n \in 1 .. Len(d) : \A x \in Operands(f[n]) :
        (x = new /\ old \in Operands(d[n])) \/ (x \in Operands(d[n]) /\ x # old)
  BY <1>1, <1>3, RenamedOperands
<1> HIDE DEF f
<1>7. \A n \in 1 .. Len(d) : RenamedAs(d[n], f[n], old, new)
  BY <1>5, <1>6 DEF RenamedAs, UsesReplaced
<1>8. \A n \in 1 .. Len(c) : RenamedAs(c[n], f[at(n)], old, new)
  BY <1>2, <1>7
<1>9. RenamedAs(d[b], f[b], old, new) /\ RenamedAs(d[b + 1], f[b + 1], old, new)
  BY <1>2, <1>7
<1>10. /\ f[b].id = new /\ f[b].op = "savemask" /\ f[b].bb = c[b].bb /\ Operands(f[b]) = {}
  BY <1>9 DEF RenamedAs, SavedIn, new
<1>11. /\ f[b + 1].id = Id(c[e], 1) /\ f[b + 1].op = "unmask" /\ f[b + 1].bb = c[b].bb
       /\ Operands(f[b + 1]) \subseteq {new}
  <2>1. f[b + 1].id = Id(c[e], 1) /\ f[b + 1].op = "unmask" /\ f[b + 1].bb = c[b].bb
    BY <1>9 DEF RenamedAs, SavedIn
  <2>2. Operands(d[b + 1]) = {new}
    BY DEF SavedIn, new
  <2>3. Operands(f[b + 1]) \subseteq {new}
    BY <1>9, <2>2 DEF RenamedAs
  <2>4. QED
    BY <2>1, <2>3
<1>12. Len(f) = Len(c) + 2
  BY <1>1, <1>5 DEF UsesReplaced
<1>13. SavedUsed(c, f, b, e)
  BY <1>4, <1>8, <1>10, <1>11, <1>12 DEF SavedUsed, at, old, new
<1>14. QED
  BY <1>13 DEF f, old, new

LEMMA RemaskInserted ==
  ASSUME NEW c, Coded(c), NEW b \in 1 .. Len(c), NEW e \in 1 .. Len(c), b < e,
         Unmade(c, c[e].id), c[e].op = "unmask_end", c[e].args[1] # c[b].id,
         NEW d, SavedUsed(c, d, b, e)
  PROVE  Moved(c, Insert(d, c[e].id, Remask(c[e])), b, e)
<1> DEFINE k == e + 2
           s == Remask(c[e])
           f == Insert(d, c[e].id, s)
           old == c[b].id
           new == Id(c[e], 0)
<1>1. /\ Coded(d) /\ Len(d) = Len(c) + 2 /\ Len(c) \in Nat /\ c[e] \in Instruction
      /\ c[e].id \in 1 .. IdStep - 1 /\ Shaped(c[e])
  BY ElementOfSeq, LenProperties DEF SavedUsed, Coded, Unmade
<1>2. Len(c[e].args) = 1
  BY <1>1 DEF Shaped
<1>3. /\ s \in Seq(Instruction) /\ Len(s) = 1
      /\ s[1].id = Id(c[e], 2) /\ s[1].op = "remask" /\ s[1].bb = c[e].bb
      /\ Len(s[1].args) = 1 /\ s[1].args[1] = c[e].args[1]
      /\ Operands(s[1]) = {c[e].args[1]} /\ Shaped(s[1])
  BY <1>1, <1>2, RemaskIs
<1> HIDE DEF s
<1>4. k \in 1 .. Len(d) /\ RenamedAs(c[e], d[k], old, new)
  <2>1. k \in 1 .. Len(d)
    BY <1>1
  <2>2. ~(e < b)
    OBVIOUS
  <2>3. QED
    BY <2>1, <2>2 DEF SavedUsed
<1> HIDE DEF k
<1>5. d[k].id = c[e].id /\ d[k].args[1] = c[e].args[1] /\ Defined(d, k, c[e].args[1])
  <2>1. d[k].id = c[e].id /\ Len(d[k].args) = 1
    BY <1>2, <1>4 DEF RenamedAs
  <2>2. 1 \in 1 .. Len(c[e].args) /\ 1 \in 1 .. Len(d[k].args)
    BY <1>2, <2>1
  <2>3. d[k].args[1] = c[e].args[1]
    BY <1>4, <2>2 DEF RenamedAs, Renamed
  <2>4. Defined(d, k, d[k].args[1])
    BY <1>1, <1>4, <2>2, ArgDefined
  <2>5. QED
    BY <2>1, <2>3, <2>4
<1>6. \A m \in 1 .. Len(d) :
        \/ m = b /\ d[m].id = Id(c[e], 0)
        \/ m = b + 1 /\ d[m].id = Id(c[e], 1)
        \/ \E n \in 1 .. Len(c) : m = (IF n < b THEN n ELSE n + 2) /\ d[m].id = c[n].id
  <2> SUFFICES ASSUME NEW m \in 1 .. Len(d)
               PROVE  \/ m = b \/ m = b + 1
                      \/ \E n \in 1 .. Len(c) : m = (IF n < b THEN n ELSE n + 2)
    <3>1. /\ d[b].id = Id(c[e], 0) /\ d[b + 1].id = Id(c[e], 1)
          /\ \A n \in 1 .. Len(c) : d[IF n < b THEN n ELSE n + 2].id = c[n].id
      BY DEF SavedUsed, RenamedAs
    <3>2. QED
      BY <3>1
  <2>1. CASE m < b
    <3>1. m \in 1 .. Len(c) /\ m = IF m < b THEN m ELSE m + 2
      BY <1>1, <2>1
    <3>2. QED
      BY <3>1
  <2>2. CASE m > b + 1
    <3> DEFINE n == m - 2
    <3>1. n \in 1 .. Len(c) /\ m = IF n < b THEN n ELSE n + 2
      BY <1>1, <2>2
    <3>2. QED
      BY <3>1
  <2>3. CASE m \in {b, b + 1}
    BY <2>3
  <2>4. QED
    BY <2>1, <2>2, <2>3
<1>7. Id(c[e], 2) \notin Given /\ \A m \in 1 .. Len(d) : d[m].id # Id(c[e], 2)
  <2>1. Id(c[e], 2) \in Made(c[e].id)
    BY DEF Id, Made
  <2>2. Id(c[e], 0) # Id(c[e], 2) /\ Id(c[e], 1) # Id(c[e], 2)
    BY <1>1, IdsApart
  <2>3. \A n \in 1 .. Len(c) : c[n].id # Id(c[e], 2)
    BY <2>1 DEF Unmade
  <2>4. Id(c[e], 2) \notin Given
    BY <1>1, <2>1, MadeIds
  <2>5. QED
    BY <1>6, <2>2, <2>3, <2>4
<1>8. Addable(d, k, s)
  <2>1. 1 .. Len(s) = {1}
    BY <1>3
  <2>2. QED
    BY <1>3, <1>5, <1>7, <2>1 DEF Addable
<1>9. Coded(f)
  <2>1. Coded(Insert(d, d[k].id, s))
    BY <1>1, <1>4, <1>8, InsertCoded
  <2>2. QED
    BY <1>5, <2>1
<1>10. InsertedAs(d, f, k, s)
  <2>1. InsertedAs(d, Insert(d, d[k].id, s), k, s)
    BY <1>1, <1>3, <1>4, InsertIs
  <2>2. QED
    BY <1>5, <2>1
<1> HIDE DEF f
<1>11. /\ Len(f) = Len(c) + 3
       /\ \A n \in 1 .. k - 1 : f[n] = d[n]
       /\ f[k] = s[1]
       /\ \A n \in k .. Len(d) : f[n + 1] = d[n]
  <2>1. f[k - 1 + 1] = s[1] /\ k - 1 + 1 = k
    <3>1. 1 \in 1 .. Len(s)
      BY <1>3
    <3>2. k - 1 + 1 = k
      BY <1>4
    <3>3. QED
      BY <1>10, <3>1, <3>2 DEF InsertedAs
  <2>2. QED
    BY <1>1, <1>3, <1>10, <2>1 DEF InsertedAs
<1>12. ASSUME NEW n \in 1 .. Len(c)
       PROVE  f[Shift(b, e, n)] = d[IF n < b THEN n ELSE n + 2]
  <2>1. CASE n < b
    <3>1. n \in 1 .. k - 1
      BY <2>1 DEF k
    <3>2. QED
      BY <1>11, <2>1, <3>1 DEF Shift
  <2>2. CASE ~(n < b) /\ n < e
    <3>1. n + 2 \in 1 .. k - 1
      BY <2>2 DEF k
    <3>2. QED
      BY <1>11, <2>2, <3>1 DEF Shift
  <2>3. CASE ~(n < b) /\ ~(n < e)
    <3>1. n + 2 \in k .. Len(d) /\ (n + 2) + 1 = n + 3
      BY <1>1, <2>3 DEF k
    <3>2. f[n + 3] = d[n + 2]
      BY <1>11, <3>1
    <3>3. QED
      BY <2>3, <3>2 DEF Shift
  <2>4. QED
    BY <2>1, <2>2, <2>3
<1>13. \A n \in 1 .. Len(c) : RenamedAs(c[n], f[Shift(b, e, n)], old, new)
  BY <1>12 DEF SavedUsed
<1>14. ASSUME NEW m \in 1 .. Len(f)
       PROVE  m \in {b, b + 1, e + 2} \/ \E n \in 1 .. Len(c) : m = Shift(b, e, n)
  <2>1. CASE m < b
    <3>1. m \in 1 .. Len(c) /\ m = Shift(b, e, m)
      BY <1>1, <2>1 DEF Shift
    <3>2. QED
      BY <3>1
  <2>2. CASE m > b + 1 /\ m < e + 2
    <3> DEFINE n == m - 2
    <3>1. n \in 1 .. Len(c) /\ m = Shift(b, e, n)
      BY <1>1, <2>2 DEF Shift
    <3>2. QED
      BY <3>1
  <2>3. CASE m > e + 2
    <3> DEFINE n == m - 3
    <3>1. n \in 1 .. Len(c) /\ m = Shift(b, e, n)
      BY <1>1, <1>11, <2>3 DEF Shift
    <3>2. QED
      BY <3>1
  <2>4. m < b \/ (m > b + 1 /\ m < e + 2) \/ m > e + 2 \/ m \in {b, b + 1, e + 2}
    BY <1>1, <1>11
  <2>5. QED
    BY <2>1, <2>2, <2>3, <2>4
<1>15. f[b] = d[b] /\ f[b + 1] = d[b + 1]
  <2>1. b \in 1 .. k - 1 /\ b + 1 \in 1 .. k - 1
    BY DEF k
  <2>2. QED
    BY <1>11, <2>1
<1>16. Moved(c, f, b, e)
  BY <1>3, <1>9, <1>11, <1>13, <1>14, <1>15 DEF Moved, SavedUsed, k, old, new
<1>17. QED
  BY <1>16 DEF f, s

LEMMA MaskMoves ==
  ASSUME NEW c, Coded(c), NEW b \in 1 .. Len(c), NEW e \in 1 .. Len(c), b < e,
         Unmade(c, c[e].id), c[e].op = "unmask_end", c[e].args[1] # c[b].id
  PROVE  Moved(c, LoweredCode(c, c[b], c[e]), b, e)
<1> DEFINE saved == MaskSaved(c[b], c[e])
           d == Insert(c, c[b].id, saved)
           f == ReplaceUses(d, c[b].id, Id(c[e], 0))
<1>1. SavedIn(c, d, b, e)
  BY SaveInserted
<1>2. saved[1].id = Id(c[e], 0)
  <2>1. c[b] \in Instruction
    BY ElementOfSeq DEF Coded
  <2>2. c[b].bb \in Nat
    BY <2>1 DEF Instruction
  <2>3. QED
    BY <2>2, MaskSavedIs DEF Unmade
<1>3. LoweredCode(c, c[b], c[e]) = Insert(f, c[e].id, Remask(c[e]))
  BY <1>2 DEF LoweredCode
<1> HIDE DEF d
<1>4. SavedUsed(c, f, b, e)
  BY <1>1, SaveUsed
<1> HIDE DEF f
<1>5. QED
  BY <1>3, <1>4, RemaskInserted

\* A region of the code moves with it.
ShiftAt(r, q) ==
  [begin |-> Shift(r.begin, r.end, q.begin), store |-> Shift(r.begin, r.end, q.store),
   load |-> Shift(r.begin, r.end, q.load), end |-> Shift(r.begin, r.end, q.end)]

\* The region r of c is lowered, which gives d.
Lowers(c, d, Q, r) ==
  /\ Coded(c) /\ RegionsOf(c, Q) /\ r \in Q /\ AsWritten(c, r)
  /\ Moved(c, d, r.begin, r.end)

LEMMA ShiftIs ==
  ASSUME NEW c, NEW d, NEW Q, NEW r, Lowers(c, d, Q, r), NEW n \in 1 .. Len(c)
  PROVE  /\ Shift(r.begin, r.end, n) \in 1 .. Len(d)
         /\ RenamedAs(c[n], d[Shift(r.begin, r.end, n)], c[r.begin].id, Id(c[r.end], 0))
         /\ \A m \in 1 .. Len(c) : m < n <=> Shift(r.begin, r.end, m) < Shift(r.begin, r.end, n)
         /\ \A m \in 1 .. Len(c) : m = n <=> Shift(r.begin, r.end, m) = Shift(r.begin, r.end, n)
<1>1. /\ Len(c) \in Nat /\ Len(d) = Len(c) + 3
      /\ r.begin \in 1 .. Len(c) /\ r.end \in 1 .. Len(c) /\ r.begin < r.end
  <2>1. RegionAt(c, r)
    BY DEF Lowers, RegionsOf
  <2>2. Len(c) \in Nat /\ Len(d) = Len(c) + 3
    BY LenProperties DEF Lowers, Moved, Coded
  <2>3. QED
    BY <2>1, <2>2 DEF RegionAt
<1> DEFINE b == r.begin
           e == r.end
<1> HIDE DEF b, e
<1>2. Shift(b, e, n) \in 1 .. Len(d)
  BY <1>1 DEF Shift, b, e
<1>3. \A m \in 1 .. Len(c) : m < n <=> Shift(b, e, m) < Shift(b, e, n)
  BY <1>1 DEF Shift, b, e
<1>4. \A m \in 1 .. Len(c) : m = n <=> Shift(b, e, m) = Shift(b, e, n)
  BY <1>1 DEF Shift, b, e
<1>5. QED
  BY <1>2, <1>3, <1>4 DEF b, e, Lowers, Moved

\* The ids and arguments of an instruction that is there before and after.
LEMMA ArgMoves ==
  ASSUME NEW c, NEW d, NEW Q, NEW r, Lowers(c, d, Q, r), NEW n \in 1 .. Len(c),
         NEW m \in 1 .. Len(c[n].args)
  PROVE  LET j == d[Shift(r.begin, r.end, n)] IN
         j.args[m] = IF c[n].args[m] = c[r.begin].id THEN Id(c[r.end], 0) ELSE c[n].args[m]
BY ShiftIs DEF RenamedAs, Renamed

\* What is known of the value that stands for the mask.
LEMMA NewMask ==
  ASSUME NEW c, NEW d, NEW Q, NEW r, Lowers(c, d, Q, r)
  PROVE  /\ Id(c[r.end], 0) \notin Given /\ c[r.begin].id \notin Given
         /\ \A n \in 1 .. Len(c) : c[n].id # Id(c[r.end], 0)
         /\ RegionAt(c, r) /\ Coded(c) /\ Coded(d)
         /\ d[r.begin].id = Id(c[r.end], 0)
<1>1. RegionAt(c, r) /\ Coded(c) /\ Coded(d) /\ d[r.begin].id = Id(c[r.end], 0)
  BY DEF Lowers, RegionsOf, Moved
<1>2. c[r.begin].id \notin Given
  BY <1>1 DEF RegionAt, Coded
<1>3. Id(c[r.end], 0) \in Made(c[r.end].id)
  BY DEF Id, Made
<1>4. Unmade(c, c[r.end].id)
  BY DEF Lowers, AsWritten
<1>5. Id(c[r.end], 0) \notin Given
  BY <1>3, <1>4, MadeIds DEF Unmade
<1>6. QED
  BY <1>1, <1>2, <1>3, <1>4, <1>5 DEF Unmade

LEMMA RegionMoves ==
  ASSUME NEW c, NEW d, NEW Q, NEW r, Lowers(c, d, Q, r), NEW q \in Q
  PROVE  RegionAt(d, ShiftAt(r, q))
<1> DEFINE s(n) == Shift(r.begin, r.end, n)
           b == q.begin
           t == q.store
           l == q.load
           e == q.end
           old == c[r.begin].id
           new == Id(c[r.end], 0)
<1>1. RegionAt(c, q)
  BY DEF Lowers, RegionsOf
<1>2. /\ b \in 1 .. Len(c) /\ t \in 1 .. Len(c) /\ l \in 1 .. Len(c) /\ e \in 1 .. Len(c)
      /\ b < t /\ t < l /\ l < e
  BY <1>1 DEF RegionAt
<1>3. /\ s(b) \in 1 .. Len(d) /\ s(t) \in 1 .. Len(d) /\ s(l) \in 1 .. Len(d) /\ s(e) \in 1 .. Len(d)
      /\ s(b) < s(t) /\ s(t) < s(l) /\ s(l) < s(e)
  BY <1>2, ShiftIs
<1>4. /\ RenamedAs(c[b], d[s(b)], old, new) /\ RenamedAs(c[t], d[s(t)], old, new)
      /\ RenamedAs(c[l], d[s(l)], old, new) /\ RenamedAs(c[e], d[s(e)], old, new)
  BY <1>2, ShiftIs
<1>5. /\ new \notin Given /\ old \notin Given /\ Coded(c) /\ Coded(d)
      /\ r.begin \in 1 .. Len(c) /\ c[r.begin].op = "unmask_begin"
  BY NewMask DEF RegionAt
<1>6. c[l].args[1] \in MaskVariables /\ c[l].args[1] \in Given /\ c[t].args[2] = c[l].args[1]
      /\ c[e].args[1] = c[l].id
  BY <1>1, MaskVariablesGiven DEF RegionAt
<1>7. Len(c[l].args) = 1 /\ Len(c[t].args) = 2 /\ Len(c[e].args) = 1
  <2>1. Shaped(c[l]) /\ Shaped(c[t]) /\ Shaped(c[e])
    BY <1>2, <1>5 DEF Coded
  <2>2. c[l].op = "load" /\ c[t].op = "store" /\ c[e].op = "unmask_end"
    BY <1>1 DEF RegionAt
  <2>3. QED
    BY <2>1, <2>2 DEF Shaped, Writes
<1>8. d[s(l)].args[1] = c[l].args[1]
  <2>1. 1 \in 1 .. Len(c[l].args)
    BY <1>7
  <2>2. d[s(l)].args[1] = IF c[l].args[1] = old THEN new ELSE c[l].args[1]
    BY <1>2, <2>1, ArgMoves
  <2>3. QED
    BY <1>5, <1>6, <2>2
<1>9. d[s(t)].args[2] = c[l].args[1]
  <2>1. 2 \in 1 .. Len(c[t].args)
    BY <1>7
  <2>2. d[s(t)].args[2] = IF c[t].args[2] = old THEN new ELSE c[t].args[2]
    BY <1>2, <2>1, ArgMoves
  <2>3. QED
    BY <1>5, <1>6, <2>2
<1>10. d[s(e)].args[1] = d[s(l)].id
  <2>1. 1 \in 1 .. Len(c[e].args)
    BY <1>7
  <2>2. d[s(e)].args[1] = IF c[e].args[1] = old THEN new ELSE c[e].args[1]
    BY <1>2, <2>1, ArgMoves
  <2>3. c[l].id # old
    <3>1. c[l].op # c[r.begin].op
      BY <1>1, <1>5 DEF RegionAt
    <3>2. QED
      BY <1>2, <1>5, <3>1 DEF Coded
  <2>4. d[s(l)].id = c[l].id
    BY <1>4 DEF RenamedAs
  <2>5. QED
    BY <1>6, <2>2, <2>3, <2>4
<1>11. ASSUME NEW k \in 1 .. Len(d), d[k].op \in Writes, d[k].args[2] = c[l].args[1]
       PROVE  k = s(t)
  <2>1. PICK n \in 1 .. Len(c) : k = s(n)
    <3>1. k \notin {r.begin, r.begin + 1, r.end + 2}
      BY <1>11 DEF Lowers, Moved, Writes
    <3>2. QED
      BY <3>1 DEF Lowers, Moved
  <2>2. c[n].op \in Writes
    BY <1>11, <2>1, ShiftIs DEF RenamedAs
  <2>3. Len(c[n].args) = 2
    BY <1>5, <2>2 DEF Coded, Shaped
  <2>4. 2 \in 1 .. Len(c[n].args)
    BY <2>3
  <2>5. d[k].args[2] = IF c[n].args[2] = old THEN new ELSE c[n].args[2]
    BY <2>1, <2>4, ArgMoves, SMTT(30)
  <2>6. c[n].args[2] = c[l].args[1]
    BY <1>5, <1>6, <1>11, <2>5
  <2>7. n = t
    BY <1>1, <2>2, <2>6 DEF RegionAt
  <2>8. QED
    BY <2>1, <2>7
<1>12. /\ c[b].op = "unmask_begin" /\ c[t].op = "store" /\ c[l].op = "load" /\ c[e].op = "unmask_end"
       /\ c[t].bb = c[b].bb /\ c[l].bb = c[b].bb /\ c[e].bb = c[b].bb
       /\ c[e].id \in 1 .. IdStep - 1
  BY <1>1 DEF RegionAt
<1> HIDE DEF s, b, t, l, e
<1>13. /\ d[s(b)].op = "unmask_begin" /\ d[s(t)].op = "store" /\ d[s(l)].op = "load"
       /\ d[s(e)].op = "unmask_end"
       /\ d[s(t)].bb = d[s(b)].bb /\ d[s(l)].bb = d[s(b)].bb /\ d[s(e)].bb = d[s(b)].bb
       /\ d[s(e)].id \in 1 .. IdStep - 1
  BY <1>4, <1>12 DEF RenamedAs
<1> DEFINE p == ShiftAt(r, q)
<1>14. p.begin = s(b) /\ p.store = s(t) /\ p.load = s(l) /\ p.end = s(e)
  BY DEF ShiftAt, s, b, t, l, e
<1> HIDE DEF p
<1>15. RegionAt(d, p)
  BY <1>3, <1>6, <1>8, <1>9, <1>10, <1>11, <1>13, <1>14 DEF RegionAt
<1>16. QED
  BY <1>15 DEF p

LEMMA WrittenMoves ==
  ASSUME NEW c, NEW d, NEW Q, NEW r, Lowers(c, d, Q, r), NEW q \in Q, q # r, AsWritten(c, q)
  PROVE  AsWritten(d, ShiftAt(r, q))
<1> DEFINE s(n) == Shift(r.begin, r.end, n)
           old == c[r.begin].id
           new == Id(c[r.end], 0)
<1>1. RegionAt(c, q) /\ RegionAt(c, r) /\ q.begin # r.begin /\ q.end # r.end
  BY DEF Lowers, RegionsOf
<1>2. Coded(c) /\ Coded(d)
  BY NewMask
<1>3. /\ q.begin \in 1 .. Len(c) /\ q.store \in 1 .. Len(c) /\ q.end \in 1 .. Len(c)
      /\ r.begin \in 1 .. Len(c) /\ r.end \in 1 .. Len(c) /\ c[q.store].op = "store"
      /\ c[q.end].id \in 1 .. IdStep - 1 /\ c[r.end].id \in 1 .. IdStep - 1
  BY <1>1 DEF RegionAt
<1>4. d[s(q.begin)].id = c[q.begin].id /\ d[s(q.end)].id = c[q.end].id
  BY <1>3, ShiftIs, SMTT(30) DEF RenamedAs
<1>5. d[s(q.store)].args[1] = c[q.begin].id
  <2>1. Len(c[q.store].args) = 2
    BY <1>2, <1>3 DEF Coded, Shaped, Writes
  <2>2. 1 \in 1 .. Len(c[q.store].args)
    BY <2>1
  <2>3. d[s(q.store)].args[1] = IF c[q.store].args[1] = old THEN new ELSE c[q.store].args[1]
    BY <1>3, <2>2, ArgMoves, SMTT(30)
  <2>4. c[q.begin].id # old
    BY <1>1, <1>2, <1>3 DEF Coded
  <2>5. QED
    BY <2>3, <2>4 DEF AsWritten
<1>6. Unmade(d, c[q.end].id)
  <2>1. c[q.end].id # c[r.end].id
    BY <1>1, <1>2, <1>3 DEF Coded
  <2>2. ASSUME NEW k \in 1 .. Len(d), d[k].id \in Made(c[q.end].id) PROVE FALSE
    <3>1. CASE k \in {r.begin, r.begin + 1, r.end + 2}
      <4>1. d[k].id \in {Id(c[r.end], 0), Id(c[r.end], 1), Id(c[r.end], 2)}
        BY <3>1 DEF Lowers, Moved
      <4>2. d[k].id \in Made(c[r.end].id)
        BY <4>1 DEF Id, Made
      <4>3. QED
        BY <1>3, <2>1, <2>2, <4>2, MadeApart
    <3>2. CASE \E n \in 1 .. Len(c) : k = s(n)
      <4>1. PICK n \in 1 .. Len(c) : k = s(n)
        BY <3>2
      <4>2. d[k].id = c[n].id
        BY <4>1, ShiftIs DEF RenamedAs
      <4>3. QED
        BY <2>2, <4>2 DEF AsWritten, Unmade
    <3>3. QED
      BY <3>1, <3>2 DEF Lowers, Moved
  <2>3. QED
    BY <1>3, <2>2 DEF Unmade
<1>7. QED
  BY <1>4, <1>5, <1>6 DEF AsWritten, ShiftAt

\* The value of an instruction is used no more than before.
LEMMA UnusedMoves ==
  ASSUME NEW c, NEW d, NEW Q, NEW r, Lowers(c, d, Q, r), NEW n \in 1 .. Len(c), n # r.load,
         (\A m \in 1 .. Len(c) : c[n].id \notin Operands(c[m])) \/ n = r.begin,
         NEW k \in 1 .. Len(d)
  PROVE  c[n].id \notin Operands(d[k])
<1> DEFINE new == Id(c[r.end], 0)
<1>1. /\ Coded(c) /\ RegionAt(c, r) /\ c[n].id # new
  BY NewMask
<1>2. CASE k \in {r.begin, r.begin + 1, r.end + 2}
  <2>1. c[r.end].args[1] = c[r.load].id /\ r.load \in 1 .. Len(c)
    BY <1>1 DEF RegionAt
  <2>2. Operands(d[k]) \subseteq {new, c[r.load].id}
    <3>1. Operands(d[r.begin]) = {} /\ Operands(d[r.begin + 1]) \subseteq {new}
      BY DEF Lowers, Moved
    <3>2. Operands(d[r.end + 2]) = {c[r.load].id}
      BY <2>1 DEF Lowers, Moved
    <3>3. CASE k = r.begin
      BY <3>1, <3>3
    <3>4. CASE k = r.begin + 1
      BY <3>1, <3>4
    <3>5. CASE k = r.end + 2
      BY <3>2, <3>5
    <3>6. QED
      BY <1>2, <3>3, <3>4, <3>5
  <2>3. c[n].id # c[r.load].id
    BY <1>1, <2>1 DEF Coded
  <2>4. QED
    BY <1>1, <2>2, <2>3
<1>3. CASE \E m \in 1 .. Len(c) : k = Shift(r.begin, r.end, m)
  <2>1. PICK m \in 1 .. Len(c) : k = Shift(r.begin, r.end, m)
    BY <1>3
  <2>2. \A x \in Operands(d[k]) :
          (x = new /\ c[r.begin].id \in Operands(c[m])) \/ (x \in Operands(c[m]) /\ x # c[r.begin].id)
    <3>1. RenamedAs(c[m], d[k], c[r.begin].id, new)
      BY <2>1, ShiftIs
    <3>2. QED
      BY <3>1 DEF RenamedAs
  <2>3. QED
    BY <1>1, <2>2
<1>4. QED
  BY <1>2, <1>3 DEF Lowers, Moved

\* The places around a lowered region that is not the one now lowered.
LEMMA LoweredShift ==
  ASSUME NEW c, NEW d, NEW Q, NEW r, Lowers(c, d, Q, r), NEW q \in Q, q # r, AsLowered(c, q)
  PROVE  /\ q.begin - 1 \in 1 .. Len(c) /\ q.end - 1 \in 1 .. Len(c)
         /\ Shift(r.begin, r.end, q.begin) - 2 = Shift(r.begin, r.end, q.begin - 2)
         /\ Shift(r.begin, r.end, q.begin) - 1 = Shift(r.begin, r.end, q.begin - 1)
         /\ Shift(r.begin, r.end, q.end) - 1 = Shift(r.begin, r.end, q.end - 1)
<1> DEFINE s(n) == Shift(r.begin, r.end, n)
           b == q.begin
           t == q.store
           l == q.load
           e == q.end
<1>1. RegionAt(c, q) /\ RegionAt(c, r) /\ b # r.begin /\ e # r.end
  BY DEF Lowers, RegionsOf
<1>2. Coded(c)
  BY NewMask
<1>3. /\ b \in 1 .. Len(c) /\ t \in 1 .. Len(c) /\ l \in 1 .. Len(c) /\ e \in 1 .. Len(c)
      /\ r.begin \in 1 .. Len(c) /\ r.end \in 1 .. Len(c) /\ r.begin < r.end
      /\ c[t].op = "store" /\ c[b].op = "unmask_begin" /\ c[e].op = "unmask_end"
      /\ c[r.begin].op = "unmask_begin" /\ c[r.end].op = "unmask_end" /\ c[l].op = "load"
      /\ b < t /\ t < l /\ l < e
  BY <1>1 DEF RegionAt
<1>4. /\ b - 2 \in 1 .. Len(c) /\ c[b - 2].op = "savemask" /\ c[b - 2].bb = c[b].bb
      /\ c[b - 1].op = "unmask" /\ c[b - 1].bb = c[b].bb
      /\ c[e - 1].op = "remask" /\ c[e - 1].bb = c[b].bb
      /\ c[t].args[1] = c[b - 2].id
      /\ Len(c[e - 1].args) = 1 /\ c[e - 1].args[1] = c[l].id
      /\ \A n \in 1 .. Len(c) : c[b].id \notin Operands(c[n])
  BY DEF AsLowered
<1> HIDE DEF b, t, l, e
<1>5. Len(c) \in Nat
  BY <1>2, LenProperties DEF Coded
<1>6. b - 1 \in 1 .. Len(c) /\ e - 1 \in 1 .. Len(c)
  <2>1. b \in 1 .. Len(c) /\ b - 2 \in 1 .. Len(c) /\ e \in 1 .. Len(c) /\ t \in 1 .. Len(c)
    BY <1>3, <1>4
  <2>2. b < t /\ l \in 1 .. Len(c) /\ t < l /\ l < e
    BY <1>3
  <2>3. QED
    BY <1>5, <2>1, <2>2
<1>7. s(b) - 2 = s(b - 2) /\ s(b) - 1 = s(b - 1) /\ s(e) - 1 = s(e - 1)
  <2>1. b - 1 # r.begin /\ b - 1 # r.end /\ b # r.end /\ e # r.begin
    BY <1>3, <1>4
  <2> DEFINE x == r.begin
             y == r.end
             z == Len(c)
  <2>2. /\ x \in 1 .. z /\ y \in 1 .. z /\ b \in 1 .. z /\ e \in 1 .. z /\ z \in Nat
        /\ b # x /\ b # y /\ e # x /\ e # y /\ b - 1 # x /\ b - 1 # y
    BY <1>1, <1>3, <1>5, <2>1
  <2> HIDE DEF x, y, z
  <2>3. /\ Shift(x, y, b) - 2 = Shift(x, y, b - 2) /\ Shift(x, y, b) - 1 = Shift(x, y, b - 1)
        /\ Shift(x, y, e) - 1 = Shift(x, y, e - 1)
    BY <2>2 DEF Shift
  <2>4. QED
    BY <2>3 DEF x, y
<1>8. QED
  BY <1>6, <1>7 DEF b, e

LEMMA LoweredMoves ==
  ASSUME NEW c, NEW d, NEW Q, NEW r, Lowers(c, d, Q, r), NEW q \in Q, q # r, AsLowered(c, q)
  PROVE  AsLowered(d, ShiftAt(r, q))
<1> DEFINE s(n) == Shift(r.begin, r.end, n)
           old == c[r.begin].id
           new == Id(c[r.end], 0)
           b == q.begin
           t == q.store
           l == q.load
           e == q.end
<1>1. RegionAt(c, q) /\ RegionAt(c, r) /\ b # r.begin /\ e # r.end
  BY DEF Lowers, RegionsOf
<1>2. Coded(c) /\ Coded(d) /\ new \notin Given
  BY NewMask
<1>3. /\ b \in 1 .. Len(c) /\ t \in 1 .. Len(c) /\ l \in 1 .. Len(c) /\ e \in 1 .. Len(c)
      /\ r.begin \in 1 .. Len(c) /\ r.end \in 1 .. Len(c) /\ r.begin < r.end
      /\ c[t].op = "store" /\ c[b].op = "unmask_begin" /\ c[e].op = "unmask_end"
      /\ c[r.begin].op = "unmask_begin" /\ c[r.end].op = "unmask_end" /\ c[l].op = "load"
      /\ b < t /\ t < l /\ l < e
  BY <1>1 DEF RegionAt
<1>4. /\ b - 2 \in 1 .. Len(c) /\ c[b - 2].op = "savemask" /\ c[b - 2].bb = c[b].bb
      /\ c[b - 1].op = "unmask" /\ c[b - 1].bb = c[b].bb
      /\ c[e - 1].op = "remask" /\ c[e - 1].bb = c[b].bb
      /\ c[t].args[1] = c[b - 2].id
      /\ Len(c[e - 1].args) = 1 /\ c[e - 1].args[1] = c[l].id
      /\ \A n \in 1 .. Len(c) : c[b].id \notin Operands(c[n])
  BY DEF AsLowered
<1>5. /\ b - 1 \in 1 .. Len(c) /\ e - 1 \in 1 .. Len(c)
      /\ s(b) - 2 = s(b - 2) /\ s(b) - 1 = s(b - 1) /\ s(e) - 1 = s(e - 1)
  BY LoweredShift
<1> HIDE DEF b, t, l, e
<1>6. b - 1 \in 1 .. Len(c) /\ e - 1 \in 1 .. Len(c)
  BY <1>5
<1>7. s(b) - 2 = s(b - 2) /\ s(b) - 1 = s(b - 1) /\ s(e) - 1 = s(e - 1)
  BY <1>5
<1>8. /\ RenamedAs(c[b - 2], d[s(b - 2)], old, new) /\ RenamedAs(c[b - 1], d[s(b - 1)], old, new)
      /\ RenamedAs(c[e - 1], d[s(e - 1)], old, new) /\ RenamedAs(c[b], d[s(b)], old, new)
      /\ RenamedAs(c[t], d[s(t)], old, new) /\ RenamedAs(c[l], d[s(l)], old, new)
      /\ s(b - 2) \in 1 .. Len(d)
  BY <1>3, <1>4, <1>6, ShiftIs
<1>9. d[s(t)].args[1] = d[s(b - 2)].id
  <2>1. Len(c[t].args) = 2
    BY <1>2, <1>3 DEF Coded, Shaped, Writes
  <2>2. 1 \in 1 .. Len(c[t].args)
    BY <2>1
  <2>3. d[s(t)].args[1] = IF c[t].args[1] = old THEN new ELSE c[t].args[1]
    BY <1>3, <2>2, ArgMoves
  <2>4. c[b - 2].id # old
    BY <1>2, <1>3, <1>4 DEF Coded
  <2>5. QED
    BY <1>4, <1>8, <2>3, <2>4 DEF RenamedAs
<1>10. Len(d[s(e - 1)].args) = 1 /\ d[s(e - 1)].args[1] = d[s(l)].id
  <2>1. 1 \in 1 .. Len(c[e - 1].args)
    BY <1>4
  <2>2. d[s(e - 1)].args[1] = IF c[e - 1].args[1] = old THEN new ELSE c[e - 1].args[1]
    BY <1>6, <2>1, ArgMoves
  <2>3. c[l].id # old
    BY <1>2, <1>3 DEF Coded
  <2>4. QED
    BY <1>4, <1>8, <2>2, <2>3 DEF RenamedAs
<1>11. \A k \in 1 .. Len(d) : d[s(b)].id \notin Operands(d[k])
  <2>1. b # r.load
    BY <1>1, <1>3 DEF RegionAt
  <2>2. \A k \in 1 .. Len(d) : c[b].id \notin Operands(d[k])
    BY <1>3, <1>4, <2>1, UnusedMoves
  <2>3. QED
    BY <1>8, <2>2 DEF RenamedAs
<1> HIDE DEF s
<1>12. /\ d[s(b - 2)].op = "savemask" /\ d[s(b - 2)].bb = d[s(b)].bb
       /\ d[s(b - 1)].op = "unmask" /\ d[s(b - 1)].bb = d[s(b)].bb
       /\ d[s(e - 1)].op = "remask" /\ d[s(e - 1)].bb = d[s(b)].bb
  BY <1>4, <1>8 DEF RenamedAs
<1> DEFINE p == ShiftAt(r, q)
<1>13. p.begin = s(b) /\ p.store = s(t) /\ p.load = s(l) /\ p.end = s(e)
  BY DEF ShiftAt, s, b, t, l, e
<1> HIDE DEF p
<1>14. AsLowered(d, p)
  BY <1>7, <1>8, <1>9, <1>10, <1>11, <1>12, <1>13 DEF AsLowered
<1>15. QED
  BY <1>14 DEF p

LEMMA LoweredNow ==
  ASSUME NEW c, NEW d, NEW Q, NEW r, Lowers(c, d, Q, r)
  PROVE  AsLowered(d, ShiftAt(r, r))
<1> DEFINE s(n) == Shift(r.begin, r.end, n)
           old == c[r.begin].id
           new == Id(c[r.end], 0)
           b == r.begin
           t == r.store
           l == r.load
           e == r.end
<1>1. RegionAt(c, r) /\ Coded(c) /\ Coded(d) /\ d[b].id = new
  BY NewMask
<1>2. /\ b \in 1 .. Len(c) /\ t \in 1 .. Len(c) /\ l \in 1 .. Len(c) /\ e \in 1 .. Len(c)
      /\ c[t].op = "store" /\ c[b].op = "unmask_begin" /\ c[e].op = "unmask_end" /\ c[l].op = "load"
      /\ b < t /\ t < l /\ l < e /\ c[e].args[1] = c[l].id /\ c[e].bb = c[b].bb
      /\ c[t].args[1] = old
  BY <1>1 DEF RegionAt, Lowers, AsWritten
<1>3. s(b) = b + 2 /\ s(t) = t + 2 /\ s(l) = l + 2 /\ s(e) = e + 3
  <2>1. Len(c) \in Nat
    BY <1>1, LenProperties DEF Coded
  <2>2. b \in Int /\ t \in Int /\ l \in Int /\ e \in Int /\ b < t /\ t < l /\ l < e
    BY <1>2, <2>1
  <2> HIDE DEF b, t, l, e
  <2>3. Shift(b, e, b) = b + 2 /\ Shift(b, e, t) = t + 2
        /\ Shift(b, e, l) = l + 2 /\ Shift(b, e, e) = e + 3
    BY ONLY <2>2 DEF Shift
  <2>4. QED
    BY <2>3 DEF b, e
<1>4. /\ s(b) - 2 = b /\ s(b) - 1 = b + 1 /\ s(e) - 1 = e + 2
  BY <1>2, <1>3, SMTT(30)
<1>5. /\ RenamedAs(c[b], d[s(b)], old, new) /\ RenamedAs(c[t], d[s(t)], old, new)
      /\ RenamedAs(c[l], d[s(l)], old, new)
  BY <1>2, ShiftIs
<1>6. /\ d[b].op = "savemask" /\ d[b].bb = c[b].bb /\ d[b + 1].op = "unmask" /\ d[b + 1].bb = c[b].bb
      /\ d[e + 2].op = "remask" /\ d[e + 2].bb = c[e].bb
      /\ Len(d[e + 2].args) = 1 /\ d[e + 2].args[1] = c[e].args[1] /\ Len(d) = Len(c) + 3
  BY DEF Lowers, Moved
<1>7. d[s(t)].args[1] = new
  <2>1. Len(c[t].args) = 2
    BY <1>1, <1>2 DEF Coded, Shaped, Writes
  <2>2. 1 \in 1 .. Len(c[t].args)
    BY <2>1
  <2>3. d[s(t)].args[1] = IF c[t].args[1] = old THEN new ELSE c[t].args[1]
    BY <1>2, <2>2, ArgMoves
  <2>4. QED
    BY <1>2, <2>3
<1>8. \A k \in 1 .. Len(d) : d[s(b)].id \notin Operands(d[k])
  <2>1. b # l
    BY <1>2
  <2>2. \A k \in 1 .. Len(d) : c[b].id \notin Operands(d[k])
    BY <1>2, <2>1, UnusedMoves
  <2>3. QED
    BY <1>5, <2>2 DEF RenamedAs
<1>9. b \in 1 .. Len(d)
  <2>1. Len(c) \in Nat
    BY <1>1, LenProperties DEF Coded
  <2>2. QED
    BY <1>2, <1>6, <2>1
<1> DEFINE p == ShiftAt(r, r)
<1>10. p.begin = s(b) /\ p.store = s(t) /\ p.load = s(l) /\ p.end = s(e)
  BY DEF ShiftAt
<1> HIDE DEF p, s, b, t, l, e, old, new
<1>11. d[s(b)].bb = c[b].bb /\ d[s(l)].id = c[l].id
  BY <1>5 DEF RenamedAs
<1>12. AsLowered(d, p)
  BY <1>1, <1>2, <1>4, <1>6, <1>7, <1>8, <1>9, <1>10, <1>11, ZenonT(60) DEF AsLowered
<1>13. QED
  BY <1>12 DEF p

\* The regions stay apart.
LEMMA RegionsMove ==
  ASSUME NEW c, NEW d, NEW Q, NEW r, Lowers(c, d, Q, r)
  PROVE  RegionsOf(d, {ShiftAt(r, q) : q \in Q})
<1> DEFINE s(n) == Shift(r.begin, r.end, n)
           P == {ShiftAt(r, q) : q \in Q}
<1>1. \A q \in P : RegionAt(d, q)
  BY RegionMoves
<1>2. Coded(c) /\ RegionsOf(c, Q) /\ c[r.begin].id \notin Given
  <2>1. RegionsOf(c, Q)
    BY DEF Lowers
  <2>2. QED
    BY <2>1, NewMask
<1>3. ASSUME NEW q \in Q
      PROVE  /\ q.begin \in 1 .. Len(c) /\ q.load \in 1 .. Len(c) /\ q.end \in 1 .. Len(c)
             /\ d[s(q.load)].args[1] = c[q.load].args[1]
             /\ d[s(q.begin)].bb = c[q.begin].bb
             /\ ShiftAt(r, q).begin = s(q.begin) /\ ShiftAt(r, q).end = s(q.end)
             /\ ShiftAt(r, q).load = s(q.load)
  <2>1. RegionAt(c, q)
    BY <1>2 DEF RegionsOf
  <2>2. /\ q.begin \in 1 .. Len(c) /\ q.load \in 1 .. Len(c) /\ q.end \in 1 .. Len(c)
        /\ c[q.load].op = "load" /\ c[q.load].args[1] \in Given
    BY <2>1, MaskVariablesGiven DEF RegionAt
  <2>3. 1 \in 1 .. Len(c[q.load].args)
    BY <1>2, <2>2 DEF Coded, Shaped
  <2>4. d[s(q.load)].args[1] =
          IF c[q.load].args[1] = c[r.begin].id THEN Id(c[r.end], 0) ELSE c[q.load].args[1]
    BY <2>2, <2>3, ArgMoves
  <2>5. d[s(q.load)].args[1] = c[q.load].args[1]
    BY <1>2, <2>2, <2>4
  <2>6. d[s(q.begin)].bb = c[q.begin].bb
    BY <2>2, ShiftIs DEF RenamedAs
  <2>7. QED
    BY <2>2, <2>5, <2>6 DEF ShiftAt
<1>4. ASSUME NEW p \in Q, NEW q \in Q, ShiftAt(r, p) # ShiftAt(r, q)
      PROVE  /\ s(p.begin) # s(q.begin) /\ s(p.end) # s(q.end)
             /\ d[s(p.load)].args[1] # d[s(q.load)].args[1]
             /\ d[s(p.begin)].bb = d[s(q.begin)].bb /\ s(p.begin) < s(q.begin) =>
                  s(p.end) < s(q.begin) \/ s(q.end) < s(p.end)
  <2>1. p # q
    BY <1>4
  <2>2. /\ p.begin # q.begin /\ p.end # q.end
        /\ c[p.load].args[1] # c[q.load].args[1]
        /\ c[p.begin].bb = c[q.begin].bb /\ p.begin < q.begin =>
             p.end < q.begin \/ q.end < p.end
    BY <1>2, <2>1 DEF RegionsOf
  <2>3. /\ s(p.begin) # s(q.begin) /\ s(p.end) # s(q.end)
        /\ s(p.begin) < s(q.begin) => p.begin < q.begin
        /\ p.end < q.begin => s(p.end) < s(q.begin)
        /\ q.end < p.end => s(q.end) < s(p.end)
    <3>1. /\ p.begin \in 1 .. Len(c) /\ q.begin \in 1 .. Len(c)
          /\ p.end \in 1 .. Len(c) /\ q.end \in 1 .. Len(c)
      BY <1>3
    <3>2. QED
      BY <2>2, <3>1, ShiftIs, SMTT(30)
  <2>4. /\ d[s(p.load)].args[1] = c[p.load].args[1] /\ d[s(q.load)].args[1] = c[q.load].args[1]
        /\ d[s(p.begin)].bb = c[p.begin].bb /\ d[s(q.begin)].bb = c[q.begin].bb
    BY <1>3
  <2> HIDE DEF s
  <2>5. QED
    BY <2>2, <2>3, <2>4
<1>5. ASSUME NEW k \in 1 .. Len(d), d[k].op = "unmask_end"
      PROVE  \E q \in P : k = q.end
  <2>1. PICK n \in 1 .. Len(c) : k = s(n)
    <3>1. k \notin {r.begin, r.begin + 1, r.end + 2}
      BY <1>5 DEF Lowers, Moved
    <3>2. QED
      BY <3>1 DEF Lowers, Moved
  <2>2. c[n].op = "unmask_end"
    BY <1>5, <2>1, ShiftIs DEF RenamedAs
  <2>3. PICK q \in Q : n = q.end
    BY <1>2, <2>2 DEF RegionsOf
  <2>4. ShiftAt(r, q) \in P /\ ShiftAt(r, q).end = k
    BY <1>3, <2>1, <2>3
  <2>5. QED
    BY <2>4
<1>6. ASSUME NEW p \in P, NEW q \in P, p # q
      PROVE  /\ p.begin # q.begin /\ p.end # q.end
             /\ d[p.load].args[1] # d[q.load].args[1]
             /\ d[p.begin].bb = d[q.begin].bb /\ p.begin < q.begin =>
                  p.end < q.begin \/ q.end < p.end
  <2>1. PICK x \in Q, y \in Q : p = ShiftAt(r, x) /\ q = ShiftAt(r, y)
    BY DEF P
  <2> HIDE DEF s, P
  <2>2. /\ p.begin = s(x.begin) /\ p.end = s(x.end) /\ p.load = s(x.load)
        /\ q.begin = s(y.begin) /\ q.end = s(y.end) /\ q.load = s(y.load)
    BY <1>3, <2>1
  <2>3. QED
    BY <1>4, <1>6, <2>1, <2>2
<1> HIDE DEF P
<1>7. RegionsOf(d, P)
  BY <1>1, <1>5, <1>6 DEF RegionsOf
<1>8. QED
  BY <1>7 DEF P

\* One more region of the code is lowered.
LEMMA OneLowered ==
  ASSUME NEW c, NEW e, NEW b, NEW Q, LowerOK(c, e, b, Q), NEW r \in Q, c[r.end].id \notin e,
         NEW d, Moved(c, d, r.begin, r.end)
  PROVE  LowerOK(d, e \cup {c[r.end].id}, b \cup {c[r.begin].id}, {ShiftAt(r, q) : q \in Q})
<1> DEFINE s(n) == Shift(r.begin, r.end, n)
           P == {ShiftAt(r, q) : q \in Q}
           f == e \cup {c[r.end].id}
<1>1. Lowers(c, d, Q, r)
  BY DEF Lowers, LowerOK
<1>2. RegionsOf(d, P)
  BY <1>1, RegionsMove
<1>3. Coded(c) /\ Coded(d) /\ RegionsOf(c, Q)
  BY <1>1, NewMask DEF LowerOK
<1>4. ASSUME NEW q \in Q
      PROVE  /\ RegionAt(c, q)
             /\ d[ShiftAt(r, q).begin].id = c[q.begin].id /\ d[ShiftAt(r, q).end].id = c[q.end].id
             /\ q # r => c[q.end].id # c[r.end].id
  <2>1. RegionAt(c, q) /\ RegionAt(c, r) /\ (q # r => q.end # r.end)
    BY <1>3 DEF RegionsOf
  <2>2. q.begin \in 1 .. Len(c) /\ q.end \in 1 .. Len(c) /\ r.end \in 1 .. Len(c)
    BY <2>1 DEF RegionAt
  <2>3. d[s(q.begin)].id = c[q.begin].id /\ d[s(q.end)].id = c[q.end].id
    BY <1>1, <2>2, ShiftIs, SMTT(30) DEF RenamedAs
  <2>4. q # r => c[q.end].id # c[r.end].id
    BY <1>3, <2>1, <2>2 DEF Coded
  <2>5. QED
    BY <2>1, <2>3, <2>4 DEF ShiftAt
<1>5. ASSUME NEW q \in Q
      PROVE  IF d[ShiftAt(r, q).end].id \in f THEN AsLowered(d, ShiftAt(r, q))
             ELSE AsWritten(d, ShiftAt(r, q))
  <2>1. CASE q = r
    BY <1>1, <1>4, <2>1, LoweredNow
  <2>2. CASE q # r
    <3>1. IF c[q.end].id \in e THEN AsLowered(c, q) ELSE AsWritten(c, q)
      BY DEF LowerOK
    <3>2. d[ShiftAt(r, q).end].id \in f <=> c[q.end].id \in e
      BY <1>4, <2>2
    <3>3. c[q.end].id \in e => AsLowered(d, ShiftAt(r, q))
      BY <1>1, <2>2, <3>1, LoweredMoves
    <3>4. c[q.end].id \notin e => AsWritten(d, ShiftAt(r, q))
      BY <1>1, <2>2, <3>1, WrittenMoves
    <3>5. QED
      BY <3>2, <3>3, <3>4
  <2>3. QED
    BY <2>1, <2>2
<1>6. s(r.begin) - 1 = r.begin + 1 /\ s(r.end) - 1 = r.end + 2
  <2>1. r.begin \in Nat /\ r.end \in Nat /\ r.begin < r.end
    <3>1. /\ r.begin \in Nat /\ r.store \in Nat /\ r.load \in Nat /\ r.end \in Nat
          /\ r.begin < r.store /\ r.store < r.load /\ r.load < r.end
      BY <1>4 DEF RegionAt
    <3>2. QED
      BY <3>1
  <2>2. QED
    BY <2>1 DEF Shift
<1>7. ASSUME NEW q \in Q, c[q.end].id \in e
      PROVE  s(q.begin) - 1 = s(q.begin - 1) /\ s(q.end) - 1 = s(q.end - 1)
  <2>1. q # r /\ AsLowered(c, q)
    BY <1>7 DEF LowerOK
  <2>2. QED
    BY <1>1, <2>1, LoweredShift
<1> DEFINE opens(n) == \E q \in Q : c[q.end].id \in e /\ n = q.begin - 1
           closes(n) == \E q \in Q : c[q.end].id \in e /\ n = q.end - 1
<1>8. \A n \in 1 .. Len(c) :
         (c[n].op = "unmask" => opens(n)) /\ (c[n].op = "remask" => closes(n))
  BY DEF LowerOK
<1>9. ASSUME NEW k \in 1 .. Len(d)
      PROVE  /\ d[k].op = "unmask" => \E q \in P : d[q.end].id \in f /\ k = q.begin - 1
             /\ d[k].op = "remask" => \E q \in P : d[q.end].id \in f /\ k = q.end - 1
  <2>1. ASSUME NEW q \in Q, c[q.end].id \in f
        PROVE  /\ ShiftAt(r, q) \in P /\ d[ShiftAt(r, q).end].id \in f
               /\ ShiftAt(r, q).begin = s(q.begin) /\ ShiftAt(r, q).end = s(q.end)
    BY <1>4, <2>1 DEF ShiftAt
  <2>2. CASE k \in {r.begin, r.begin + 1, r.end + 2}
    <3>1. d[r.begin].op = "savemask" /\ d[r.begin + 1].op = "unmask" /\ d[r.end + 2].op = "remask"
      BY DEF Moved
    <3>2. /\ d[k].op = "unmask" => k = s(r.begin) - 1
          /\ d[k].op = "remask" => k = s(r.end) - 1
      <4>1. /\ d[k].op = "unmask" => k = r.begin + 1
            /\ d[k].op = "remask" => k = r.end + 2
        <5>1. CASE k = r.begin
          BY <3>1, <5>1
        <5>2. CASE k = r.begin + 1
          BY <3>1, <5>2
        <5>3. CASE k = r.end + 2
          BY <3>1, <5>3
        <5>4. QED
          BY <2>2, <5>1, <5>2, <5>3
      <4>2. QED
        BY <1>6, <4>1
    <3> HIDE DEF s, P, f
    <3>3. /\ ShiftAt(r, r) \in P /\ d[ShiftAt(r, r).end].id \in f
          /\ ShiftAt(r, r).begin = s(r.begin) /\ ShiftAt(r, r).end = s(r.end)
      <4>1. c[r.end].id \in f
        BY DEF f
      <4>2. QED
        BY <2>1, <4>1
    <3>4. QED
      BY <3>2, <3>3
  <2>3. CASE \E n \in 1 .. Len(c) : k = s(n)
    <3>1. PICK n \in 1 .. Len(c) : k = s(n)
      BY <2>3
    <3>2. d[k].op = c[n].op
      BY <1>1, <3>1, ShiftIs DEF RenamedAs
    <3> HIDE DEF s, P, f
    <3>3. ASSUME d[k].op = "unmask" PROVE \E q \in P : d[q.end].id \in f /\ k = q.begin - 1
      <4> HIDE DEF opens, closes
      <4>0. opens(n)
        BY <1>8, <3>2, <3>3
      <4>1. PICK q \in Q : c[q.end].id \in e /\ n = q.begin - 1
        BY <4>0 DEF opens
      <4>2. k = s(q.begin) - 1
        BY <1>7, <3>1, <4>1
      <4>3. c[q.end].id \in f
        BY <4>1 DEF f
      <4>4. QED
        BY <2>1, <4>2, <4>3
    <3>4. ASSUME d[k].op = "remask" PROVE \E q \in P : d[q.end].id \in f /\ k = q.end - 1
      <4> HIDE DEF opens, closes
      <4>0. closes(n)
        BY <1>8, <3>2, <3>4
      <4>1. PICK q \in Q : c[q.end].id \in e /\ n = q.end - 1
        BY <4>0 DEF closes
      <4>2. k = s(q.end) - 1
        BY <1>7, <3>1, <4>1
      <4>3. c[q.end].id \in f
        BY <4>1 DEF f
      <4>4. QED
        BY <2>1, <4>2, <4>3
    <3>5. QED
      BY <3>3, <3>4
  <2>4. QED
    BY <2>2, <2>3 DEF Moved
<1>10. \A x \in f : \E q \in P : d[q.end].id = x
  <2>1. \A x \in f : \E q \in Q : c[q.end].id = x
    BY DEF LowerOK
  <2>2. QED
    BY <1>4, <2>1
<1>11. \A x \in b \cup {c[r.begin].id} : \E q \in P : d[q.end].id \in f /\ d[q.begin].id = x
  <2>1. \A x \in b \cup {c[r.begin].id} : \E q \in Q : c[q.end].id \in f /\ c[q.begin].id = x
    BY DEF LowerOK
  <2>2. QED
    BY <1>4, <2>1
<1>12. \A q \in P : d[q.end].id \in f => d[q.begin].id \in b \cup {c[r.begin].id}
  <2>1. \A q \in Q : c[q.end].id \in f => c[q.begin].id \in b \cup {c[r.begin].id}
    <3> SUFFICES ASSUME NEW q \in Q, c[q.end].id \in f
                 PROVE  c[q.begin].id \in b \cup {c[r.begin].id}
      OBVIOUS
    <3>1. CASE q = r
      BY <3>1
    <3>2. CASE q # r
      <4>1. c[q.end].id \in e
        BY <1>4, <3>2
      <4>2. QED
        BY <4>1 DEF LowerOK
    <3>3. QED
      BY <3>1, <3>2
  <2>2. QED
    BY <1>4, <2>1
<1>13. \A q \in P : IF d[q.end].id \in f THEN AsLowered(d, q) ELSE AsWritten(d, q)
  BY <1>5
<1> HIDE DEF P, f, s
<1>14. LowerOK(d, f, b \cup {c[r.begin].id}, P)
  BY <1>2, <1>3, <1>9, <1>10, <1>11, <1>12, <1>13 DEF LowerOK
<1>15. QED
  BY <1>14 DEF P, f

LEMMA LowerKeeps ==
  ASSUME NEW Q, LowerOK(code, ends, begins, Q), LowerUnmaskEnd
  PROVE  \E P : LowerOK(code', ends', begins', P)
<1> DEFINE m == Min(EndsLeft)
           end == code[m]
           load == Instr(end.args[1])
           stores == {k \in DOMAIN code : code[k].op = "store" /\ code[k].args[2] = load.args[1]}
<1>1. /\ Coded(code) /\ RegionsOf(code, Q) /\ DOMAIN code = 1 .. Len(code) /\ Len(code) \in Nat
  BY LenProperties DEF LowerOK, Coded
<1>2. m \in 1 .. Len(code) /\ end.op = "unmask_end" /\ end.id \notin ends
  <2>1. EndsLeft \subseteq Nat /\ EndsLeft # {}
    <3>1. EndsLeft \subseteq Nat
      BY <1>1 DEF EndsLeft
    <3>2. EndsLeft # {}
      BY DEF LowerUnmaskEnd
    <3>3. QED
      BY <3>1, <3>2
  <2>2. \E n \in EndsLeft : \A k \in EndsLeft : n <= k
    BY <2>1, LeastNumber
  <2>3. m \in EndsLeft
    BY <2>2 DEF Min
  <2> HIDE DEF m
  <2>4. QED
    BY <1>1, <2>3 DEF EndsLeft
<1>3. /\ ends' = ends \cup {end.id}
      /\ \E k \in stores :
           /\ code' = LoweredCode(code, Instr(code[k].args[1]), end)
           /\ begins' = begins \cup {Instr(code[k].args[1]).id}
  BY DEF LowerUnmaskEnd, LoweredCode
<1> HIDE DEF m
<1>4. PICK r \in Q : m = r.end
  BY <1>1, <1>2 DEF RegionsOf
<1>5. RegionAt(code, r) /\ AsWritten(code, r)
  BY <1>1, <1>2, <1>4 DEF RegionsOf, LowerOK
<1>6. /\ r.begin \in 1 .. Len(code) /\ r.store \in 1 .. Len(code) /\ r.load \in 1 .. Len(code)
      /\ r.end \in 1 .. Len(code)
      /\ r.begin < r.store /\ r.store < r.load /\ r.load < r.end
      /\ code[r.begin].op = "unmask_begin" /\ code[r.load].op = "load"
  BY <1>5 DEF RegionAt
<1>7. load = code[r.load]
  <2>1. end.args[1] = code[r.load].id
    BY <1>4, <1>5 DEF RegionAt
  <2>2. InstrIn(code, code[r.load].id) = code[r.load]
    BY <1>1, <1>6, InstrFound
  <2>3. QED
    BY <2>1, <2>2 DEF Instr
<1> HIDE DEF load
<1>8. \A k \in stores : k = r.store
  <2> SUFFICES ASSUME NEW k \in 1 .. Len(code), code[k].op = "store",
                      code[k].args[2] = code[r.load].args[1]
               PROVE  k = r.store
    BY <1>1, <1>7
  <2>1. code[k].op \in Writes
    BY DEF Writes
  <2>2. QED
    BY <1>5, <2>1 DEF RegionAt
<1>9. Instr(code[r.store].args[1]) = code[r.begin]
  <2>1. code[r.store].args[1] = code[r.begin].id
    BY <1>5 DEF AsWritten
  <2>2. InstrIn(code, code[r.begin].id) = code[r.begin]
    BY <1>1, <1>6, InstrFound
  <2>3. QED
    BY <2>1, <2>2 DEF Instr
<1> HIDE DEF stores
<1>10. /\ code' = LoweredCode(code, code[r.begin], code[r.end])
       /\ begins' = begins \cup {code[r.begin].id} /\ ends' = ends \cup {code[r.end].id}
  BY <1>3, <1>4, <1>8, <1>9
<1> DEFINE d == LoweredCode(code, code[r.begin], code[r.end])
<1>11. Moved(code, d, r.begin, r.end)
  <2>1. r.begin < r.end
    BY <1>6
  <2>2. Unmade(code, code[r.end].id) /\ code[r.end].op = "unmask_end"
    BY <1>5 DEF AsWritten, RegionAt
  <2>3. code[r.end].args[1] # code[r.begin].id
    <3>1. code[r.end].args[1] = code[r.load].id /\ r.load # r.begin
      BY <1>5, <1>6 DEF RegionAt
    <3>2. QED
      BY <1>1, <1>6, <3>1 DEF Coded
  <2>4. QED
    BY <1>1, <1>6, <2>1, <2>2, <2>3, MaskMoves
<1> HIDE DEF d
<1>12. code[r.end].id \notin ends
  BY <1>2, <1>4
<1>13. LowerOK(d, ends \cup {code[r.end].id}, begins \cup {code[r.begin].id},
               {ShiftAt(r, q) : q \in Q})
  BY <1>11, <1>12, OneLowered
<1>14. LowerOK(code', ends', begins', {ShiftAt(r, q) : q \in Q})
  BY <1>10, <1>13 DEF d
<1>15. QED
  BY <1>14

-----------------------------------------------------------------------------
(* The code that runs.                                                     *)

\* The places where EM is saved and all channels are enabled, where the mask
\* goes to its variable and comes back, and where EM is restored.
SavedAt(d, q) ==
  /\ q.save \in 1 .. Len(d) /\ q.open \in 1 .. Len(d) /\ q.store \in 1 .. Len(d)
  /\ q.load \in 1 .. Len(d) /\ q.close \in 1 .. Len(d)
  /\ q.save < q.open /\ q.open < q.store /\ q.store < q.load /\ q.load < q.close
  /\ d[q.save].op = "savemask" /\ d[q.open].op = "unmask" /\ d[q.store].op = "store"
  /\ d[q.load].op = "load" /\ d[q.close].op = "remask"
  /\ d[q.open].bb = d[q.save].bb /\ d[q.store].bb = d[q.save].bb
  /\ d[q.load].bb = d[q.save].bb /\ d[q.close].bb = d[q.save].bb
  /\ d[q.store].args[1] = d[q.save].id
  /\ d[q.store].args[2] = d[q.load].args[1] /\ d[q.load].args[1] \in MaskVariables
  /\ d[q.close].args[1] = d[q.load].id
  /\ \A k \in 1 .. Len(d) :
       d[k].op \in Writes /\ d[k].args[2] = d[q.load].args[1] => k = q.store

\* Two of them in a block are one after the other or one in the other, and all
\* that is done to EM is done by one of them.
MasksSaved(d, Q) ==
  /\ \A q \in Q : SavedAt(d, q)
  /\ \A p, q \in Q : p # q /\ d[p.save].bb = d[q.save].bb =>
       /\ p.open < q.save \/ q.open < p.save
       /\ p.open < q.save => p.close < q.save \/ q.close < p.close
  /\ \A k \in 1 .. Len(d) :
       /\ d[k].op = "unmask" => \E q \in Q : k = q.open
       /\ d[k].op = "remask" => \E q \in Q : k = q.close

RunOK(d) == Coded(d) /\ \E Q : MasksSaved(d, Q)

\* A lowered region saves the mask.
Saved(q) ==
  [save |-> q.begin - 2, open |-> q.begin - 1, store |-> q.store, load |-> q.load,
   close |-> q.end - 1]

LEMMA LoweredSaves ==
  ASSUME NEW c, Coded(c), NEW q, RegionAt(c, q), AsLowered(c, q)
  PROVE  SavedAt(c, Saved(q)) /\ c[Saved(q).save].bb = c[q.begin].bb
<1> DEFINE p == Saved(q)
           b == q.begin
           t == q.store
           l == q.load
           e == q.end
<1>1. /\ b \in 1 .. Len(c) /\ t \in 1 .. Len(c) /\ l \in 1 .. Len(c) /\ e \in 1 .. Len(c)
      /\ b < t /\ t < l /\ l < e /\ b - 2 \in 1 .. Len(c)
      /\ c[e - 1].op = "remask" /\ c[l].op = "load" /\ c[t].op = "store"
  BY DEF RegionAt, AsLowered
<1>2. Len(c) \in Nat /\ l # e - 1
  BY <1>1, LenProperties DEF Coded
<1>3. p.save = b - 2 /\ p.open = b - 1 /\ p.store = t /\ p.load = l /\ p.close = e - 1
  BY DEF Saved
<1> HIDE DEF p, b, t, l, e
<1>4. /\ b - 1 \in 1 .. Len(c) /\ e - 1 \in 1 .. Len(c)
      /\ b - 2 < b - 1 /\ b - 1 < t /\ l < e - 1
  BY <1>1, <1>2
<1>5. /\ c[b - 2].op = "savemask" /\ c[b - 2].bb = c[b].bb
      /\ c[b - 1].op = "unmask" /\ c[b - 1].bb = c[b].bb
      /\ c[e - 1].bb = c[b].bb /\ c[t].bb = c[b].bb /\ c[l].bb = c[b].bb
      /\ c[t].args[1] = c[b - 2].id
      /\ c[e - 1].args[1] = c[l].id
      /\ c[t].args[2] = c[l].args[1] /\ c[l].args[1] \in MaskVariables
  BY DEF AsLowered, RegionAt, b, t, l, e
<1>6. \A k \in 1 .. Len(c) : c[k].op \in Writes /\ c[k].args[2] = c[l].args[1] => k = t
  BY DEF RegionAt, t, l
<1>7. SavedAt(c, p)
  BY <1>1, <1>3, <1>4, <1>5, <1>6 DEF SavedAt
<1>8. QED
  BY <1>3, <1>5, <1>7 DEF p, b

LEMMA LoweredMasks ==
  ASSUME NEW c, NEW e, NEW b, NEW Q, LowerOK(c, e, b, Q), \A q \in Q : c[q.end].id \in e
  PROVE  MasksSaved(c, {Saved(q) : q \in Q})
<1> DEFINE P == {Saved(q) : q \in Q}
<1>1. Coded(c) /\ \A q \in Q : RegionAt(c, q) /\ AsLowered(c, q)
  BY DEF LowerOK, RegionsOf
<1>2. \A q \in Q : SavedAt(c, Saved(q)) /\ c[Saved(q).save].bb = c[q.begin].bb
  BY <1>1, LoweredSaves
<1>3. ASSUME NEW p \in Q, NEW q \in Q, p.begin < q.begin, c[p.begin].bb = c[q.begin].bb
      PROVE  /\ p.begin - 1 < q.begin - 2
             /\ p.end - 1 < q.begin - 2 \/ q.end - 1 < p.end - 1
  <2>1. RegionAt(c, p) /\ RegionAt(c, q) /\ AsLowered(c, q)
    BY <1>1
  <2>2. /\ p.begin \in 1 .. Len(c) /\ p.end \in 1 .. Len(c)
        /\ q.begin \in 1 .. Len(c) /\ q.end \in 1 .. Len(c) /\ Len(c) \in Nat
    BY <1>1, <2>1, LenProperties DEF RegionAt, Coded
  <2>3. /\ q.begin - 1 # p.begin /\ q.begin - 2 # p.begin
        /\ q.begin - 1 # p.end /\ q.begin - 2 # p.end
    <3>1. c[p.begin].op = "unmask_begin" /\ c[p.end].op = "unmask_end"
      BY <2>1 DEF RegionAt
    <3>2. c[q.begin - 1].op = "unmask" /\ c[q.begin - 2].op = "savemask"
      BY <2>1 DEF AsLowered
    <3>3. QED
      BY <3>1, <3>2
  <2>4. p.end < q.begin \/ q.end < p.end
    <3>1. p # q
      BY <1>3, <2>2
    <3>2. QED
      BY <1>3, <3>1 DEF LowerOK, RegionsOf
  <2> DEFINE x == p.begin
             y == p.end
             z == q.begin
             w == q.end
  <2>5. x \in Nat /\ y \in Nat /\ z \in Nat /\ w \in Nat
    BY <2>2
  <2> HIDE DEF x, y, z, w
  <2>6. x < z /\ z - 1 # x /\ z - 2 # x /\ z - 1 # y /\ z - 2 # y /\ (y < z \/ w < y)
    BY <1>3, <2>3, <2>4 DEF x, y, z, w
  <2>7. x - 1 < z - 2 /\ (y - 1 < z - 2 \/ w - 1 < y - 1)
    BY <2>5, <2>6
  <2>8. QED
    BY <2>7 DEF x, y, z, w
<1>4. ASSUME NEW p \in Q, NEW q \in Q, Saved(p) # Saved(q), c[p.begin].bb = c[q.begin].bb
      PROVE  /\ p.begin - 1 < q.begin - 2 \/ q.begin - 1 < p.begin - 2
             /\ p.begin - 1 < q.begin - 2 => p.end - 1 < q.begin - 2 \/ q.end - 1 < p.end - 1
  <2>1. p # q
    BY <1>4
  <2>2. p.begin # q.begin
    BY <2>1 DEF LowerOK, RegionsOf
  <2>3. p.begin \in Nat /\ q.begin \in Nat
    BY <1>1 DEF RegionAt
  <2>4. p.begin < q.begin \/ q.begin < p.begin
    BY <2>2, <2>3
  <2>5. p.begin - 1 < q.begin - 2 => p.begin < q.begin
    BY <2>3
  <2>6. QED
    BY <1>3, <1>4, <2>4, <2>5
<1>5. ASSUME NEW p \in P, NEW q \in P, p # q, c[p.save].bb = c[q.save].bb
      PROVE  /\ p.open < q.save \/ q.open < p.save
             /\ p.open < q.save => p.close < q.save \/ q.close < p.close
  <2>1. PICK x \in Q, y \in Q : p = Saved(x) /\ q = Saved(y)
    BY DEF P
  <2>2. c[x.begin].bb = c[y.begin].bb
    BY <1>2, <1>5, <2>1
  <2>3. /\ p.open = x.begin - 1 /\ p.save = x.begin - 2 /\ p.close = x.end - 1
        /\ q.open = y.begin - 1 /\ q.save = y.begin - 2 /\ q.close = y.end - 1
    BY <2>1 DEF Saved
  <2>4. /\ x.begin - 1 < y.begin - 2 \/ y.begin - 1 < x.begin - 2
        /\ x.begin - 1 < y.begin - 2 => x.end - 1 < y.begin - 2 \/ y.end - 1 < x.end - 1
    BY <1>4, <1>5, <2>1, <2>2
  <2>5. QED
    BY <2>3, <2>4
<1>6. ASSUME NEW k \in 1 .. Len(c)
      PROVE  /\ c[k].op = "unmask" => \E q \in P : k = q.open
             /\ c[k].op = "remask" => \E q \in P : k = q.close
  <2>1. /\ c[k].op = "unmask" => \E q \in Q : k = q.begin - 1
        /\ c[k].op = "remask" => \E q \in Q : k = q.end - 1
    BY DEF LowerOK
  <2>2. \A q \in Q : Saved(q) \in P /\ Saved(q).open = q.begin - 1 /\ Saved(q).close = q.end - 1
    BY DEF Saved
  <2> HIDE DEF P
  <2>3. QED
    BY <2>1, <2>2
<1>7. \A q \in P : SavedAt(c, q)
  BY <1>2
<1> HIDE DEF P
<1>8. MasksSaved(c, P)
  BY <1>5, <1>6, <1>7 DEF MasksSaved
<1>9. QED
  BY <1>8 DEF P

\* What is left of the code c at the places K: f leads to where it comes from.
Left(c, K, d, f) ==
  /\ Coded(c) /\ d \in Seq(Instruction) /\ Chosen(c, K, Len(c), d, f)

LEMMA LeftIs ==
  ASSUME NEW c, NEW K, NEW d, NEW f, Left(c, K, d, f)
  PROVE  /\ Len(d) \in Nat /\ Len(c) \in Nat
         /\ \A j \in 1 .. Len(d) : f[j] \in 1 .. Len(c) /\ f[j] \in K /\ d[j] = c[f[j]]
         /\ \A i, j \in 1 .. Len(d) : i < j <=> f[i] < f[j]
         /\ \A i, j \in 1 .. Len(d) : f[i] = f[j] => i = j
         /\ \A k \in 1 .. Len(c) : k \in K => \E j \in 1 .. Len(d) : f[j] = k
<1>1. Len(d) \in Nat /\ Len(c) \in Nat
  BY LenProperties DEF Left, Coded
<1>2. \A j \in 1 .. Len(d) : f[j] \in 1 .. Len(c) /\ f[j] \in K /\ d[j] = c[f[j]]
  BY DEF Left, Chosen
<1>3. \A i, j \in 1 .. Len(d) : i < j => f[i] < f[j]
  BY DEF Left, Chosen
<1>4. \A i, j \in 1 .. Len(d) : ~(i < j) => i = j \/ j < i
  OBVIOUS
<1>5. \A i, j \in 1 .. Len(d) : f[i] < f[j] => i < j
  <2> SUFFICES ASSUME NEW i \in 1 .. Len(d), NEW j \in 1 .. Len(d), f[i] < f[j], ~(i < j)
               PROVE  FALSE
    OBVIOUS
  <2>1. f[i] \in Nat /\ f[j] \in Nat
    BY <1>2
  <2>2. CASE i = j
    BY <2>1, <2>2
  <2>3. CASE j < i
    <3>1. f[j] < f[i]
      BY <1>3, <2>3
    <3>2. QED
      BY <2>1, <3>1
  <2>4. QED
    BY <1>4, <2>2, <2>3
<1>6. \A i, j \in 1 .. Len(d) : f[i] = f[j] => i = j
  <2> SUFFICES ASSUME NEW i \in 1 .. Len(d), NEW j \in 1 .. Len(d), f[i] = f[j], i # j
               PROVE  FALSE
    OBVIOUS
  <2>1. f[i] \in Nat /\ f[j] \in Nat
    BY <1>2
  <2>2. i < j \/ j < i
    OBVIOUS
  <2>3. f[i] < f[j] \/ f[j] < f[i]
    BY <1>3, <2>2
  <2>4. QED
    BY <2>1, <2>3
<1>7. \A k \in 1 .. Len(c) : k \in K => \E j \in 1 .. Len(d) : f[j] = k
  BY DEF Left, Chosen
<1>8. QED
  BY <1>1, <1>2, <1>3, <1>5, <1>6, <1>7

\* What the instructions that are left take is left too.
LEMMA LeftCoded ==
  ASSUME NEW c, NEW K, NEW d, NEW f, Left(c, K, d, f),
         \A n, k \in 1 .. Len(c) :
           c[n].id \in Operands(c[k]) /\ c[n].op # "unmask_end" => n \in K
  PROVE  Coded(d)
<1>1. Coded(c) /\ d \in Seq(Instruction)
  BY DEF Left
<1>2. \A j, k \in 1 .. Len(d) : d[j].id = d[k].id => j = k
  <2> SUFFICES ASSUME NEW j \in 1 .. Len(d), NEW k \in 1 .. Len(d), d[j].id = d[k].id
               PROVE  j = k
    OBVIOUS
  <2>1. f[j] \in 1 .. Len(c) /\ f[k] \in 1 .. Len(c) /\ c[f[j]].id = c[f[k]].id
    BY LeftIs, SMTT(30)
  <2>2. f[j] = f[k]
    BY <1>1, <2>1 DEF Coded
  <2>3. QED
    BY <2>2, LeftIs
<1>3. \A k \in 1 .. Len(d) : d[k].id \notin Given /\ Shaped(d[k])
  BY <1>1, LeftIs DEF Coded
<1>4. ASSUME NEW k \in 1 .. Len(d), NEW x \in Operands(d[k])
      PROVE  Defined(d, k, x)
  <2>1. f[k] \in 1 .. Len(c) /\ d[k] = c[f[k]] /\ Len(c) \in Nat
    BY LeftIs
  <2>2. Defined(c, f[k], x)
    BY <1>1, <1>4, <2>1 DEF Coded
  <2>3. CASE x \in Given
    BY <2>3 DEF Defined
  <2>4. CASE \E n \in 1 .. f[k] - 1 : c[n].id = x /\ c[n].op # "unmask_end"
    <3>1. PICK n \in 1 .. f[k] - 1 : c[n].id = x /\ c[n].op # "unmask_end"
      BY <2>4
    <3>2. n \in 1 .. Len(c) /\ n < f[k]
      BY <2>1
    <3>3. n \in K
      BY <1>4, <2>1, <3>1, <3>2
    <3>4. PICK i \in 1 .. Len(d) : f[i] = n
      BY <3>2, <3>3, LeftIs
    <3>5. i < k /\ d[i].id = x /\ d[i].op # "unmask_end"
      BY <3>1, <3>2, <3>4, LeftIs, SMTT(30)
    <3>6. i \in 1 .. k - 1
      BY <3>5
    <3>7. QED
      BY <3>5, <3>6 DEF Defined
  <2>5. QED
    BY <2>2, <2>3, <2>4 DEF Defined
<1>5. QED
  BY <1>1, <1>2, <1>3, <1>4 DEF Coded

\* The saved masks are at the same places of what is left.
LeftAt(f, q, p) ==
  /\ f[p.save] = q.save /\ f[p.open] = q.open /\ f[p.store] = q.store
  /\ f[p.load] = q.load /\ f[p.close] = q.close

LEMMA LeftSaved ==
  ASSUME NEW c, NEW K, NEW d, NEW f, Left(c, K, d, f), NEW q, SavedAt(c, q),
         q.save \in K, q.open \in K, q.store \in K, q.load \in K, q.close \in K
  PROVE  \E p : SavedAt(d, p) /\ LeftAt(f, q, p)
<1>1. /\ q.save \in 1 .. Len(c) /\ q.open \in 1 .. Len(c) /\ q.store \in 1 .. Len(c)
      /\ q.load \in 1 .. Len(c) /\ q.close \in 1 .. Len(c)
      /\ q.save < q.open /\ q.open < q.store /\ q.store < q.load /\ q.load < q.close
  BY DEF SavedAt
<1>0. /\ \A k \in 1 .. Len(c) : k \in K => \E j \in 1 .. Len(d) : f[j] = k
      /\ \A i, j \in 1 .. Len(d) : i < j <=> f[i] < f[j]
      /\ \A j \in 1 .. Len(d) : d[j] = c[f[j]]
  BY LeftIs, SMTT(30)
<1>2. PICK s \in 1 .. Len(d) : f[s] = q.save
  BY <1>0, <1>1
<1>3. PICK o \in 1 .. Len(d) : f[o] = q.open
  BY <1>0, <1>1
<1>4. PICK t \in 1 .. Len(d) : f[t] = q.store
  BY <1>0, <1>1
<1>5. PICK l \in 1 .. Len(d) : f[l] = q.load
  BY <1>0, <1>1
<1>6. PICK e \in 1 .. Len(d) : f[e] = q.close
  BY <1>0, <1>1
<1>7. s < o /\ o < t /\ t < l /\ l < e
  BY <1>0, <1>1, <1>2, <1>3, <1>4, <1>5, <1>6
<1>8. d[s] = c[q.save] /\ d[o] = c[q.open] /\ d[t] = c[q.store] /\ d[l] = c[q.load] /\ d[e] = c[q.close]
  BY <1>0, <1>2, <1>3, <1>4, <1>5, <1>6
<1>9. ASSUME NEW k \in 1 .. Len(d), d[k].op \in Writes, d[k].args[2] = d[l].args[1]
      PROVE  k = t
  <2>1. f[k] \in 1 .. Len(c) /\ d[k] = c[f[k]]
    BY LeftIs
  <2>2. f[k] = q.store
    BY <1>8, <1>9, <2>1 DEF SavedAt
  <2>3. QED
    BY <1>4, <2>2, LeftIs
<1> DEFINE p == [save |-> s, open |-> o, store |-> t, load |-> l, close |-> e]
<1>10. p.save = s /\ p.open = o /\ p.store = t /\ p.load = l /\ p.close = e
  OBVIOUS
<1> HIDE DEF p
<1>11. LeftAt(f, q, p)
  BY <1>2, <1>3, <1>4, <1>5, <1>6, <1>10 DEF LeftAt
<1>12. /\ d[s].op = "savemask" /\ d[o].op = "unmask" /\ d[t].op = "store"
       /\ d[l].op = "load" /\ d[e].op = "remask"
       /\ d[o].bb = d[s].bb /\ d[t].bb = d[s].bb /\ d[l].bb = d[s].bb /\ d[e].bb = d[s].bb
       /\ d[t].args[1] = d[s].id
       /\ d[t].args[2] = d[l].args[1] /\ d[l].args[1] \in MaskVariables
       /\ d[e].args[1] = d[l].id
  BY <1>8 DEF SavedAt
<1>13. SavedAt(d, p)
  BY <1>7, <1>9, <1>10, <1>12 DEF SavedAt
<1>14. QED
  BY <1>11, <1>13

LEMMA LeftMasks ==
  ASSUME NEW c, NEW K, NEW d, NEW f, Left(c, K, d, f), NEW Q, MasksSaved(c, Q),
         \A q \in Q : q.save \in K /\ q.open \in K /\ q.store \in K /\ q.load \in K /\ q.close \in K
  PROVE  \E P : MasksSaved(d, P)
<1> DEFINE at(q) == CHOOSE p : SavedAt(d, p) /\ LeftAt(f, q, p)
           P == {at(q) : q \in Q}
<1>1. ASSUME NEW q \in Q PROVE SavedAt(c, q) /\ SavedAt(d, at(q)) /\ LeftAt(f, q, at(q))
  <2>1. SavedAt(c, q)
    BY DEF MasksSaved
  <2>2. \E p : SavedAt(d, p) /\ LeftAt(f, q, p)
    BY <2>1, LeftSaved
  <2>3. QED
    BY <2>1, <2>2
<1> HIDE DEF at
<1>2. ASSUME NEW q \in Q
      PROVE  /\ at(q).save \in 1 .. Len(d) /\ at(q).open \in 1 .. Len(d) /\ at(q).close \in 1 .. Len(d)
             /\ f[at(q).save] = q.save /\ f[at(q).open] = q.open /\ f[at(q).close] = q.close
             /\ d[at(q).save] = c[q.save]
             /\ d[at(q).open] = c[q.open] /\ d[at(q).close] = c[q.close]
  <2>1. /\ at(q).save \in 1 .. Len(d) /\ at(q).open \in 1 .. Len(d) /\ at(q).close \in 1 .. Len(d)
        /\ f[at(q).save] = q.save /\ f[at(q).open] = q.open /\ f[at(q).close] = q.close
    BY <1>1 DEF SavedAt, LeftAt
  <2>2. \A j \in 1 .. Len(d) : d[j] = c[f[j]]
    BY LeftIs
  <2>3. QED
    BY <2>1, <2>2
<1>3. ASSUME NEW p \in P, NEW q \in P, p # q, d[p.save].bb = d[q.save].bb
      PROVE  /\ p.open < q.save \/ q.open < p.save
             /\ p.open < q.save => p.close < q.save \/ q.close < p.close
  <2>1. PICK x \in Q, y \in Q : p = at(x) /\ q = at(y)
    BY DEF P
  <2>2. x # y /\ c[x.save].bb = c[y.save].bb
    BY <1>2, <1>3, <2>1
  <2>3. /\ x.open < y.save \/ y.open < x.save
        /\ x.open < y.save => x.close < y.save \/ y.close < x.close
    BY <2>2 DEF MasksSaved
  <2>4. /\ p.save \in 1 .. Len(d) /\ p.open \in 1 .. Len(d) /\ p.close \in 1 .. Len(d)
        /\ q.save \in 1 .. Len(d) /\ q.open \in 1 .. Len(d) /\ q.close \in 1 .. Len(d)
        /\ f[p.save] = x.save /\ f[p.open] = x.open /\ f[p.close] = x.close
        /\ f[q.save] = y.save /\ f[q.open] = y.open /\ f[q.close] = y.close
    BY <1>2, <2>1
  <2>5. /\ p.open < q.save <=> x.open < y.save
        /\ q.open < p.save <=> y.open < x.save
        /\ p.close < q.save <=> x.close < y.save
        /\ q.close < p.close <=> y.close < x.close
    <3>1. \A i, j \in 1 .. Len(d) : i < j <=> f[i] < f[j]
      BY LeftIs
    <3>2. QED
      BY <2>4, <3>1
  <2>6. QED
    BY <2>3, <2>5
<1>4. ASSUME NEW k \in 1 .. Len(d)
      PROVE  /\ d[k].op = "unmask" => \E q \in P : k = q.open
             /\ d[k].op = "remask" => \E q \in P : k = q.close
  <2>1. f[k] \in 1 .. Len(c) /\ d[k] = c[f[k]]
    BY LeftIs
  <2>2. /\ d[k].op = "unmask" => \E q \in Q : f[k] = q.open
        /\ d[k].op = "remask" => \E q \in Q : f[k] = q.close
    BY <2>1 DEF MasksSaved
  <2>3. \A q \in Q : (f[k] = q.open => k = at(q).open) /\ (f[k] = q.close => k = at(q).close)
    <3>1. \A i, j \in 1 .. Len(d) : f[i] = f[j] => i = j
      BY LeftIs
    <3>2. QED
      BY <1>2, <3>1
  <2>4. \A q \in Q : at(q) \in P
    OBVIOUS
  <2> HIDE DEF P
  <2>5. QED
    BY <2>2, <2>3, <2>4
<1>5. \A q \in P : SavedAt(d, q)
  BY <1>1
<1> HIDE DEF P
<1>6. MasksSaved(d, P)
  BY <1>3, <1>4, <1>5 DEF MasksSaved
<1>7. QED
  BY <1>6

LEMMA EraseGives ==
  ASSUME NEW Q, LowerOK(code, ends, begins, Q), EraseUnmaskOps
  PROVE  RunOK(code')
<1> DEFINE c == code
           n == Len(code)
           K == {k \in DOMAIN c : c[k].id \notin ends \cup begins}
           P == {Saved(q) : q \in Q}
<1>1. Coded(c) /\ RegionsOf(c, Q) /\ DOMAIN c = 1 .. n /\ c \in Seq(Instruction)
  BY LenProperties DEF LowerOK, Coded
<1>2. \A k \in 1 .. n : c[k].op = "unmask_end" => c[k].id \in ends
  <2>1. EndsLeft = {}
    BY DEF EraseUnmaskOps
  <2>2. QED
    BY <1>1, <2>1 DEF EndsLeft
<1>3. \A q \in Q : RegionAt(c, q) /\ c[q.end].id \in ends /\ AsLowered(c, q)
  <2>1. \A q \in Q : RegionAt(c, q) /\ c[q.end].id \in ends
    BY <1>1, <1>2 DEF RegionsOf, RegionAt
  <2>2. QED
    BY <2>1 DEF LowerOK
<1>4. MasksSaved(c, P)
  BY <1>3, LoweredMasks
<1>5. code' = Selected(c, K)
  BY DEF EraseUnmaskOps
<1>6. ASSUME NEW k \in 1 .. n, c[k].op \notin {"unmask_begin", "unmask_end"}
      PROVE  k \in K
  <2>1. c[k].id \notin ends
    <3>1. \A x \in ends : \E q \in Q : c[q.end].id = x
      BY DEF LowerOK
    <3>2. \A q \in Q : q.end \in 1 .. n /\ c[q.end].op = "unmask_end"
      BY <1>3 DEF RegionAt
    <3>3. QED
      BY <1>1, <1>6, <3>1, <3>2 DEF Coded
  <2>2. c[k].id \notin begins
    <3>1. \A x \in begins : \E q \in Q : c[q.begin].id = x
      BY DEF LowerOK
    <3>2. \A q \in Q : q.begin \in 1 .. n /\ c[q.begin].op = "unmask_begin"
      BY <1>3 DEF RegionAt
    <3>3. QED
      BY <1>1, <1>6, <3>1, <3>2 DEF Coded
  <2>3. QED
    BY <1>1, <2>1, <2>2
<1>7. ASSUME NEW j \in 1 .. n, NEW k \in 1 .. n,
             c[j].id \in Operands(c[k]), c[j].op # "unmask_end"
      PROVE  j \in K
  <2>1. c[j].id \notin ends
    <3>1. \A x \in ends : \E q \in Q : c[q.end].id = x
      BY DEF LowerOK
    <3>2. \A q \in Q : q.end \in 1 .. n /\ c[q.end].op = "unmask_end"
      BY <1>3 DEF RegionAt
    <3>3. QED
      BY <1>1, <1>7, <3>1, <3>2 DEF Coded
  <2>2. c[j].id \notin begins
    <3>1. \A x \in begins : \E q \in Q : c[q.begin].id = x
      BY DEF LowerOK
    <3>2. \A q \in Q : c[q.begin].id \notin Operands(c[k])
      BY <1>3 DEF AsLowered
    <3>3. QED
      BY <1>7, <3>1, <3>2
  <2>3. QED
    BY <1>1, <2>1, <2>2
<1>8. \A q \in P : q.save \in K /\ q.open \in K /\ q.store \in K /\ q.load \in K /\ q.close \in K
  <2> SUFFICES ASSUME NEW q \in P
               PROVE  q.save \in K /\ q.open \in K /\ q.store \in K /\ q.load \in K /\ q.close \in K
    OBVIOUS
  <2>1. SavedAt(c, q)
    BY <1>4 DEF MasksSaved
  <2>2. /\ q.save \in 1 .. n /\ q.open \in 1 .. n /\ q.store \in 1 .. n /\ q.load \in 1 .. n
        /\ q.close \in 1 .. n
        /\ c[q.save].op = "savemask" /\ c[q.open].op = "unmask" /\ c[q.store].op = "store"
        /\ c[q.load].op = "load" /\ c[q.close].op = "remask"
    BY <2>1 DEF SavedAt
  <2> HIDE DEF K, P, c, n
  <2>3. QED
    BY <1>6, <2>2
<1> HIDE DEF K, P
<1>9. PICK f : Left(c, K, Selected(c, K), f)
  <2>1. Selected(c, K) \in Seq(Instruction) /\ \E f : Chosen(c, K, Len(c), Selected(c, K), f)
    BY <1>1, SelectedIs
  <2>2. QED
    BY <1>1, <2>1 DEF Left
<1> DEFINE d == Selected(c, K)
<1> HIDE DEF d, c, n
<1>10. Left(c, K, d, f)
  BY <1>9 DEF d
<1>11. \A j, k \in 1 .. Len(c) :
         c[j].id \in Operands(c[k]) /\ c[j].op # "unmask_end" => j \in K
  BY <1>7 DEF n, c
<1>12. Coded(d)
  BY <1>10, <1>11, LeftCoded
<1>13. \E M : MasksSaved(d, M)
  BY <1>4, <1>8, <1>10, LeftMasks
<1>14. QED
  BY <1>5, <1>12, <1>13 DEF RunOK, d

-----------------------------------------------------------------------------
(* A block that runs.                                                      *)

\* RunCode is a recursion over the places of the code.
Then(c, K, n, s) == IF n \in K THEN Effect(s, c[n]) ELSE s
Runs(c, K, s, N, h) == h = [n \in 0 .. N |-> IF n = 0 THEN s ELSE Then(c, K, n, h[n - 1])]

LEMMA RunsThere ==
  ASSUME NEW c, NEW K, NEW s, NEW N \in Nat
  PROVE  \E h : Runs(c, K, s, N, h)
<1> DEFINE P == {m \in Nat : \E h : Runs(c, K, s, m, h)}
<1>1. 0 \in P
  <2> DEFINE h == [n \in 0 .. 0 |-> s]
  <2>1. h = [n \in 0 .. 0 |-> IF n = 0 THEN s ELSE Then(c, K, n, h[n - 1])]
    OBVIOUS
  <2> HIDE DEF h
  <2>2. Runs(c, K, s, 0, h)
    BY <2>1 DEF Runs
  <2>3. QED
    BY <2>2
<1>2. ASSUME NEW m \in P PROVE m + 1 \in P
  <2>1. m \in Nat
    OBVIOUS
  <2>2. PICK h : h = [n \in 0 .. m |-> IF n = 0 THEN s ELSE Then(c, K, n, h[n - 1])]
    BY DEF Runs
  <2> DEFINE g == [n \in 0 .. m + 1 |-> IF n \in 0 .. m THEN h[n] ELSE Then(c, K, n, h[m])]
             rhs == [n \in 0 .. m + 1 |-> IF n = 0 THEN s ELSE Then(c, K, n, g[n - 1])]
  <2>3. ASSUME NEW n \in 0 .. m + 1
        PROVE  g[n] = IF n = 0 THEN s ELSE Then(c, K, n, g[n - 1])
    <3>1. CASE n = 0
      <4>1. n \in 0 .. m
        BY <2>1, <3>1
      <4>2. QED
        BY <2>2, <3>1, <4>1
    <3>2. CASE n \in 1 .. m
      <4>1. n \in 0 .. m /\ n - 1 \in 0 .. m /\ n - 1 \in 0 .. m + 1 /\ n # 0
        BY <2>1, <3>2
      <4>2. g[n] = h[n] /\ g[n - 1] = h[n - 1]
        BY <4>1
      <4>3. h[n] = Then(c, K, n, h[n - 1])
        BY <2>2, <4>1
      <4> HIDE DEF g
      <4>4. QED
        BY <4>1, <4>2, <4>3
    <3>3. CASE n = m + 1
      <4>1. n \notin 0 .. m /\ n - 1 = m /\ m \in 0 .. m /\ m \in 0 .. m + 1 /\ n # 0
        BY <2>1, <3>3
      <4>2. g[n] = Then(c, K, n, h[m]) /\ g[m] = h[m]
        BY <4>1
      <4> HIDE DEF g
      <4>3. QED
        BY <4>1, <4>2
    <3>4. QED
      BY <2>1, <3>1, <3>2, <3>3
  <2>4. g = rhs
    <3>1. DOMAIN g = DOMAIN rhs /\ \A n \in DOMAIN g : g[n] = rhs[n]
      <4>1. DOMAIN g = 0 .. m + 1 /\ DOMAIN rhs = 0 .. m + 1
        OBVIOUS
      <4>2. \A n \in 0 .. m + 1 : rhs[n] = IF n = 0 THEN s ELSE Then(c, K, n, g[n - 1])
        BY DEF rhs
      <4> HIDE DEF g, rhs
      <4>3. QED
        BY <2>3, <4>1, <4>2
    <3>2. QED
      BY <3>1
  <2> HIDE DEF g
  <2>5. Runs(c, K, s, m + 1, g)
    BY <2>4 DEF Runs
  <2>6. QED
    BY <2>1, <2>5
<1>3. \A m \in Nat : m \in P
  <2> HIDE DEF P
  <2>1. QED
    BY <1>1, <1>2, NumberInduction
<1>4. QED
  BY <1>3

\* The states between the instructions.
LEMMA RunCodeIs ==
  ASSUME NEW c, Len(c) \in Nat, NEW K, NEW s
  PROVE  \E h : /\ RunCode(c, K, s) = h[Len(c)] /\ h[0] = s
                /\ \A n \in 1 .. Len(c) : h[n] = Then(c, K, n, h[n - 1])
<1> DEFINE N == Len(c)
           W == CHOOSE h : Runs(c, K, s, N, h)
<1>1. \E h : Runs(c, K, s, N, h)
  BY RunsThere
<1>2. RunCode(c, K, s) = W[N]
  BY DEF RunCode, Runs, Then
<1>3. Runs(c, K, s, N, W)
  BY <1>1
<1> HIDE DEF W
<1>4. W[0] = s
  <2>1. 0 \in 0 .. N
    OBVIOUS
  <2>2. QED
    BY <1>3, <2>1 DEF Runs
<1>5. ASSUME NEW n \in 1 .. N PROVE W[n] = Then(c, K, n, W[n - 1])
  <2>1. n \in 0 .. N /\ n # 0
    OBVIOUS
  <2>2. QED
    BY <1>3, <2>1 DEF Runs
<1>6. QED
  BY <1>2, <1>4, <1>5

\* What an instruction does to EM, memory and the values.
LEMMA EffectIs ==
  ASSUME NEW s, NEW i
  PROVE  /\ Effect(s, i).EM = IF i.op = "unmask" THEN Channels
                              ELSE IF i.op = "remask" THEN s.vals[i.args[1]][1] ELSE s.EM
         /\ DOMAIN Effect(s, i).mem = DOMAIN s.mem
         /\ \A v \in DOMAIN s.mem :
              i.op \notin Writes \/ i.args[2] # v => Effect(s, i).mem[v] = s.mem[v]
         /\ i.op = "store" /\ i.args[2] \in DOMAIN s.mem =>
              Effect(s, i).mem[i.args[2]] = s.vals[i.args[1]]
         /\ DOMAIN Effect(s, i).vals = DOMAIN s.vals \cup {i.id}
         /\ Effect(s, i).vals[i.id] = Result(i, s)
         /\ \A x \in DOMAIN s.vals \ {i.id} : Effect(s, i).vals[x] = s.vals[x]
<1>1. Effect(s, i).EM = IF i.op = "unmask" THEN Channels
                        ELSE IF i.op = "remask" THEN s.vals[i.args[1]][1] ELSE s.EM
  BY DEF Effect
<1> DEFINE kept == [k \in DOMAIN s.mem[i.args[2]] |->
                      IF On(i, s, k) THEN s.vals[i.args[1]][k] ELSE s.mem[i.args[2]][k]]
<1>2. Effect(s, i).mem = IF i.op = "store" THEN [s.mem EXCEPT ![i.args[2]] = s.vals[i.args[1]]]
                         ELSE IF i.op \in {"scatter", "raw_send_noresult"}
                         THEN [s.mem EXCEPT ![i.args[2]] = kept] ELSE s.mem
  BY DEF Effect
<1>3. Effect(s, i).vals = Assign(s.vals, i.id, Result(i, s))
  BY DEF Effect
<1> HIDE DEF kept
<1> DEFINE m == Effect(s, i).mem
<1>4. DOMAIN m = DOMAIN s.mem
  BY <1>2
<1>5. \A v \in DOMAIN s.mem : i.op \notin Writes \/ i.args[2] # v => m[v] = s.mem[v]
  BY <1>2 DEF Writes
<1>6. i.op = "store" /\ i.args[2] \in DOMAIN s.mem => m[i.args[2]] = s.vals[i.args[1]]
  BY <1>2
<1> DEFINE r == Result(i, s)
           u == Effect(s, i).vals
<1> HIDE DEF r
<1>7. u = [y \in DOMAIN s.vals \cup {i.id} |-> IF y = i.id THEN r ELSE s.vals[y]]
  BY <1>3 DEF Assign, r
<1> HIDE DEF u
<1>8. /\ DOMAIN u = DOMAIN s.vals \cup {i.id} /\ u[i.id] = r
      /\ \A x \in DOMAIN s.vals \ {i.id} : u[x] = s.vals[x]
  BY <1>7
<1>9. QED
  BY <1>1, <1>4, <1>5, <1>6, <1>8 DEF u, r

LEMMA ResultIs ==
  ASSUME NEW s, NEW i
  PROVE  /\ i.op = "savemask" => Result(i, s) = <<s.EM>>
         /\ i.op = "load" => Result(i, s) = s.mem[i.args[1]]
<1>1. i.op = "load" => Result(i, s) = s.mem[i.args[1]]
  BY DEF Result
<1>2. i.op = "savemask" => Result(i, s) = <<s.EM>>
  BY DEF Result
<1>3. QED
  BY <1>1, <1>2

\* EM after the first n instructions of the code when block b runs, entered with e.
Masked(c, Q, b, e, n) ==
  IF \E q \in Q : c[q.save].bb = b /\ q.open <= n /\ n < q.close THEN Channels ELSE e

LEMMA MaskedEnds ==
  ASSUME NEW c, Coded(c), NEW Q, MasksSaved(c, Q), NEW b, NEW e
  PROVE  Masked(c, Q, b, e, 0) = e /\ Masked(c, Q, b, e, Len(c)) = e
<1>1. Len(c) \in Nat
  BY LenProperties DEF Coded
<1>2. ASSUME NEW q \in Q
      PROVE  ~(q.open <= 0 /\ 0 < q.close) /\ ~(q.open <= Len(c) /\ Len(c) < q.close)
  <2>1. q.open \in 1 .. Len(c) /\ q.close \in 1 .. Len(c)
    BY DEF MasksSaved, SavedAt
  <2>2. QED
    BY <1>1, <2>1
<1>3. QED
  BY <1>2 DEF Masked

\* EM changes nowhere else.
LEMMA MaskedStays ==
  ASSUME NEW c, Coded(c), NEW Q, MasksSaved(c, Q), NEW b, NEW e, NEW n \in 1 .. Len(c),
         c[n].bb # b \/ c[n].op \notin {"unmask", "remask"}
  PROVE  Masked(c, Q, b, e, n) = Masked(c, Q, b, e, n - 1)
<1>1. ASSUME NEW q \in Q, c[q.save].bb = b
      PROVE  q.open <= n /\ n < q.close <=> q.open <= n - 1 /\ n - 1 < q.close
  <2>1. SavedAt(c, q)
    BY DEF MasksSaved
  <2>2. q.open \in 1 .. Len(c) /\ q.close \in 1 .. Len(c)
    BY <2>1 DEF SavedAt
  <2>3. n # q.open /\ n # q.close
    BY <1>1, <2>1 DEF SavedAt
  <2> DEFINE x == q.open
             y == q.close
  <2>4. x \in Nat /\ y \in Nat /\ n # x /\ n # y /\ n \in Nat
    BY <2>2, <2>3
  <2> HIDE DEF x, y
  <2>5. x <= n /\ n < y <=> x <= n - 1 /\ n - 1 < y
    BY <2>4
  <2>6. QED
    BY <2>5 DEF x, y
<1>2. QED
  BY <1>1 DEF Masked

\* It is enabled where it is opened, and after the close as it was before.
LEMMA MaskedOpens ==
  ASSUME NEW c, Coded(c), NEW Q, MasksSaved(c, Q), NEW q \in Q, NEW e
  PROVE  Masked(c, Q, c[q.save].bb, e, q.open) = Channels
<1>1. /\ q.open \in Nat /\ q.store \in Nat /\ q.load \in Nat /\ q.close \in Nat
      /\ q.open < q.store /\ q.store < q.load /\ q.load < q.close
  BY DEF MasksSaved, SavedAt
<1>2. q.open <= q.open /\ q.open < q.close
  BY <1>1
<1>3. QED
  BY <1>2 DEF Masked

LEMMA MaskedCloses ==
  ASSUME NEW c, Coded(c), NEW Q, MasksSaved(c, Q), NEW q \in Q, NEW e
  PROVE  Masked(c, Q, c[q.save].bb, e, q.close) = Masked(c, Q, c[q.save].bb, e, q.save)
<1> DEFINE b == c[q.save].bb
<1>1. ASSUME NEW p \in Q
      PROVE  /\ p.save \in Nat /\ p.open \in Nat /\ p.close \in Nat
             /\ p.save < p.open /\ p.open < p.close
  <2>1. /\ p.save \in Nat /\ p.open \in Nat /\ p.store \in Nat /\ p.load \in Nat /\ p.close \in Nat
        /\ p.save < p.open /\ p.open < p.store /\ p.store < p.load /\ p.load < p.close
    BY DEF MasksSaved, SavedAt
  <2>2. QED
    BY <2>1
<1>2. ASSUME NEW p \in Q, c[p.save].bb = b
      PROVE  p.open <= q.close /\ q.close < p.close <=> p.open <= q.save /\ q.save < p.close
  <2>1. CASE p = q
    <3>1. q.save \in Nat /\ q.open \in Nat /\ q.close \in Nat /\ q.save < q.open
      BY <1>1
    <3>2. QED
      BY <2>1, <3>1
  <2>2. CASE p # q
    <3>1. /\ p.open < q.save \/ q.open < p.save
          /\ p.open < q.save => p.close < q.save \/ q.close < p.close
          /\ q.open < p.save => q.close < p.save \/ p.close < q.close
      BY <1>2, <2>2 DEF MasksSaved
    <3> DEFINE x == p.save
               y == p.open
               z == p.close
               u == q.save
               v == q.open
               w == q.close
    <3>2. /\ x \in Nat /\ y \in Nat /\ z \in Nat /\ x < y /\ y < z
          /\ u \in Nat /\ v \in Nat /\ w \in Nat /\ u < v /\ v < w
      BY <1>1
    <3>3. /\ y < u \/ v < x
          /\ y < u => z < u \/ w < z
          /\ v < x => w < x \/ z < w
      BY <3>1
    <3> HIDE DEF x, y, z, u, v, w
    <3>4. y <= w /\ w < z <=> y <= u /\ u < z
      BY <3>2, <3>3
    <3>5. QED
      BY <3>4 DEF x, y, z, u, v, w
  <2>3. QED
    BY <2>1, <2>2
<1> HIDE DEF b
<1>3. QED
  <2>1. Masked(c, Q, b, e, q.close) = Masked(c, Q, b, e, q.save)
    BY <1>2 DEF Masked
  <2>2. QED
    BY <2>1 DEF b

\* Where the mask is saved, the EM before it is the one after it.
SavedMask(c, Q, e, q) == Masked(c, Q, c[q.save].bb, e, q.save)

\* The state s after the first n instructions of the code, as block b runs: each
\* mask saved is where its close finds it.
MaskKept(c, Q, e, n, s, q) ==
  /\ q.save <= n => /\ c[q.save].id \in DOMAIN s.vals
                    /\ s.vals[c[q.save].id] = <<SavedMask(c, Q, e, q)>>
  /\ q.store <= n => s.mem[c[q.load].args[1]] = <<SavedMask(c, Q, e, q)>>
  /\ q.load <= n => /\ c[q.load].id \in DOMAIN s.vals
                    /\ s.vals[c[q.load].id] = <<SavedMask(c, Q, e, q)>>

RanTo(c, Q, b, e, n, s) ==
  /\ s.EM = Masked(c, Q, b, e, n)
  /\ DOMAIN s.mem = DOMAIN Variables
  /\ \A q \in Q : c[q.save].bb = b => MaskKept(c, Q, e, n, s, q)

LEMMA KeptMore ==
  ASSUME NEW c, Coded(c), NEW Q, MasksSaved(c, Q), NEW b, NEW e,
         NEW n \in 1 .. Len(c), c[n].bb = b,
         NEW s, RanTo(c, Q, b, e, n - 1, s), NEW q \in Q, c[q.save].bb = b
  PROVE  MaskKept(c, Q, e, n, Effect(s, c[n]), q)
<1> DEFINE t == Effect(s, c[n])
           x == c[q.save].id
           y == c[q.load].id
           v == c[q.load].args[1]
           mask == SavedMask(c, Q, e, q)
<1>1. SavedAt(c, q) /\ MaskKept(c, Q, e, n - 1, s, q)
  BY DEF MasksSaved, RanTo
<1>2. /\ q.save \in 1 .. Len(c) /\ q.store \in 1 .. Len(c) /\ q.load \in 1 .. Len(c)
      /\ q.open \in 1 .. Len(c)
      /\ q.save < q.open /\ q.open < q.store /\ q.store < q.load
      /\ c[q.save].op = "savemask" /\ c[q.store].op = "store" /\ c[q.load].op = "load"
      /\ c[q.store].args[1] = x /\ c[q.store].args[2] = v
      /\ v \in MaskVariables /\ DOMAIN s.mem = DOMAIN Variables
  BY <1>1 DEF SavedAt, RanTo
<1>3. v \in DOMAIN s.mem
  BY <1>2, FunctionsAssumption
<1>4. /\ DOMAIN t.vals = DOMAIN s.vals \cup {c[n].id} /\ t.vals[c[n].id] = Result(c[n], s)
      /\ \A z \in DOMAIN s.vals \ {c[n].id} : t.vals[z] = s.vals[z]
      /\ c[n].op \notin Writes \/ c[n].args[2] # v => t.mem[v] = s.mem[v]
      /\ c[n].op = "store" /\ c[n].args[2] = v => t.mem[v] = s.vals[c[n].args[1]]
  BY <1>3, EffectIs
<1>5. n \in Nat /\ q.save \in Nat /\ q.store \in Nat /\ q.load \in Nat /\ q.open \in Nat
  BY <1>2
<1> HIDE DEF t, x, y, v, mask
<1>6. /\ q.save <= n - 1 => x \in DOMAIN s.vals /\ s.vals[x] = <<mask>>
      /\ q.store <= n - 1 => s.mem[v] = <<mask>>
      /\ q.load <= n - 1 => y \in DOMAIN s.vals /\ s.vals[y] = <<mask>>
  BY <1>1 DEF MaskKept, x, y, v, mask
<1>7. ASSUME q.save <= n PROVE x \in DOMAIN t.vals /\ t.vals[x] = <<mask>>
  <2>1. CASE q.save = n
    <3>1. Result(c[n], s) = <<s.EM>> /\ c[n].id = x
      BY <1>2, <2>1, ResultIs DEF x
    <3>2. s.EM = mask
      <4>1. s.EM = Masked(c, Q, b, e, n - 1)
        BY DEF RanTo
      <4>2. c[n].op \notin {"unmask", "remask"}
        BY <1>2, <2>1
      <4>3. Masked(c, Q, b, e, n) = Masked(c, Q, b, e, n - 1)
        BY <4>2, MaskedStays
      <4>4. QED
        BY <2>1, <4>1, <4>3 DEF SavedMask, mask
    <3>3. QED
      BY <1>4, <3>1, <3>2
  <2>2. CASE q.save # n
    <3>1. q.save <= n - 1
      BY <1>5, <1>7, <2>2
    <3>2. c[n].id # x
      BY <1>2, <2>2 DEF Coded, x
    <3>3. QED
      BY <1>4, <1>6, <3>1, <3>2
  <2>3. QED
    BY <2>1, <2>2
<1>8. ASSUME q.store <= n PROVE t.mem[v] = <<mask>>
  <2>1. CASE q.store = n
    <3>1. q.save <= n - 1
      BY <1>2, <1>5, <2>1
    <3>2. c[n].args[1] = x /\ c[n].args[2] = v /\ c[n].op = "store"
      BY <1>2, <2>1 DEF x, v
    <3>3. QED
      BY <1>4, <1>6, <3>1, <3>2
  <2>2. CASE q.store # n
    <3>1. q.store <= n - 1
      BY <1>5, <1>8, <2>2
    <3>2. c[n].op \notin Writes \/ c[n].args[2] # v
      BY <1>1, <2>2 DEF SavedAt, v
    <3>3. QED
      BY <1>4, <1>6, <3>1, <3>2
  <2>3. QED
    BY <2>1, <2>2
<1>9. ASSUME q.load <= n PROVE y \in DOMAIN t.vals /\ t.vals[y] = <<mask>>
  <2>1. CASE q.load = n
    <3>1. q.store <= n - 1
      BY <1>2, <1>5, <2>1
    <3>2. Result(c[n], s) = s.mem[v] /\ c[n].id = y
      BY <1>2, <2>1, ResultIs DEF y, v
    <3>3. QED
      BY <1>4, <1>6, <3>1, <3>2
  <2>2. CASE q.load # n
    <3>1. q.load <= n - 1
      BY <1>5, <1>9, <2>2
    <3>2. c[n].id # y
      BY <1>2, <2>2 DEF Coded, y
    <3>3. QED
      BY <1>4, <1>6, <3>1, <3>2
  <2>3. QED
    BY <2>1, <2>2
<1>10. MaskKept(c, Q, e, n, t, q)
  BY <1>7, <1>8, <1>9 DEF MaskKept, x, y, v, mask
<1>11. QED
  BY <1>10 DEF t

\* An instruction of the block.
LEMMA RanMore ==
  ASSUME NEW c, Coded(c), NEW Q, MasksSaved(c, Q), NEW b, NEW e,
         NEW n \in 1 .. Len(c), c[n].bb = b,
         NEW s, RanTo(c, Q, b, e, n - 1, s)
  PROVE  RanTo(c, Q, b, e, n, Effect(s, c[n]))
<1> DEFINE t == Effect(s, c[n])
<1>1. \A q \in Q : c[q.save].bb = b => MaskKept(c, Q, e, n, t, q)
  BY KeptMore
<1>2. DOMAIN t.mem = DOMAIN Variables
  BY EffectIs DEF RanTo
<1>3. t.EM = IF c[n].op = "unmask" THEN Channels
             ELSE IF c[n].op = "remask" THEN s.vals[c[n].args[1]][1] ELSE s.EM
  BY EffectIs
<1> HIDE DEF t
<1>4. t.EM = Masked(c, Q, b, e, n)
  <2>1. CASE c[n].op = "unmask"
    <3>1. PICK q \in Q : n = q.open
      BY <2>1 DEF MasksSaved
    <3>2. c[q.save].bb = b
      BY <3>1 DEF MasksSaved, SavedAt
    <3>3. Masked(c, Q, c[q.save].bb, e, q.open) = Channels
      BY MaskedOpens
    <3>4. QED
      BY <1>3, <2>1, <3>1, <3>2, <3>3
  <2>2. CASE c[n].op = "remask"
    <3>1. PICK q \in Q : n = q.close
      BY <2>2 DEF MasksSaved
    <3>2. SavedAt(c, q)
      BY DEF MasksSaved
    <3>3. /\ c[q.save].bb = b /\ c[n].args[1] = c[q.load].id
          /\ q.load \in Nat /\ n \in Nat /\ q.load < n
      BY <3>1, <3>2, SMTT(30) DEF SavedAt
    <3>4. q.load <= n - 1
      BY <3>3
    <3>5. MaskKept(c, Q, e, n - 1, s, q)
      BY <3>3 DEF RanTo
    <3>6. s.vals[c[q.load].id] = <<SavedMask(c, Q, e, q)>>
      BY <3>4, <3>5 DEF MaskKept
    <3>7. t.EM = SavedMask(c, Q, e, q)
      <4> DEFINE m == SavedMask(c, Q, e, q)
      <4> HIDE DEF m
      <4>1. t.EM = <<m>>[1]
        BY <1>3, <2>2, <3>3, <3>6 DEF m
      <4>2. QED
        BY <4>1 DEF m
    <3>8. SavedMask(c, Q, e, q) = Masked(c, Q, c[q.save].bb, e, q.close)
      BY MaskedCloses DEF SavedMask
    <3>9. QED
      BY <3>1, <3>3, <3>7, <3>8
  <2>3. CASE c[n].op \notin {"unmask", "remask"}
    <3>1. t.EM = s.EM
      BY <1>3, <2>3
    <3>2. s.EM = Masked(c, Q, b, e, n - 1)
      BY DEF RanTo
    <3>3. Masked(c, Q, b, e, n) = Masked(c, Q, b, e, n - 1)
      BY <2>3, MaskedStays
    <3>4. QED
      BY <3>1, <3>2, <3>3
  <2>4. QED
    BY <2>1, <2>2, <2>3
<1>5. RanTo(c, Q, b, e, n, t)
  BY <1>1, <1>2, <1>4 DEF RanTo
<1>6. QED
  BY <1>5 DEF t

\* An instruction of another block.
LEMMA RanPast ==
  ASSUME NEW c, Coded(c), NEW Q, MasksSaved(c, Q), NEW b, NEW e,
         NEW n \in 1 .. Len(c), c[n].bb # b,
         NEW s, RanTo(c, Q, b, e, n - 1, s)
  PROVE  RanTo(c, Q, b, e, n, s)
<1>1. Masked(c, Q, b, e, n) = Masked(c, Q, b, e, n - 1)
  BY MaskedStays
<1>2. ASSUME NEW q \in Q, c[q.save].bb = b
      PROVE  MaskKept(c, Q, e, n, s, q)
  <2>1. /\ q.save \in Nat /\ q.store \in Nat /\ q.load \in Nat
        /\ q.save # n /\ q.store # n /\ q.load # n
    BY <1>2 DEF MasksSaved, SavedAt
  <2>2. MaskKept(c, Q, e, n - 1, s, q)
    BY <1>2 DEF RanTo
  <2>3. /\ q.save <= n => q.save <= n - 1
        /\ q.store <= n => q.store <= n - 1
        /\ q.load <= n => q.load <= n - 1
    BY <2>1
  <2>4. QED
    BY <2>2, <2>3 DEF MaskKept
<1>3. QED
  BY <1>1, <1>2 DEF RanTo

\* A block leaves EM as it found it.
LEMMA BlockRuns ==
  ASSUME NEW c, RunOK(c), NEW b, NEW s, DOMAIN s.mem = DOMAIN Variables
  PROVE  /\ RunCode(c, InBlock(c, b), s).EM = s.EM
         /\ DOMAIN RunCode(c, InBlock(c, b), s).mem = DOMAIN Variables
<1>1. Coded(c) /\ Len(c) \in Nat
  BY LenProperties DEF RunOK, Coded
<1>2. PICK Q : MasksSaved(c, Q)
  BY DEF RunOK
<1> DEFINE K == InBlock(c, b)
           e == s.EM
<1>3. PICK h : /\ RunCode(c, K, s) = h[Len(c)] /\ h[0] = s
               /\ \A n \in 1 .. Len(c) : h[n] = Then(c, K, n, h[n - 1])
  <2> HIDE DEF K
  <2>1. Len(c) \in Nat
    BY <1>1
  <2>2. QED
    BY ONLY <2>1, RunCodeIs
<1>4. \A n \in 1 .. Len(c) : n \in K <=> c[n].bb = b
  BY <1>1 DEF InBlock, Coded
<1> HIDE DEF K
<1> DEFINE P == {n \in Nat : n <= Len(c) => RanTo(c, Q, b, e, n, h[n])}
<1>5. 0 \in P
  <2>1. s.EM = Masked(c, Q, b, e, 0)
    BY <1>1, <1>2, MaskedEnds
  <2>2. ASSUME NEW q \in Q PROVE MaskKept(c, Q, e, 0, s, q)
    <3>1. q.save \in 1 .. Len(c) /\ q.store \in 1 .. Len(c) /\ q.load \in 1 .. Len(c)
      BY <1>2 DEF MasksSaved, SavedAt
    <3>2. ~(q.save <= 0) /\ ~(q.store <= 0) /\ ~(q.load <= 0)
      BY <3>1
    <3>3. QED
      BY <3>2 DEF MaskKept
  <2>3. RanTo(c, Q, b, e, 0, s)
    BY <2>1, <2>2 DEF RanTo
  <2>4. QED
    BY <1>3, <2>3
<1>6. ASSUME NEW m \in P PROVE m + 1 \in P
  <2> SUFFICES ASSUME m + 1 <= Len(c) PROVE RanTo(c, Q, b, e, m + 1, h[m + 1])
    OBVIOUS
  <2>1. m \in Nat
    OBVIOUS
  <2> DEFINE n == m + 1
  <2>2. n \in 1 .. Len(c) /\ n - 1 = m /\ m <= Len(c)
    BY <1>1, <2>1
  <2>3. RanTo(c, Q, b, e, n - 1, h[n - 1])
    BY <2>2
  <2> HIDE DEF P, n, e
  <2>4. h[n] = Then(c, K, n, h[n - 1])
    BY <1>3, <2>2
  <2>5. CASE c[n].bb = b
    <3>1. h[n] = Effect(h[n - 1], c[n])
      BY <1>4, <2>2, <2>4, <2>5 DEF Then
    <3>2. RanTo(c, Q, b, e, n, Effect(h[n - 1], c[n]))
      BY <1>1, <1>2, <2>2, <2>3, <2>5, RanMore
    <3>3. QED
      BY <3>1, <3>2 DEF n
  <2>6. CASE c[n].bb # b
    <3>1. h[n] = h[n - 1]
      BY <1>4, <2>2, <2>4, <2>6 DEF Then
    <3>2. RanTo(c, Q, b, e, n, h[n - 1])
      BY <1>1, <1>2, <2>2, <2>3, <2>6, RanPast
    <3>3. QED
      BY <3>1, <3>2 DEF n
  <2>7. QED
    BY <2>5, <2>6
<1>7. \A n \in Nat : n \in P
  <2> HIDE DEF P
  <2>1. QED
    BY <1>5, <1>6, NumberInduction
<1>8. RanTo(c, Q, b, e, Len(c), h[Len(c)])
  <2>1. Len(c) \in P /\ Len(c) <= Len(c)
    BY <1>1, <1>7
  <2>2. QED
    BY <2>1
<1>9. Masked(c, Q, b, e, Len(c)) = e
  BY <1>1, <1>2, MaskedEnds
<1> HIDE DEF e
<1>10. RunCode(c, K, s).EM = e /\ DOMAIN RunCode(c, K, s).mem = DOMAIN Variables
  BY <1>3, <1>8, <1>9 DEF RanTo
<1>11. QED
  BY <1>10 DEF K, e

-----------------------------------------------------------------------------
(* The invariant.                                                          *)

NotRunning == EM = Channels /\ trace = <<>> /\ mem = <<>>

\* The blocks executed are those of the path, and none has channels that are not there.
Traced ==
  /\ trace \in Seq([block : Nat, enabled : SUBSET Channels])
  /\ Len(trace) <= Len(source.path)
  /\ \A n \in 1 .. Len(trace) : trace[n].block = source.path[n]

Running == EM \subseteq Channels /\ DOMAIN mem = DOMAIN Variables /\ Traced

PredicationInv ==
  /\ source \in SourceFunctions
  /\ phase \in {"predicateCode", "predicateBlock", "stuck", "lowerUnmaskOps", "lowered", "run"}
  /\ phase \in {"predicateCode", "predicateBlock"} => PassInv /\ NotRunning
  /\ phase = "stuck" => Coded(code) /\ todo \subseteq Ids(code) /\ NotRunning
  /\ phase = "lowerUnmaskOps" =>
       todo = {} /\ (\E Q : LowerOK(code, ends, begins, Q)) /\ NotRunning
  /\ phase = "lowered" => todo = {} /\ RunOK(code) /\ NotRunning
  /\ phase = "run" => todo = {} /\ RunOK(code) /\ Running

LEMMA FirstPass ==
  ASSUME Init
  PROVE  PassInv
<1>1. /\ source \in SourceFunctions /\ code = source.code /\ todo = {} /\ OriginalPred = <<>>
      /\ ends = {} /\ begins = {} /\ phase = "predicateCode"
  BY DEF Init
<1>2. Coded(code) /\ MasksClosed(code) /\ \A k \in 1 .. Len(code) : Formed(code[k])
  BY <1>1, SourceCoded, SourceMasksClosed
<1>3. \A k \in 1 .. Len(code) : Unmade(code, code[k].id)
  <2>1. \A k \in 1 .. Len(code) : code[k].id \in 1 .. IdStep - 1
    BY <1>2 DEF Formed
  <2>2. ASSUME NEW k \in 1 .. Len(code), NEW n \in 1 .. Len(code), code[n].id \in Made(code[k].id)
        PROVE  FALSE
    <3>1. code[n].id >= IdStep
      BY <2>1, <2>2, MadeIds
    <3>2. code[n].id \in 1 .. IdStep - 1 /\ IdStep \in Nat
      BY <2>1 DEF IdStep
    <3>3. QED
      BY <3>1, <3>2
  <2>3. QED
    BY <2>1, <2>2 DEF Unmade
<1>4. MasksStay
  <2>1. SameMasks(source.code, code)
    BY <1>1, <1>2, SameMasksSelf
  <2>2. \A k \in 1 .. Len(code) : code[k].op \notin {"savemask", "unmask", "remask"}
    BY <1>2 DEF Formed, Ignored, ScatterGathers, Sends
  <2>3. QED
    BY <1>1, <1>2, <1>3, <2>1, <2>2 DEF MasksStay
<1>5. WaitingFresh
  <2>1. \A k \in 1 .. Len(code) : code[k].op = "gather_masked" =>
          code[k].pred \in {AllOnes, GivenPred}
    BY <1>2 DEF Formed, Shaped, ScatterGathers
  <2>2. QED
    BY <1>3, <2>1 DEF WaitingFresh
<1>6. GathersGiven
  BY <1>1 DEF GathersGiven
<1>7. TodoHere
  <2>1. Blocks(order)
    BY BlocksFirst
  <2>2. QED
    BY <1>1, <2>1 DEF TodoHere
<1>8. QED
  BY <1>1, <1>4, <1>5, <1>6, <1>7 DEF PassInv

LEMMA FirstInv ==
  ASSUME Init
  PROVE  PredicationInv
<1>1. PassInv
  BY FirstPass
<1>2. phase = "predicateCode" /\ source \in SourceFunctions /\ NotRunning
  BY DEF Init, NotRunning
<1>3. QED
  BY <1>1, <1>2 DEF PredicationInv

\* Of a set of places there is a last one.
LEMMA LastPlace ==
  ASSUME NEW N \in Nat, NEW S, S \subseteq 1 .. N, S # {}
  PROVE  Max(S) \in S
<1> DEFINE T == {N - k : k \in S}
<1>1. T \subseteq Nat /\ T # {}
  OBVIOUS
<1>2. PICK t \in T : \A u \in T : t <= u
  BY <1>1, LeastNumber
<1>3. PICK k \in S : t = N - k
  BY <1>2
<1>4. ASSUME NEW j \in S PROVE k >= j
  <2>1. N - k <= N - j
    BY <1>2, <1>3
  <2>2. QED
    BY <2>1
<1>5. \E x \in S : \A y \in S : x >= y
  BY <1>4
<1>6. QED
  BY <1>5 DEF Max

LEMMA EnabledChannels ==
  ASSUME source \in SourceFunctions, Traced, Len(trace) < Len(source.path),
         NEW enabled \in EnabledIn(source.path[Len(trace) + 1])
  PROVE  enabled \subseteq Channels /\ source.path[Len(trace) + 1] \in Nat
<1> DEFINE n == Len(trace) + 1
           b == source.path[n]
           outer == source.outer[b]
           S == {m \in DOMAIN trace : trace[m].block = outer}
           latest == Max(S)
           before == IF outer = 0 THEN Channels ELSE trace[latest].enabled
           some == {m \in SUBSET before : m \cap Lanes # {} /\ before \ Lanes \subseteq m}
<1>1. /\ source.path \in Seq(Nat) /\ PathFormed(source)
      /\ DOMAIN source.path = 1 .. Len(source.path) /\ Len(source.path) \in Nat
  BY FunctionsAssumption, LenProperties
<1>2. Len(trace) \in Nat /\ DOMAIN trace = 1 .. Len(trace)
  BY LenProperties DEF Traced
<1>3. \A m \in 1 .. Len(trace) : trace[m].enabled \subseteq Channels
  <2>1. \A m \in 1 .. Len(trace) : trace[m] \in [block : Nat, enabled : SUBSET Channels]
    BY ElementOfSeq DEF Traced
  <2>2. QED
    BY <2>1
<1>4. n \in 1 .. Len(source.path) /\ 1 .. n - 1 = 1 .. Len(trace)
  BY <1>1, <1>2
<1>5. b \in Nat
  BY <1>1, <1>4, ElementOfSeq
<1>6. outer = 0 \/ S # {}
  <2>1. outer = 0 \/ \E m \in 1 .. n - 1 : source.path[m] = outer
    BY <1>1, <1>4 DEF PathFormed
  <2>2. QED
    BY <1>2, <1>4, <2>1 DEF Traced
<1>7. before \subseteq Channels
  <2>1. CASE outer = 0
    BY <2>1
  <2>2. CASE outer # 0
    <3>1. S \subseteq 1 .. Len(trace) /\ S # {}
      BY <1>2, <1>6, <2>2
    <3> HIDE DEF S
    <3>2. latest \in S
      BY <1>2, <3>1, LastPlace
    <3>3. latest \in 1 .. Len(trace)
      BY <3>1, <3>2
    <3> HIDE DEF latest
    <3>4. QED
      BY <1>3, <2>2, <3>3
  <2>3. QED
    BY <2>1, <2>2
<1>8. EnabledIn(b) = IF outer # 0 THEN some
                     ELSE IF trace # <<>> THEN {trace[1].enabled}
                     ELSE IF source.cmWidth = 0 THEN {Channels} ELSE some
  BY DEF EnabledIn
<1>9. trace # <<>> => 1 \in 1 .. Len(trace)
  BY <1>2, EmptySeq DEF Traced
<1>10. enabled \in EnabledIn(b)
  OBVIOUS
<1> HIDE DEF before, outer, b
<1>11. \A m \in some : m \subseteq Channels
  BY <1>7
<1> HIDE DEF some
<1>12. enabled \subseteq Channels
  BY <1>3, <1>8, <1>9, <1>10, <1>11
<1>13. QED
  BY <1>5, <1>12 DEF b, n

LEMMA RunKeeps ==
  ASSUME PredicationInv, RunBlock
  PROVE  PredicationInv' /\ EM' = trace'[Len(trace')].enabled
<1> DEFINE b == source.path[Len(trace) + 1]
<1>1. /\ source \in SourceFunctions /\ todo = {} /\ RunOK(code) /\ Running /\ phase = "run"
      /\ UNCHANGED <<source, code, todo, phase>> /\ Len(trace) < Len(source.path)
  BY DEF PredicationInv, RunBlock, passVars
<1>2. PICK enabled \in EnabledIn(b) :
        LET after == RunCode(code, InBlock(code, b), [EM |-> enabled, mem |-> mem, vals |-> vals])
        IN  /\ EM' = after.EM /\ mem' = after.mem
            /\ trace' = Append(trace, [block |-> b, enabled |-> enabled])
  BY DEF RunBlock
<1>3. enabled \subseteq Channels /\ b \in Nat
  <2>1. Traced
    BY <1>1 DEF Running
  <2>2. QED
    BY <1>1, <2>1, EnabledChannels
<1> DEFINE s == [EM |-> enabled, mem |-> mem, vals |-> vals]
           r == [block |-> b, enabled |-> enabled]
           after == RunCode(code, InBlock(code, b), s)
<1>4. s.EM = enabled /\ s.mem = mem
  OBVIOUS
<1>5. EM' = after.EM /\ mem' = after.mem /\ trace' = Append(trace, r)
  BY <1>2
<1>6. after.EM = enabled /\ DOMAIN after.mem = DOMAIN Variables
  <2>1. DOMAIN s.mem = DOMAIN Variables
    BY <1>1, <1>4 DEF Running
  <2> HIDE DEF s
  <2>2. after.EM = s.EM /\ DOMAIN after.mem = DOMAIN Variables
    BY <1>1, <2>1, BlockRuns
  <2>3. QED
    BY <1>4, <2>2
<1> HIDE DEF after, s
<1>7. trace \in Seq([block : Nat, enabled : SUBSET Channels]) /\ r \in [block : Nat, enabled : SUBSET Channels]
  BY <1>1, <1>3 DEF Running, Traced
<1>8. /\ r.block = b /\ r.enabled = enabled
  OBVIOUS
<1> HIDE DEF r
<1>9. /\ trace' \in Seq([block : Nat, enabled : SUBSET Channels])
      /\ Len(trace') = Len(trace) + 1 /\ Len(trace) \in Nat
      /\ trace'[Len(trace) + 1] = r
      /\ \A n \in 1 .. Len(trace) : trace'[n] = trace[n]
  BY <1>5, <1>7, AppendProperties, LenProperties
<1>10. Traced'
  <2>1. Len(trace') <= Len(source.path')
    <3>1. Len(source.path) \in Nat
      BY <1>1, FunctionsAssumption, LenProperties
    <3>2. QED
      BY <1>1, <1>9, <3>1
  <2>2. ASSUME NEW n \in 1 .. Len(trace') PROVE trace'[n].block = source'.path[n]
    <3>1. CASE n = Len(trace) + 1
      BY <1>1, <1>8, <1>9, <3>1
    <3>2. CASE n # Len(trace) + 1
      <4>1. n \in 1 .. Len(trace)
        BY <1>9, <3>2
      <4>2. QED
        BY <1>1, <1>9, <4>1 DEF Running, Traced
    <3>3. QED
      BY <3>1, <3>2
  <2>3. QED
    BY <1>9, <2>1, <2>2 DEF Traced
<1>11. Running'
  BY <1>3, <1>5, <1>6, <1>10 DEF Running
<1>12. PredicationInv'
  BY <1>1, <1>11 DEF PredicationInv
<1>13. QED
  BY <1>5, <1>6, <1>8, <1>9, <1>12

\* The instructions of a block are predicated, or left.
LEMMA PassKeeps ==
  ASSUME PassInv,
         \/ StartBlock \/ EndBlock \/ Ignore \/ Illegal \/ PredicateScatterGather
         \/ PredicateSend \/ RewritePredication \/ PredicateStore
  PROVE  /\ \/ PassInv' /\ phase' \in {"predicateCode", "predicateBlock"}
            \/ phase' = "stuck" /\ UNCHANGED <<code, todo>>
         /\ UNCHANGED <<source, runVars>>
<1> DEFINE two == {"predicateCode", "predicateBlock"}
<1>1. CASE StartBlock
  <2>1. PassInv'
    BY <1>1, StartKeeps
  <2>2. phase' \in two /\ UNCHANGED <<source, runVars>>
    BY <1>1 DEF StartBlock
  <2>3. QED
    BY <2>1, <2>2
<1>2. CASE EndBlock
  <2>1. PassInv'
    BY <1>2, EndKeeps
  <2>2. phase' \in two /\ UNCHANGED <<source, runVars>>
    BY <1>2 DEF EndBlock
  <2>3. QED
    BY <2>1, <2>2
<1>3. CASE Ignore \/ Illegal
  <2>1. /\ phase = "predicateBlock" /\ todo' = todo \ {Inst.id}
        /\ UNCHANGED <<code, OriginalPred, source, order, ends, begins, phase, runVars>>
    BY <1>3 DEF Ignore, Illegal, At, Leave, Report, Advance
  <2>2. PassInv'
    BY <2>1, LeaveKeeps
  <2>3. QED
    BY <2>1, <2>2
<1>4. CASE PredicateScatterGather
  <2>1. PassInv'
    BY <1>4, GiveMaskKeeps
  <2>2. phase' \in two /\ UNCHANGED <<source, runVars>>
    BY <1>4 DEF PredicateScatterGather, At, Leave, Report, GiveMask, Advance
  <2>3. QED
    BY <2>1, <2>2
<1>5. CASE PredicateSend
  <2>1. PassInv'
    BY <1>5, SendKeeps
  <2>2. phase' \in two /\ UNCHANGED <<source, runVars>>
    BY <1>5 DEF PredicateSend, At, GiveMask, Advance
  <2>3. QED
    BY <2>1, <2>2
<1>6. CASE RewritePredication
  <2>1. PassInv'
    BY <1>6, RewriteKeeps
  <2>2. phase' \in two /\ UNCHANGED <<source, runVars>>
    BY <1>6 DEF RewritePredication, At, Report, Advance
  <2>3. QED
    BY <2>1, <2>2
<1>7. CASE PredicateStore
  <2>1. PassInv' \/ (phase' = "stuck" /\ UNCHANGED <<source, code, todo, runVars>>)
    BY <1>7, StoreKeeps
  <2>2. phase' \in two \cup {"stuck"} /\ UNCHANGED <<source, runVars>>
    BY <1>7 DEF PredicateStore, At, Leave, Advance
  <2>3. phase' = "stuck" => UNCHANGED <<code, todo>>
    BY <1>7 DEF PredicateStore, At, Leave, Advance
  <2>4. QED
    BY <2>1, <2>2, <2>3
<1>8. QED
  BY <1>1, <1>2, <1>3, <1>4, <1>5, <1>6, <1>7

\* The ids ahead are of the code.
LEMMA PassTodo ==
  ASSUME PassInv
  PROVE  Coded(code) /\ todo \subseteq Ids(code)
<1>1. Coded(code) /\ DOMAIN code = 1 .. Len(code)
  BY DEF PassInv, MasksStay, Coded
<1>2. \A x \in todo : \E k \in 1 .. Len(code) : code[k].id = x
  BY DEF PassInv, TodoHere
<1>3. QED
  BY <1>1, <1>2 DEF Ids

\* Every step keeps the invariant, and a block that runs leaves EM as it was.
LEMMA NextKeeps ==
  ASSUME PredicationInv, [Next]_vars
  PROVE  /\ PredicationInv'
         /\ Len(trace') > Len(trace) => EM' = trace'[Len(trace')].enabled
<1> DEFINE comes == EM' = trace'[Len(trace')].enabled
           pass == \/ StartBlock \/ EndBlock \/ Ignore \/ Illegal \/ PredicateScatterGather
                   \/ PredicateSend \/ RewritePredication \/ PredicateStore
<1>1. Len(trace) \in Nat
  <2>1. phase = "run" => Len(trace) \in Nat
    BY LenProperties DEF PredicationInv, Running, Traced
  <2>2. phase # "run" => Len(trace) \in Nat
    <3>1. phase # "run" => trace = <<>>
      BY DEF PredicationInv, NotRunning
    <3>2. Len(<<>>) = 0
      OBVIOUS
    <3>3. QED
      BY <3>1, <3>2
  <2>3. QED
    BY <2>1, <2>2
<1>2. trace' = trace => ~(Len(trace') > Len(trace))
  BY <1>1
<1>3. CASE pass
  <2>1. phase \in {"predicateCode", "predicateBlock"}
    BY <1>3 DEF StartBlock, EndBlock, Ignore, Illegal, PredicateScatterGather, PredicateSend,
                RewritePredication, PredicateStore, At
  <2>2. PassInv /\ NotRunning /\ source \in SourceFunctions
    BY <2>1 DEF PredicationInv
  <2>3. /\ \/ PassInv' /\ phase' \in {"predicateCode", "predicateBlock"}
           \/ phase' = "stuck" /\ UNCHANGED <<code, todo>>
        /\ UNCHANGED <<source, runVars>>
    BY <1>3, <2>2, PassKeeps
  <2>4. NotRunning' /\ trace' = trace
    BY <2>2, <2>3 DEF NotRunning, runVars
  <2>5. CASE PassInv' /\ phase' \in {"predicateCode", "predicateBlock"}
    BY <1>2, <2>2, <2>3, <2>4, <2>5 DEF PredicationInv
  <2>6. CASE phase' = "stuck" /\ UNCHANGED <<code, todo>>
    <3>1. Coded(code') /\ todo' \subseteq Ids(code')
      BY <2>2, <2>6, PassTodo
    <3>2. QED
      BY <1>2, <2>2, <2>3, <2>4, <2>6, <3>1 DEF PredicationInv
  <2>7. QED
    BY <2>3, <2>5, <2>6
<1>4. CASE PredicateCodeDone
  <2>1. /\ phase = "predicateCode" /\ phase' = "lowerUnmaskOps"
        /\ UNCHANGED <<source, code, todo, ends, begins, trace, EM, mem>>
    BY <1>4 DEF PredicateCodeDone, passVars, runVars
  <2>2. PassInv /\ NotRunning /\ source \in SourceFunctions
    BY <2>1 DEF PredicationInv
  <2>3. todo = {} /\ ends = {} /\ begins = {} /\ MasksStay
    BY <2>1, <2>2 DEF PassInv, TodoHere
  <2>4. \E Q : LowerOK(code, {}, {}, Q)
    BY <2>3, LowerFirst
  <2>5. \E Q : LowerOK(code', ends', begins', Q)
    BY <2>1, <2>3, <2>4
  <2>6. NotRunning'
    BY <2>1, <2>2 DEF NotRunning
  <2>7. QED
    BY <1>2, <2>1, <2>2, <2>3, <2>5, <2>6 DEF PredicationInv
<1>5. CASE LowerUnmaskEnd
  <2>1. /\ phase = "lowerUnmaskOps" /\ phase' = "lowerUnmaskOps"
        /\ UNCHANGED <<source, todo, trace, EM, mem>>
    BY <1>5 DEF LowerUnmaskEnd, runVars
  <2>2. /\ todo = {} /\ NotRunning /\ source \in SourceFunctions
        /\ \E Q : LowerOK(code, ends, begins, Q)
    BY <2>1 DEF PredicationInv
  <2>3. \E Q : LowerOK(code', ends', begins', Q)
    BY <1>5, <2>2, LowerKeeps
  <2>4. NotRunning'
    BY <2>1, <2>2 DEF NotRunning
  <2>5. QED
    BY <1>2, <2>1, <2>2, <2>3, <2>4 DEF PredicationInv
<1>6. CASE EraseUnmaskOps
  <2>1. /\ phase = "lowerUnmaskOps" /\ phase' = "lowered"
        /\ UNCHANGED <<source, todo, trace, EM, mem>>
    BY <1>6 DEF EraseUnmaskOps, runVars
  <2>2. /\ todo = {} /\ NotRunning /\ source \in SourceFunctions
        /\ \E Q : LowerOK(code, ends, begins, Q)
    BY <2>1 DEF PredicationInv
  <2>3. RunOK(code')
    BY <1>6, <2>2, EraseGives
  <2>4. NotRunning'
    BY <2>1, <2>2 DEF NotRunning
  <2>5. QED
    BY <1>2, <2>1, <2>2, <2>3, <2>4 DEF PredicationInv
<1>7. CASE Enter
  <2>1. /\ phase = "lowered" /\ phase' = "run" /\ mem' = FirstMem
        /\ UNCHANGED <<source, code, todo, trace, EM>>
    BY <1>7 DEF Enter, passVars
  <2>2. todo = {} /\ RunOK(code) /\ NotRunning /\ source \in SourceFunctions
    BY <2>1 DEF PredicationInv
  <2>3. DOMAIN mem' = DOMAIN Variables
    BY <2>1 DEF FirstMem
  <2>4. Traced'
    <3>1. trace' = <<>> /\ source' = source
      BY <2>1, <2>2 DEF NotRunning
    <3>2. Len(<<>>) = 0 /\ 1 .. 0 = {}
      OBVIOUS
    <3>3. Len(source.path) \in Nat
      BY <2>2, FunctionsAssumption, LenProperties
    <3> DEFINE none == <<>>
    <3>4. none \in Seq([block : Nat, enabled : SUBSET Channels])
      BY EmptySeq
    <3> HIDE DEF none
    <3>5. trace' = none /\ Len(none) = 0
      BY <3>1, <3>2 DEF none
    <3>6. QED
      BY <3>1, <3>2, <3>3, <3>4, <3>5 DEF Traced
  <2>5. Running'
    BY <2>1, <2>2, <2>3, <2>4 DEF Running, NotRunning
  <2>6. QED
    BY <1>2, <2>1, <2>2, <2>5 DEF PredicationInv
<1>8. CASE RunBlock
  BY <1>8, RunKeeps
<1>9. CASE Finished \/ UNCHANGED vars
  <2>1. UNCHANGED <<source, code, order, todo, OriginalPred, ends, begins, phase, trace, EM, mem>>
    BY <1>9 DEF Finished, vars, passVars, runVars
  <2>2. PassInv => PassInv'
    BY <2>1 DEF PassInv, MasksStay, WaitingFresh, Waits, GathersGiven, TodoHere, Unmade
  <2>3. (NotRunning => NotRunning') /\ (Running => Running')
    BY <2>1 DEF NotRunning, Running, Traced
  <2>4. QED
    BY <1>2, <2>1, <2>2, <2>3 DEF PredicationInv
<1>10. QED
  BY <1>3, <1>4, <1>5, <1>6, <1>7, <1>8, <1>9 DEF Next

-----------------------------------------------------------------------------
LEMMA CodedSSA ==
  ASSUME NEW c, Coded(c)
  PROVE  IsSSA(c)
<1> DEFINE f == [k \in DOMAIN c |-> c[k].id]
<1>1. DOMAIN c = 1 .. Len(c)
  BY DEF Coded
<1>2. IsInjective(f)
  BY <1>1 DEF IsInjective, Coded
<1>3. \A k \in DOMAIN c : Operands(c[k]) \subseteq {c[n].id : n \in 1 .. k - 1} \cup Given
  BY <1>1 DEF Coded, Defined
<1>4. QED
  BY <1>2, <1>3 DEF IsSSA

LEMMA InvTypes ==
  ASSUME PredicationInv
  PROVE  TypeOK
<1>1. Coded(code) /\ todo \subseteq Ids(code)
  <2>1. CASE phase \in {"predicateCode", "predicateBlock"}
    BY <2>1, PassTodo DEF PredicationInv
  <2>2. CASE phase \in {"stuck", "lowerUnmaskOps", "lowered", "run"}
    BY <2>2 DEF PredicationInv, LowerOK, RunOK
  <2>3. QED
    BY <2>1, <2>2 DEF PredicationInv
<1>2. IsSSA(code)
  BY <1>1, CodedSSA
<1>3. EM \subseteq Channels /\ DOMAIN mem \in {{}, DOMAIN Variables}
  <2>1. phase = "run" => EM \subseteq Channels /\ DOMAIN mem = DOMAIN Variables
    BY DEF PredicationInv, Running
  <2>2. phase # "run" => EM = Channels /\ mem = <<>>
    BY DEF PredicationInv, NotRunning
  <2>3. DOMAIN <<>> = {}
    OBVIOUS
  <2>4. QED
    BY <2>1, <2>2, <2>3
<1>4. QED
  BY <1>1, <1>2, <1>3 DEF TypeOK

\* The code stays code through predication, the lowering of unmasked regions and
\* the runs, and the execution mask is a mask of channels.
THEOREM TypeCorrect == Spec => []TypeOK
<1>1. Init => PredicationInv
  BY FirstInv
<1>2. PredicationInv /\ [Next]_vars => PredicationInv'
  BY NextKeeps
<1>3. PredicationInv => TypeOK
  BY InvTypes
<1>4. QED
  BY <1>1, <1>2, <1>3, PTL DEF Spec

\* A block leaves the execution mask as it found it, however many regions without
\* masking it has and however they are nested.
THEOREM EMIsRestored == Spec => EMComesBack
<1>1. Init => PredicationInv
  BY FirstInv
<1>2. PredicationInv /\ [Next]_vars => PredicationInv'
  BY NextKeeps
<1>3. PredicationInv /\ [Next]_vars =>
        [Len(trace') > Len(trace) => EM' = trace'[Len(trace')].enabled]_vars
  BY NextKeeps
<1>4. QED
  BY <1>1, <1>2, <1>3, PTL DEF Spec, EMComesBack
=============================================================================

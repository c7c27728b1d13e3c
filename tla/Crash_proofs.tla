---------------------------- MODULE Crash_proofs ----------------------------
(***************************************************************************)
(* The files of the data directory, for any number of levels and any       *)
(* number of commands and kills: a process that takes commands finds them, *)
(* no level counts more than it has room for, what it reads is what a      *)
(* merge has written, and merges are atomic for later processes.           *)
(***************************************************************************)
EXTENDS Crash, SSTable_proofs

-----------------------------------------------------------------------------
(* What the loops of a merge write.  For any arrays, also those of a       *)
(* damaged file: entries of the two, and no more than both have together.  *)

(* What is left to write when the loops are at entry p of one array and at *)
(* entry q of the other, if r says what is left later on.                  *)
Rest(mine, theirs, r, p, q) ==
  IF p > Len(mine) THEN SubSeq(theirs, q, Len(theirs))
  ELSE IF q > Len(theirs) THEN SubSeq(mine, p, Len(mine))
  ELSE IF mine[p].key < theirs[q].key THEN <<mine[p]>> \o r[<<p + 1, q>>]
  ELSE IF mine[p].key > theirs[q].key THEN <<theirs[q]>> \o r[<<p, q + 1>>]
  ELSE IF theirs[q].value = DELETED_FLAG THEN r[<<p + 1, q + 1>>]
  ELSE <<theirs[q]>> \o r[<<p + 1, q + 1>>]

Places(mine, theirs) == (1 .. (Len(mine) + 1)) \X (1 .. (Len(theirs) + 1))

(* Entries not yet consumed.                                               *)
Left(mine, theirs, n) == (Len(mine) + 1 - n[1]) + (Len(theirs) + 1 - n[2])

(* The loops go on from n.                                                 *)
GoesOn(mine, theirs, n) == n[1] <= Len(mine) /\ n[2] <= Len(theirs)

LEMMA PlaceTypes ==
  ASSUME NEW mine, NEW theirs, Len(mine) \in Nat, Len(theirs) \in Nat,
         NEW n \in Places(mine, theirs)
  PROVE  /\ n[1] \in 1 .. (Len(mine) + 1) /\ n[2] \in 1 .. (Len(theirs) + 1)
         /\ n = <<n[1], n[2]>>
         /\ Left(mine, theirs, n) \in Nat /\ Left(mine, theirs, n) <= Len(mine) + Len(theirs)
<1>1. n[1] \in 1 .. (Len(mine) + 1) /\ n[2] \in 1 .. (Len(theirs) + 1) /\ n = <<n[1], n[2]>>
  BY DEF Places
<1> QED
  BY <1>1 DEF Left

LEMMA PlacesAfter ==
  ASSUME NEW mine, NEW theirs, Len(mine) \in Nat, Len(theirs) \in Nat,
         NEW n \in Places(mine, theirs), GoesOn(mine, theirs, n),
         NEW m \in {<<n[1] + 1, n[2]>>, <<n[1], n[2] + 1>>, <<n[1] + 1, n[2] + 1>>}
  PROVE  /\ m \in Places(mine, theirs)
         /\ Left(mine, theirs, m) < Left(mine, theirs, n)
<1>1. n[1] \in 1 .. (Len(mine) + 1) /\ n[2] \in 1 .. (Len(theirs) + 1)
  BY PlaceTypes
<1>2. n[1] <= Len(mine) /\ n[2] <= Len(theirs)
  BY DEF GoesOn
<1>3. ASSUME NEW x \in 1 .. (Len(mine) + 1), NEW y \in 1 .. (Len(theirs) + 1), m = <<x, y>>,
             x + y > n[1] + n[2]
      PROVE  m \in Places(mine, theirs) /\ Left(mine, theirs, m) < Left(mine, theirs, n)
  <2>1. m \in Places(mine, theirs) /\ m[1] = x /\ m[2] = y
    BY <1>3 DEF Places
  <2>2. Left(mine, theirs, m) = (Len(mine) + 1 - x) + (Len(theirs) + 1 - y)
    BY <2>1 DEF Left
  <2> QED
    BY <2>1, <2>2, <1>1, <1>3 DEF Left
<1> DEFINE x == n[1]
           y == n[2]
<1>4. /\ x + 1 \in 1 .. (Len(mine) + 1) /\ y + 1 \in 1 .. (Len(theirs) + 1)
      /\ x \in 1 .. (Len(mine) + 1) /\ y \in 1 .. (Len(theirs) + 1)
      /\ (x + 1) + y > x + y /\ x + (y + 1) > x + y /\ (x + 1) + (y + 1) > x + y
  BY <1>1, <1>2
<1>5. CASE m = <<x + 1, y>>
  BY <1>3, <1>4, <1>5
<1>6. CASE m = <<x, y + 1>>
  BY <1>3, <1>4, <1>6
<1>7. CASE m = <<x + 1, y + 1>>
  BY <1>3, <1>4, <1>7
<1> QED
  BY <1>5, <1>6, <1>7

(* A set that has with each of its places a later one is empty: with it,   *)
(* what is right at the end of the loops, and stays right when they go     *)
(* back one step, is right from the beginning.                             *)
LEMMA PlacesEnd ==
  ASSUME NEW mine, NEW theirs, Len(mine) \in Nat, Len(theirs) \in Nat,
         NEW wrong, wrong \subseteq Places(mine, theirs),
         \A n \in wrong : /\ GoesOn(mine, theirs, n)
                          /\ \E m \in {<<n[1] + 1, n[2]>>, <<n[1], n[2] + 1>>, <<n[1] + 1, n[2] + 1>>} :
                                m \in wrong
  PROVE  wrong = {}
<1> SUFFICES ASSUME wrong # {} PROVE FALSE
  OBVIOUS
<1> DEFINE lefts == {Left(mine, theirs, n) : n \in wrong}
<1>1. lefts \subseteq Nat
  BY PlaceTypes
<1>2. lefts # {}
  OBVIOUS
<1>3. PICK l \in lefts : \A k \in lefts : l <= k
  <2> HIDE DEF lefts
  <2> QED
    BY <1>1, <1>2, LeastElement
<1>4. PICK n \in wrong : l = Left(mine, theirs, n)
  OBVIOUS
<1>5. PICK m \in {<<n[1] + 1, n[2]>>, <<n[1], n[2] + 1>>, <<n[1] + 1, n[2] + 1>>} : m \in wrong
  OBVIOUS
<1>6. Left(mine, theirs, m) < Left(mine, theirs, n)
  BY PlacesAfter
<1>7. l <= Left(mine, theirs, m)
  BY <1>3, <1>5
<1>8. Left(mine, theirs, m) \in Nat /\ Left(mine, theirs, n) \in Nat
  BY <1>5, PlaceTypes
<1> QED
  BY <1>4, <1>6, <1>7, <1>8

LEMMA RestSame ==
  ASSUME NEW mine, NEW theirs, Len(mine) \in Nat, Len(theirs) \in Nat,
         NEW r, NEW s, NEW p \in Nat, NEW q \in Nat,
         p <= Len(mine) /\ q <= Len(theirs) =>
            /\ r[<<p + 1, q>>] = s[<<p + 1, q>>]
            /\ r[<<p, q + 1>>] = s[<<p, q + 1>>]
            /\ r[<<p + 1, q + 1>>] = s[<<p + 1, q + 1>>]
  PROVE  Rest(mine, theirs, r, p, q) = Rest(mine, theirs, s, p, q)
<1>1. CASE p > Len(mine)
  BY <1>1 DEF Rest
<1>2. CASE ~ (p > Len(mine)) /\ q > Len(theirs)
  BY <1>2 DEF Rest
<1>3. CASE ~ (p > Len(mine)) /\ ~ (q > Len(theirs))
  <2>1. p <= Len(mine) /\ q <= Len(theirs)
    BY <1>3
  <2>2. /\ r[<<p + 1, q>>] = s[<<p + 1, q>>]
        /\ r[<<p, q + 1>>] = s[<<p, q + 1>>]
        /\ r[<<p + 1, q + 1>>] = s[<<p + 1, q + 1>>]
    BY <2>1
  <2> QED
    BY <2>2 DEF Rest
<1> QED
  BY <1>1, <1>2, <1>3

(***************************************************************************)
(* The recursion of MergeArrays ends: there is a function that it          *)
(* describes, built from the last places of the loops to the first ones.   *)
(***************************************************************************)
RightUpTo(mine, theirs, s, l) ==
  \A n \in Places(mine, theirs) :
     Left(mine, theirs, n) < l => s[n] = Rest(mine, theirs, s, n[1], n[2])

LEMMA RestStep ==
  ASSUME NEW mine, NEW theirs, Len(mine) \in Nat, Len(theirs) \in Nat,
         NEW s, NEW l \in Nat, RightUpTo(mine, theirs, s, l),
         NEW t, t = [n \in Places(mine, theirs) |-> Rest(mine, theirs, s, n[1], n[2])]
  PROVE  RightUpTo(mine, theirs, t, l + 1)
<1> SUFFICES ASSUME NEW n \in Places(mine, theirs), Left(mine, theirs, n) < l + 1
             PROVE  t[n] = Rest(mine, theirs, t, n[1], n[2])
  BY DEF RightUpTo
<1>1. n[1] \in 1 .. (Len(mine) + 1) /\ n[2] \in 1 .. (Len(theirs) + 1) /\ n[1] \in Nat /\ n[2] \in Nat
  BY PlaceTypes
<1>2. Left(mine, theirs, n) \in Nat /\ Left(mine, theirs, n) <= l
  <2>1. Left(mine, theirs, n) \in Nat
    BY PlaceTypes
  <2> QED
    BY <2>1
<1>3. ASSUME GoesOn(mine, theirs, n),
             NEW m \in {<<n[1] + 1, n[2]>>, <<n[1], n[2] + 1>>, <<n[1] + 1, n[2] + 1>>}
      PROVE  s[m] = t[m]
  <2>1. m \in Places(mine, theirs) /\ Left(mine, theirs, m) < Left(mine, theirs, n)
    BY <1>3, PlacesAfter
  <2>2. Left(mine, theirs, m) \in Nat
    BY <2>1, PlaceTypes
  <2>3. Left(mine, theirs, m) < l
    BY <1>2, <2>1, <2>2
  <2>4. s[m] = Rest(mine, theirs, s, m[1], m[2])
    BY <2>1, <2>3 DEF RightUpTo
  <2>5. t[m] = Rest(mine, theirs, s, m[1], m[2])
    BY <2>1
  <2> QED
    BY <2>4, <2>5
<1>4. n[1] <= Len(mine) /\ n[2] <= Len(theirs) =>
         /\ s[<<n[1] + 1, n[2]>>] = t[<<n[1] + 1, n[2]>>]
         /\ s[<<n[1], n[2] + 1>>] = t[<<n[1], n[2] + 1>>]
         /\ s[<<n[1] + 1, n[2] + 1>>] = t[<<n[1] + 1, n[2] + 1>>]
  <2> SUFFICES ASSUME GoesOn(mine, theirs, n)
               PROVE  /\ s[<<n[1] + 1, n[2]>>] = t[<<n[1] + 1, n[2]>>]
                      /\ s[<<n[1], n[2] + 1>>] = t[<<n[1], n[2] + 1>>]
                      /\ s[<<n[1] + 1, n[2] + 1>>] = t[<<n[1] + 1, n[2] + 1>>]
    BY DEF GoesOn
  <2> QED
    BY <1>3
<1>5. Rest(mine, theirs, s, n[1], n[2]) = Rest(mine, theirs, t, n[1], n[2])
  <2> DEFINE p == n[1]
             q == n[2]
  <2>1. /\ p \in Nat /\ q \in Nat
        /\ p <= Len(mine) /\ q <= Len(theirs) =>
              /\ s[<<p + 1, q>>] = t[<<p + 1, q>>]
              /\ s[<<p, q + 1>>] = t[<<p, q + 1>>]
              /\ s[<<p + 1, q + 1>>] = t[<<p + 1, q + 1>>]
    BY <1>1, <1>4
  <2> HIDE DEF p, q
  <2>2. Rest(mine, theirs, s, p, q) = Rest(mine, theirs, t, p, q)
    BY <2>1, RestSame
  <2> QED
    BY <2>2 DEF p, q
<1>6. t[n] = Rest(mine, theirs, s, n[1], n[2])
  OBVIOUS
<1> QED
  BY <1>5, <1>6

LEMMA RestBuilt ==
  ASSUME NEW mine, NEW theirs, Len(mine) \in Nat, Len(theirs) \in Nat, NEW l \in Nat
  PROVE  \E s : RightUpTo(mine, theirs, s, l)
<1> DEFINE Built(m) == \E s : RightUpTo(mine, theirs, s, m)
           wrong == {m \in Nat : ~ Built(m)}
<1> SUFFICES ASSUME wrong # {} PROVE FALSE
  OBVIOUS
<1>1. PICK m \in wrong : \A k \in wrong : m <= k
  <2>1. wrong \subseteq Nat /\ wrong # {}
    OBVIOUS
  <2> HIDE DEF wrong
  <2> QED
    BY <2>1, LeastElement
<1>2. m \in Nat /\ ~ Built(m)
  OBVIOUS
<1>3. m # 0
  <2>1. RightUpTo(mine, theirs, Places(mine, theirs), 0)
    <3>1. \A n \in Places(mine, theirs) : Left(mine, theirs, n) \in Nat
      BY PlaceTypes
    <3>2. \A n \in Places(mine, theirs) : ~ (Left(mine, theirs, n) < 0)
      BY <3>1
    <3> QED
      BY <3>2 DEF RightUpTo
  <2> QED
    BY <1>2, <2>1
<1>4. PICK k \in Nat : m = k + 1
  <2>1. m - 1 \in Nat /\ m = (m - 1) + 1
    BY <1>2, <1>3
  <2> QED
    BY <2>1
<1>5. k \notin wrong
  <2>1. ~ (m <= k)
    BY <1>4
  <2> QED
    BY <1>1, <2>1
<1>6. PICK s : RightUpTo(mine, theirs, s, k)
  BY <1>5
<1>7. \E t : t = [n \in Places(mine, theirs) |-> Rest(mine, theirs, s, n[1], n[2])]
  OBVIOUS
<1>8. PICK t : t = [n \in Places(mine, theirs) |-> Rest(mine, theirs, s, n[1], n[2])]
  BY <1>7
<1>9. RightUpTo(mine, theirs, t, k + 1)
  BY <1>6, <1>8, RestStep
<1> QED
  BY <1>2, <1>4, <1>9

(* The function of MergeArrays.                                            *)
Rests(mine, theirs, r) ==
  r = [n \in Places(mine, theirs) |-> Rest(mine, theirs, r, n[1], n[2])]

LEMMA RestExists ==
  ASSUME NEW mine, NEW theirs, Len(mine) \in Nat, Len(theirs) \in Nat
  PROVE  \E r : Rests(mine, theirs, r) /\ MergeArrays(mine, theirs) = r[<<1, 1>>]
<1> DEFINE all == Len(mine) + Len(theirs) + 1
           P == Places(mine, theirs)
           Step(r) == [n \in P |-> Rest(mine, theirs, r, n[1], n[2])]
           rest == CHOOSE r : r = Step(r)
<1>1. MergeArrays(mine, theirs) = rest[<<1, 1>>]
  BY DEF MergeArrays, Rest, Places
<1>2. all \in Nat /\ all + 1 \in Nat
  OBVIOUS
<1>3. PICK s : RightUpTo(mine, theirs, s, all)
  BY <1>2, RestBuilt
<1>4. PICK t : t = Step(s)
  OBVIOUS
<1>5. RightUpTo(mine, theirs, t, all + 1)
  BY <1>2, <1>3, <1>4, RestStep
<1>6. t = Step(t)
  <2>1. ASSUME NEW n \in P
        PROVE  t[n] = Rest(mine, theirs, t, n[1], n[2])
    <3>1. Left(mine, theirs, n) \in Nat /\ Left(mine, theirs, n) <= Len(mine) + Len(theirs)
      BY PlaceTypes
    <3>2. Left(mine, theirs, n) < all + 1
      BY <3>1
    <3> QED
      BY <1>5, <3>2 DEF RightUpTo
  <2>2. t = [n \in P |-> t[n]]
    BY <1>4
  <2> QED
    BY <2>1, <2>2
<1> HIDE DEF Step
<1>7. rest = Step(rest)
  BY <1>6
<1>8. Rests(mine, theirs, rest)
  BY <1>7 DEF Step, Rests
<1> QED
  BY <1>1, <1>8

-----------------------------------------------------------------------------
LEMMA Prepend ==
  ASSUME NEW E, NEW e \in E, NEW w \in Seq(E)
  PROVE  /\ <<e>> \o w \in Seq(E)
         /\ Len(w) \in Nat /\ Len(<<e>> \o w) = Len(w) + 1
         /\ (<<e>> \o w)[1] = e
         /\ \A i \in 2 .. (Len(w) + 1) : (<<e>> \o w)[i] = w[i - 1]
<1>1. <<e>> \in Seq(E) /\ Len(<<e>>) = 1 /\ <<e>>[1] = e
  OBVIOUS
<1>2. Len(w) \in Nat
  BY LenProperties
<1>3. /\ <<e>> \o w \in Seq(E) /\ Len(<<e>> \o w) = Len(<<e>>) + Len(w)
      /\ \A i \in 1 .. Len(<<e>>) + Len(w) :
            (<<e>> \o w)[i] = IF i <= Len(<<e>>) THEN <<e>>[i] ELSE w[i - Len(<<e>>)]
  BY <1>1, ConcatProperties
<1> DEFINE x == <<e>> \o w
           u == <<e>>
<1>4. Len(u) = 1 /\ u[1] = e
  BY <1>1
<1>5. \A i \in 1 .. Len(u) + Len(w) : x[i] = IF i <= Len(u) THEN u[i] ELSE w[i - Len(u)]
  BY <1>3
<1>6. x \in Seq(E) /\ Len(x) = Len(u) + Len(w)
  BY <1>3
<1> HIDE DEF x, u
<1>7. x[1] = e
  BY <1>2, <1>4, <1>5
<1>8. \A i \in 2 .. (Len(w) + 1) : x[i] = w[i - 1]
  BY <1>2, <1>4, <1>5
<1>9. Len(x) = Len(w) + 1
  BY <1>2, <1>4, <1>6
<1> QED
  BY <1>2, <1>6, <1>7, <1>8, <1>9 DEF x

(* What r says of the places p and q.                                      *)
OneStep(mine, theirs, r, p, q) ==
  /\ p > Len(mine) => r[<<p, q>>] = SubSeq(theirs, q, Len(theirs))
  /\ p <= Len(mine) /\ q > Len(theirs) => r[<<p, q>>] = SubSeq(mine, p, Len(mine))
  /\ p <= Len(mine) /\ q <= Len(theirs) =>
       IF mine[p].key < theirs[q].key THEN r[<<p, q>>] = <<mine[p]>> \o r[<<p + 1, q>>]
       ELSE IF mine[p].key > theirs[q].key THEN r[<<p, q>>] = <<theirs[q]>> \o r[<<p, q + 1>>]
       ELSE IF theirs[q].value = DELETED_FLAG THEN r[<<p, q>>] = r[<<p + 1, q + 1>>]
       ELSE r[<<p, q>>] = <<theirs[q]>> \o r[<<p + 1, q + 1>>]

LEMMA RestCases ==
  ASSUME NEW mine, NEW theirs, Len(mine) \in Nat, Len(theirs) \in Nat,
         NEW r, Rests(mine, theirs, r),
         NEW p \in 1 .. (Len(mine) + 1), NEW q \in 1 .. (Len(theirs) + 1)
  PROVE  OneStep(mine, theirs, r, p, q)
<1> DEFINE n == <<p, q>>
<1>1. n \in Places(mine, theirs) /\ n[1] = p /\ n[2] = q
  BY DEF Places
<1>2. r[n] = Rest(mine, theirs, r, n[1], n[2])
  BY <1>1 DEF Rests
<1>3. r[<<p, q>>] = Rest(mine, theirs, r, p, q)
  BY <1>1, <1>2
<1>4. CASE p > Len(mine)
  <2>1. ~ (p <= Len(mine))
    BY <1>4
  <2>2. r[<<p, q>>] = SubSeq(theirs, q, Len(theirs))
    BY <1>3, <1>4 DEF Rest
  <2> QED
    BY <2>1, <2>2 DEF OneStep
<1>5. CASE ~ (p > Len(mine)) /\ q > Len(theirs)
  <2>1. ~ (q <= Len(theirs))
    BY <1>5
  <2>2. r[<<p, q>>] = SubSeq(mine, p, Len(mine))
    BY <1>3, <1>5 DEF Rest
  <2> QED
    BY <1>5, <2>1, <2>2 DEF OneStep
<1>6. CASE ~ (p > Len(mine)) /\ ~ (q > Len(theirs))
  <2>1. IF mine[p].key < theirs[q].key THEN r[<<p, q>>] = <<mine[p]>> \o r[<<p + 1, q>>]
        ELSE IF mine[p].key > theirs[q].key THEN r[<<p, q>>] = <<theirs[q]>> \o r[<<p, q + 1>>]
        ELSE IF theirs[q].value = DELETED_FLAG THEN r[<<p, q>>] = r[<<p + 1, q + 1>>]
        ELSE r[<<p, q>>] = <<theirs[q]>> \o r[<<p + 1, q + 1>>]
    BY <1>3, <1>6 DEF Rest
  <2> QED
    BY <1>6, <2>1 DEF OneStep
<1> QED
  BY <1>4, <1>5, <1>6

(* The places that the loops may go on to.                                 *)
LEMMA PlacesNext ==
  ASSUME NEW mine, NEW theirs, Len(mine) \in Nat, Len(theirs) \in Nat,
         NEW p \in 1 .. (Len(mine) + 1), NEW q \in 1 .. (Len(theirs) + 1),
         p <= Len(mine), q <= Len(theirs)
  PROVE  /\ p + 1 \in 1 .. (Len(mine) + 1) /\ q + 1 \in 1 .. (Len(theirs) + 1)
         /\ p \in 1 .. Len(mine) /\ q \in 1 .. Len(theirs)
         /\ <<p + 1, q>> \in Places(mine, theirs) /\ <<p, q + 1>> \in Places(mine, theirs)
         /\ <<p + 1, q + 1>> \in Places(mine, theirs)
<1>1. /\ p + 1 \in 1 .. (Len(mine) + 1) /\ q + 1 \in 1 .. (Len(theirs) + 1)
      /\ p \in 1 .. Len(mine) /\ q \in 1 .. Len(theirs)
  OBVIOUS
<1> QED
  BY <1>1 DEF Places

(* A merge writes entries of the two arrays, and no more than there are.   *)
LEMMA MergeArraysType ==
  ASSUME NEW E, NEW mine \in Seq(E), NEW theirs \in Seq(E)
  PROVE  /\ MergeArrays(mine, theirs) \in Seq(E)
         /\ Len(MergeArrays(mine, theirs)) \in Nat
         /\ Len(MergeArrays(mine, theirs)) <= Len(mine) + Len(theirs)
<1>1. Len(mine) \in Nat /\ Len(theirs) \in Nat
  BY LenProperties
<1>2. PICK r : Rests(mine, theirs, r) /\ MergeArrays(mine, theirs) = r[<<1, 1>>]
  BY <1>1, RestExists
<1> DEFINE Good(n) == r[n] \in Seq(E) /\ Len(r[n]) \in Nat /\ Len(r[n]) <= Left(mine, theirs, n)
           wrong == {n \in Places(mine, theirs) : ~ Good(n)}
<1>3. ASSUME NEW p \in 1 .. (Len(mine) + 1), NEW q \in 1 .. (Len(theirs) + 1),
             p > Len(mine) \/ q > Len(theirs)
      PROVE  Good(<<p, q>>)
  <2>0. OneStep(mine, theirs, r, p, q)
    BY <1>1, <1>2, RestCases
  <2>1. Left(mine, theirs, <<p, q>>) = (Len(mine) + 1 - p) + (Len(theirs) + 1 - q)
    BY DEF Left
  <2>2. CASE p > Len(mine)
    <3>1. r[<<p, q>>] = SubSeq(theirs, q, Len(theirs))
      BY <2>0, <2>2 DEF OneStep
    <3>2. \A i \in q .. Len(theirs) : i \in 1 .. Len(theirs)
      BY <1>1
    <3>3. \A i \in q .. Len(theirs) : theirs[i] \in E
      BY <3>2, ElementOfSeq
    <3>4. /\ SubSeq(theirs, q, Len(theirs)) \in Seq(E)
          /\ Len(SubSeq(theirs, q, Len(theirs))) = IF q <= Len(theirs) THEN Len(theirs) - q + 1 ELSE 0
      <4>1. q \in Int /\ Len(theirs) \in Int
        BY <1>1
      <4> QED
        BY <3>3, <4>1, SubSeqProperties
    <3>5. Len(r[<<p, q>>]) = Len(theirs) + 1 - q /\ p = Len(mine) + 1
      BY <1>1, <2>2, <3>1, <3>4
    <3> QED
      BY <1>1, <2>1, <3>1, <3>4, <3>5
  <2>3. CASE p <= Len(mine) /\ q > Len(theirs)
    <3>1. r[<<p, q>>] = SubSeq(mine, p, Len(mine))
      BY <2>0, <2>3 DEF OneStep
    <3>2. \A i \in p .. Len(mine) : i \in 1 .. Len(mine)
      BY <1>1
    <3>3. \A i \in p .. Len(mine) : mine[i] \in E
      BY <3>2, ElementOfSeq
    <3>4. /\ SubSeq(mine, p, Len(mine)) \in Seq(E)
          /\ Len(SubSeq(mine, p, Len(mine))) = IF p <= Len(mine) THEN Len(mine) - p + 1 ELSE 0
      <4>1. p \in Int /\ Len(mine) \in Int
        BY <1>1
      <4> QED
        BY <3>3, <4>1, SubSeqProperties
    <3>5. Len(r[<<p, q>>]) = Len(mine) + 1 - p /\ q = Len(theirs) + 1
      BY <1>1, <2>3, <3>1, <3>4
    <3> QED
      BY <1>1, <2>1, <3>1, <3>4, <3>5
  <2> QED
    BY <1>1, <1>3, <2>2, <2>3
<1>4. ASSUME NEW p \in 1 .. (Len(mine) + 1), NEW q \in 1 .. (Len(theirs) + 1),
             p <= Len(mine), q <= Len(theirs), ~ Good(<<p, q>>)
      PROVE  ~ Good(<<p + 1, q>>) \/ ~ Good(<<p, q + 1>>) \/ ~ Good(<<p + 1, q + 1>>)
  <2>0. OneStep(mine, theirs, r, p, q)
    BY <1>1, <1>2, RestCases
  <2>1. p \in 1 .. Len(mine) /\ q \in 1 .. Len(theirs)
    BY <1>1, <1>4
  <2>2. mine[p] \in E /\ theirs[q] \in E
    BY <2>1, ElementOfSeq
  <2>3. /\ Left(mine, theirs, <<p, q>>) = (Len(mine) + 1 - p) + (Len(theirs) + 1 - q)
        /\ Left(mine, theirs, <<p + 1, q>>) = (Len(mine) + 1 - (p + 1)) + (Len(theirs) + 1 - q)
        /\ Left(mine, theirs, <<p, q + 1>>) = (Len(mine) + 1 - p) + (Len(theirs) + 1 - (q + 1))
        /\ Left(mine, theirs, <<p + 1, q + 1>>)
             = (Len(mine) + 1 - (p + 1)) + (Len(theirs) + 1 - (q + 1))
    BY DEF Left
  <2>4. ASSUME NEW e \in E, NEW m, Good(m), r[<<p, q>>] = <<e>> \o r[m],
               Left(mine, theirs, m) \in Int,
               Left(mine, theirs, m) < Left(mine, theirs, <<p, q>>)
        PROVE  FALSE
    <3>1. <<e>> \o r[m] \in Seq(E) /\ Len(<<e>> \o r[m]) = Len(r[m]) + 1
      BY <2>4, Prepend
    <3>2. r[<<p, q>>] \in Seq(E) /\ Len(r[<<p, q>>]) = Len(r[m]) + 1
      BY <2>4, <3>1
    <3>3. Len(r[m]) \in Nat /\ Len(r[m]) <= Left(mine, theirs, m)
      BY <2>4
    <3>4. Left(mine, theirs, <<p, q>>) \in Int
      BY <1>1, <2>3
    <3>5. Len(r[<<p, q>>]) \in Nat /\ Len(r[<<p, q>>]) <= Left(mine, theirs, <<p, q>>)
      BY <2>4, <3>2, <3>3, <3>4
    <3> QED
      BY <1>4, <3>2, <3>5
  <2>5. CASE mine[p].key < theirs[q].key
    <3>1. r[<<p, q>>] = <<mine[p]>> \o r[<<p + 1, q>>]
      BY <1>4, <2>0, <2>5 DEF OneStep
    <3>2. /\ Left(mine, theirs, <<p + 1, q>>) \in Int
          /\ Left(mine, theirs, <<p + 1, q>>) < Left(mine, theirs, <<p, q>>)
      BY <1>1, <2>3
    <3> QED
      BY <2>2, <2>4, <3>1, <3>2
  <2>6. CASE ~ (mine[p].key < theirs[q].key) /\ mine[p].key > theirs[q].key
    <3>1. r[<<p, q>>] = <<theirs[q]>> \o r[<<p, q + 1>>]
      BY <1>4, <2>0, <2>6 DEF OneStep
    <3>2. /\ Left(mine, theirs, <<p, q + 1>>) \in Int
          /\ Left(mine, theirs, <<p, q + 1>>) < Left(mine, theirs, <<p, q>>)
      BY <1>1, <2>3
    <3> QED
      BY <2>2, <2>4, <3>1, <3>2
  <2>7. /\ Left(mine, theirs, <<p + 1, q + 1>>) \in Int
        /\ Left(mine, theirs, <<p, q>>) \in Int
        /\ Left(mine, theirs, <<p + 1, q + 1>>) < Left(mine, theirs, <<p, q>>)
    BY <1>1, <2>3
  <2>8. CASE /\ ~ (mine[p].key < theirs[q].key) /\ ~ (mine[p].key > theirs[q].key)
             /\ theirs[q].value = DELETED_FLAG
    <3>1. r[<<p, q>>] = r[<<p + 1, q + 1>>]
      BY <1>4, <2>0, <2>8 DEF OneStep
    <3>2. ASSUME Good(<<p + 1, q + 1>>) PROVE FALSE
      <4>1. r[<<p, q>>] \in Seq(E) /\ Len(r[<<p, q>>]) \in Nat
        BY <3>1, <3>2
      <4>2. Len(r[<<p, q>>]) <= Left(mine, theirs, <<p + 1, q + 1>>)
        BY <3>1, <3>2
      <4>3. Len(r[<<p, q>>]) <= Left(mine, theirs, <<p, q>>)
        BY <2>7, <4>1, <4>2
      <4> QED
        BY <1>4, <4>1, <4>3
    <3> QED
      BY <3>2
  <2>9. CASE /\ ~ (mine[p].key < theirs[q].key) /\ ~ (mine[p].key > theirs[q].key)
             /\ theirs[q].value # DELETED_FLAG
    <3>1. r[<<p, q>>] = <<theirs[q]>> \o r[<<p + 1, q + 1>>]
      BY <1>4, <2>0, <2>9 DEF OneStep
    <3> QED
      BY <2>2, <2>4, <2>7, <3>1
  <2> QED
    BY <2>5, <2>6, <2>8, <2>9
<1>5. ASSUME NEW n \in wrong
      PROVE  /\ GoesOn(mine, theirs, n)
             /\ \E m \in {<<n[1] + 1, n[2]>>, <<n[1], n[2] + 1>>, <<n[1] + 1, n[2] + 1>>} :
                   m \in wrong
  <2>1. PICK p \in 1 .. (Len(mine) + 1), q \in 1 .. (Len(theirs) + 1) : n = <<p, q>>
    BY DEF Places
  <2>2. n[1] = p /\ n[2] = q /\ ~ Good(<<p, q>>)
    BY <2>1
  <2>3. p <= Len(mine) /\ q <= Len(theirs)
    <3>1. ~ (p > Len(mine) \/ q > Len(theirs))
      BY <1>3, <2>2
    <3> QED
      BY <1>1, <3>1
  <2>4. ~ Good(<<p + 1, q>>) \/ ~ Good(<<p, q + 1>>) \/ ~ Good(<<p + 1, q + 1>>)
    BY <1>4, <2>2, <2>3
  <2>5. /\ <<p + 1, q>> \in Places(mine, theirs) /\ <<p, q + 1>> \in Places(mine, theirs)
        /\ <<p + 1, q + 1>> \in Places(mine, theirs)
    BY <1>1, <2>3, PlacesNext
  <2> HIDE DEF Good
  <2> QED
    BY <2>2, <2>3, <2>4, <2>5 DEF GoesOn
<1>6. wrong = {}
  <2>1. wrong \subseteq Places(mine, theirs)
    OBVIOUS
  <2> HIDE DEF wrong
  <2> QED
    BY <1>1, <1>5, <2>1, PlacesEnd
<1>7. <<1, 1>> \in Places(mine, theirs) /\ Left(mine, theirs, <<1, 1>>) = Len(mine) + Len(theirs)
  BY <1>1 DEF Places, Left
<1>8. Good(<<1, 1>>)
  BY <1>6, <1>7
<1> QED
  BY <1>2, <1>7, <1>8

-----------------------------------------------------------------------------
(* Of two sorted arrays the loops write the array of the merged run.       *)

(* The array w holds the entries that a run has for the keys of a set.     *)
HoldsOf(run, keys, w) ==
  /\ IsArray(w)
  /\ KeysIn(w) \subseteq keys
  /\ \A i \in 1 .. Len(w) : run[w[i].key] = w[i].value
  /\ \A k \in keys : run[k] # None => k \in KeysIn(w)

LEMMA HoldsTail ==
  ASSUME NEW a, IsArray(a), NEW p \in 1 .. (Len(a) + 1), NEW run,
         \A i \in p .. Len(a) : run[a[i].key] = a[i].value
  PROVE  HoldsOf(run, {a[i].key : i \in p .. Len(a)}, SubSeq(a, p, Len(a)))
<1>1. Len(a) \in Nat /\ p \in Int /\ Len(a) \in Int /\ p .. Len(a) \subseteq 1 .. Len(a)
  BY ArrayEntries
<1> DEFINE w == SubSeq(a, p, Len(a))
           n == Len(a) - p + 1
<1>2. \A i \in p .. Len(a) : a[i] \in lsm_data
  BY <1>1, ArrayEntries
<1>3. /\ w \in Seq(lsm_data) /\ Len(w) = IF p <= Len(a) THEN Len(a) - p + 1 ELSE 0
      /\ \A i \in 1 .. Len(a) - p + 1 : w[i] = a[p + i - 1]
  BY <1>1, <1>2, SubSeqProperties
<1>4. Len(w) = n /\ n \in Nat
  BY <1>1, <1>3
<1>5. \A i \in 1 .. Len(w) : w[i] = a[p + i - 1] /\ p + i - 1 \in p .. Len(a)
  <2>1. \A i \in 1 .. n : p + i - 1 \in p .. Len(a)
    BY <1>1
  <2> QED
    BY <1>3, <1>4, <2>1
<1>6. \A j \in p .. Len(a) : \E i \in 1 .. Len(w) : w[i] = a[j]
  <2>1. \A j \in p .. Len(a) : j - p + 1 \in 1 .. n /\ p + (j - p + 1) - 1 = j
    BY <1>1
  <2> QED
    BY <1>3, <1>4, <2>1
<1> HIDE DEF w
<1>7. Sorted(w)
  <2> SUFFICES ASSUME NEW i \in 1 .. Len(w), NEW j \in 1 .. Len(w), i < j
               PROVE  w[i].key < w[j].key
    BY DEF Sorted
  <2>1. p + i - 1 < p + j - 1
    BY <1>1
  <2>2. p + i - 1 \in 1 .. Len(a) /\ p + j - 1 \in 1 .. Len(a)
    BY <1>1, <1>5
  <2>3. a[p + i - 1].key < a[p + j - 1].key
    BY <2>1, <2>2 DEF IsArray, Sorted
  <2> QED
    BY <1>5, <2>3
<1>8. IsArray(w)
  BY <1>3, <1>7 DEF IsArray
<1>9. KeysIn(w) \subseteq {a[i].key : i \in p .. Len(a)}
  BY <1>5 DEF KeysIn
<1>10. \A i \in 1 .. Len(w) : run[w[i].key] = w[i].value
  BY <1>5
<1>11. {a[i].key : i \in p .. Len(a)} \subseteq KeysIn(w)
  BY <1>6 DEF KeysIn
<1> QED
  BY <1>8, <1>9, <1>10, <1>11 DEF HoldsOf, w

LEMMA HoldsPrepend ==
  ASSUME NEW run, NEW keys, keys \subseteq Int, NEW w, HoldsOf(run, keys, w),
         NEW e \in lsm_data, run[e.key] = e.value, \A k \in keys : e.key < k
  PROVE  HoldsOf(run, keys \cup {e.key}, <<e>> \o w)
<1> DEFINE x == <<e>> \o w
<1>1. /\ x \in Seq(lsm_data) /\ Len(x) = Len(w) + 1 /\ Len(w) \in Nat
      /\ x[1] = e /\ \A i \in 2 .. (Len(w) + 1) : x[i] = w[i - 1]
  BY Prepend DEF HoldsOf, IsArray
<1> HIDE DEF x
<1>2. \A i \in 1 .. Len(x) : i = 1 \/ (i \in 2 .. (Len(w) + 1) /\ i - 1 \in 1 .. Len(w))
  BY <1>1
<1>3. \A i \in 1 .. Len(w) : i + 1 \in 1 .. Len(x) /\ i + 1 \in 2 .. (Len(w) + 1) /\ (i + 1) - 1 = i
  BY <1>1
<1>4. \A i \in 1 .. Len(w) : w[i].key \in keys
  BY DEF HoldsOf, KeysIn
<1>5. Sorted(x)
  <2> SUFFICES ASSUME NEW i \in 1 .. Len(x), NEW j \in 1 .. Len(x), i < j
               PROVE  x[i].key < x[j].key
    BY DEF Sorted
  <2>1. j \in 2 .. (Len(w) + 1) /\ j - 1 \in 1 .. Len(w)
    BY <1>1
  <2>2. x[j] = w[j - 1]
    BY <1>1, <2>1
  <2>3. CASE i = 1
    <3>1. e.key < w[j - 1].key
      BY <1>4, <2>1
    <3> QED
      BY <1>1, <2>2, <2>3, <3>1
  <2>4. CASE i # 1
    <3>1. i \in 2 .. (Len(w) + 1) /\ i - 1 \in 1 .. Len(w) /\ i - 1 < j - 1
      BY <1>1, <2>4
    <3>2. w[i - 1].key < w[j - 1].key
      BY <2>1, <3>1 DEF HoldsOf, IsArray, Sorted
    <3> QED
      BY <1>1, <2>2, <3>1, <3>2
  <2> QED
    BY <2>3, <2>4
<1>6. IsArray(x)
  BY <1>1, <1>5 DEF IsArray
<1>7. KeysIn(x) = KeysIn(w) \cup {e.key}
  <2>1. ASSUME NEW k \in KeysIn(x) PROVE k \in KeysIn(w) \cup {e.key}
    <3>1. PICK i \in 1 .. Len(x) : k = x[i].key
      BY DEF KeysIn
    <3>2. CASE i = 1
      BY <1>1, <3>1, <3>2
    <3>3. CASE i # 1
      <4>1. x[i] = w[i - 1] /\ i - 1 \in 1 .. Len(w)
        BY <1>1, <1>2, <3>3
      <4> QED
        BY <3>1, <4>1 DEF KeysIn
    <3> QED
      BY <3>2, <3>3
  <2>2. ASSUME NEW k \in KeysIn(w) PROVE k \in KeysIn(x)
    <3>1. PICK i \in 1 .. Len(w) : k = w[i].key
      BY DEF KeysIn
    <3>2. x[i + 1] = w[i] /\ i + 1 \in 1 .. Len(x)
      BY <1>1, <1>3
    <3> QED
      BY <3>1, <3>2 DEF KeysIn
  <2>3. e.key \in KeysIn(x)
    <3>1. 1 \in 1 .. Len(x)
      BY <1>1
    <3> QED
      BY <1>1, <3>1 DEF KeysIn
  <2> QED
    BY <2>1, <2>2, <2>3
<1>8. ASSUME NEW i \in 1 .. Len(x) PROVE run[x[i].key] = x[i].value
  <2>1. CASE i = 1
    BY <1>1, <2>1
  <2>2. CASE i # 1
    <3>1. x[i] = w[i - 1] /\ i - 1 \in 1 .. Len(w)
      BY <1>1, <1>2, <2>2
    <3> QED
      BY <3>1 DEF HoldsOf
  <2> QED
    BY <2>1, <2>2
<1>9. /\ KeysIn(x) \subseteq keys \cup {e.key}
      /\ \A k \in keys \cup {e.key} : run[k] # None => k \in KeysIn(x)
  BY <1>7 DEF HoldsOf
<1> QED
  BY <1>6, <1>8, <1>9 DEF HoldsOf, x

LEMMA HoldsDropped ==
  ASSUME NEW run, NEW keys, NEW w, HoldsOf(run, keys, w), NEW k, run[k] = None
  PROVE  HoldsOf(run, keys \cup {k}, w)
BY DEF HoldsOf

(* Keys that the loops have not yet reached, and that they are all behind  *)
(* the keys that they have.                                                *)
Ahead(mine, theirs, p, q) ==
  {mine[i].key : i \in p .. Len(mine)} \cup {theirs[i].key : i \in q .. Len(theirs)}

Apart(mine, theirs, p, q) ==
  /\ \A i \in 1 .. (p - 1), j \in q .. Len(theirs) : mine[i].key < theirs[j].key
  /\ \A i \in 1 .. (q - 1), j \in p .. Len(mine) : theirs[i].key < mine[j].key

(* What the merged run has for a key of one array, of the other, of both.  *)
LEMMA MergedEntry ==
  ASSUME NEW mine, NEW theirs, IsArray(mine), IsArray(theirs),
         NEW run, run = MergeRuns(RunOf(mine), RunOf(theirs))
  PROVE  /\ run \in Run
         /\ \A i \in 1 .. Len(mine) : mine[i].key \notin KeysIn(theirs) =>
               run[mine[i].key] = mine[i].value
         /\ \A i \in 1 .. Len(theirs) : theirs[i].key \notin KeysIn(mine) =>
               run[theirs[i].key] = theirs[i].value
         /\ \A i \in 1 .. Len(theirs) : theirs[i].key \in KeysIn(mine) =>
               run[theirs[i].key] = IF theirs[i].value = DELETED_FLAG THEN None ELSE theirs[i].value
         /\ KeysOf(run) \subseteq KeysIn(mine) \cup KeysIn(theirs)
<1> DEFINE m == RunOf(mine)
           t == RunOf(theirs)
<1>1. /\ m \in Run /\ t \in Run
      /\ \A i \in 1 .. Len(mine) : m[mine[i].key] = mine[i].value /\ mine[i].key \in Keys
      /\ \A i \in 1 .. Len(theirs) : t[theirs[i].key] = theirs[i].value /\ theirs[i].key \in Keys
      /\ \A k \in Keys : k \notin KeysIn(mine) => m[k] = None
      /\ \A k \in Keys : k \notin KeysIn(theirs) => t[k] = None
  BY RunOfArray, ArrayEntries
<1>2. /\ KeysOf(m) = KeysIn(mine) /\ \A i \in 1 .. Len(theirs) : theirs[i].value # None
  BY RunOfArray, ArrayEntries
<1>3. \A k \in Keys : run[k] = IF t[k] = None THEN m[k]
                               ELSE IF t[k] = DELETED_FLAG /\ m[k] # None THEN None
                               ELSE t[k]
  BY DEF MergeRuns
<1>4. run \in Run
  BY <1>1, MergeRunsType
<1>5. \A k \in KeysIn(mine) : m[k] # None
  BY <1>2 DEF KeysOf
<1> HIDE DEF m, t
<1>6. KeysOf(run) \subseteq KeysIn(mine) \cup KeysIn(theirs)
  BY <1>1, <1>3 DEF KeysOf
<1>7. \A i \in 1 .. Len(mine) : mine[i].key \notin KeysIn(theirs) => run[mine[i].key] = mine[i].value
  BY <1>1, <1>3
<1>8. \A i \in 1 .. Len(theirs) : theirs[i].key \notin KeysIn(mine) => run[theirs[i].key] = theirs[i].value
  BY <1>1, <1>2, <1>3
<1>9. \A i \in 1 .. Len(theirs) : theirs[i].key \in KeysIn(mine) =>
         run[theirs[i].key] = IF theirs[i].value = DELETED_FLAG THEN None ELSE theirs[i].value
  BY <1>1, <1>2, <1>3, <1>5
<1> QED
  BY <1>4, <1>6, <1>7, <1>8, <1>9

LEMMA NotAmong ==
  ASSUME NEW a, IsArray(a), NEW q \in 1 .. (Len(a) + 1), NEW k \in Int,
         \A i \in 1 .. (q - 1) : a[i].key < k,
         q <= Len(a) => k < a[q].key
  PROVE  k \notin KeysIn(a) /\ \A i \in q .. Len(a) : k < a[i].key
<1>1. Len(a) \in Nat /\ \A i \in 1 .. Len(a) : a[i].key \in Int
  BY ArrayEntries
<1>2. ASSUME NEW i \in q .. Len(a) PROVE k < a[i].key
  <2>1. q \in 1 .. Len(a) /\ i \in 1 .. Len(a) /\ k < a[q].key
    BY <1>1
  <2>2. CASE i = q
    BY <2>1, <2>2
  <2>3. CASE i # q
    <3>1. q < i
      BY <1>1, <2>3
    <3>2. a[q].key < a[i].key
      BY <2>1, <3>1 DEF IsArray, Sorted
    <3> QED
      BY <1>1, <2>1, <3>2
  <2> QED
    BY <2>2, <2>3
<1>3. ASSUME NEW i \in 1 .. Len(a) PROVE a[i].key # k
  <2>1. i \in 1 .. (q - 1) \/ i \in q .. Len(a)
    BY <1>1
  <2>2. a[i].key < k \/ k < a[i].key
    BY <1>2, <2>1
  <2> QED
    BY <1>1, <2>2
<1> QED
  BY <1>2, <1>3 DEF KeysIn

LEMMA AheadSteps ==
  ASSUME NEW mine, NEW theirs, IsArray(mine), IsArray(theirs),
         NEW p \in 1 .. (Len(mine) + 1), NEW q \in 1 .. (Len(theirs) + 1)
  PROVE  /\ Ahead(mine, theirs, p, q) \subseteq Int
         /\ p <= Len(mine) => Ahead(mine, theirs, p, q) = Ahead(mine, theirs, p + 1, q) \cup {mine[p].key}
         /\ q <= Len(theirs) => Ahead(mine, theirs, p, q) = Ahead(mine, theirs, p, q + 1) \cup {theirs[q].key}
<1>1. /\ Len(mine) \in Nat /\ \A i \in 1 .. Len(mine) : mine[i].key \in Int
      /\ Len(theirs) \in Nat /\ \A i \in 1 .. Len(theirs) : theirs[i].key \in Int
  BY ArrayEntries
<1>2. /\ \A i \in p .. Len(mine) : i \in 1 .. Len(mine)
      /\ \A i \in q .. Len(theirs) : i \in 1 .. Len(theirs)
  BY <1>1
<1>3. Ahead(mine, theirs, p, q) \subseteq Int
  BY <1>1, <1>2 DEF Ahead
<1>4. ASSUME p <= Len(mine)
      PROVE  Ahead(mine, theirs, p, q) = Ahead(mine, theirs, p + 1, q) \cup {mine[p].key}
  <2>1. p .. Len(mine) = ((p + 1) .. Len(mine)) \cup {p}
    BY <1>1, <1>4
  <2>2. {mine[i].key : i \in p .. Len(mine)} = {mine[i].key : i \in (p + 1) .. Len(mine)} \cup {mine[p].key}
    BY <2>1
  <2> QED
    BY <2>2 DEF Ahead
<1>5. ASSUME q <= Len(theirs)
      PROVE  Ahead(mine, theirs, p, q) = Ahead(mine, theirs, p, q + 1) \cup {theirs[q].key}
  <2>1. q .. Len(theirs) = ((q + 1) .. Len(theirs)) \cup {q}
    BY <1>1, <1>5
  <2>2. {theirs[i].key : i \in q .. Len(theirs)} = {theirs[i].key : i \in (q + 1) .. Len(theirs)} \cup {theirs[q].key}
    BY <2>1
  <2> QED
    BY <2>2 DEF Ahead
<1> QED
  BY <1>3, <1>4, <1>5

(* The smaller of two entries is behind nothing, and of its key the other  *)
(* array has none.                                                         *)
LEMMA MineFirst ==
  ASSUME NEW mine, NEW theirs, IsArray(mine), IsArray(theirs),
         NEW p \in 1 .. Len(mine), NEW q \in 1 .. (Len(theirs) + 1),
         Apart(mine, theirs, p, q),
         q <= Len(theirs) => mine[p].key < theirs[q].key
  PROVE  /\ mine[p].key \notin KeysIn(theirs)
         /\ \A k \in Ahead(mine, theirs, p + 1, q) : mine[p].key < k
         /\ Apart(mine, theirs, p + 1, q)
<1>1. /\ Len(mine) \in Nat /\ \A i \in 1 .. Len(mine) : mine[i].key \in Int
      /\ Len(theirs) \in Nat
  BY ArrayEntries
<1>2. \A i \in 1 .. (q - 1) : theirs[i].key < mine[p].key
  <2>1. p \in p .. Len(mine)
    BY <1>1
  <2> QED
    BY <2>1 DEF Apart
<1>3. mine[p].key \notin KeysIn(theirs) /\ \A i \in q .. Len(theirs) : mine[p].key < theirs[i].key
  <2>1. mine[p].key \in Int
    BY <1>1
  <2> QED
    BY <1>2, <2>1, NotAmong
<1>4. ASSUME NEW i \in (p + 1) .. Len(mine) PROVE mine[p].key < mine[i].key
  <2>1. i \in 1 .. Len(mine) /\ p < i
    BY <1>1
  <2> QED
    BY <2>1 DEF IsArray, Sorted
<1>5. \A k \in Ahead(mine, theirs, p + 1, q) : mine[p].key < k
  BY <1>3, <1>4 DEF Ahead
<1>6. Apart(mine, theirs, p + 1, q)
  <2>1. ASSUME NEW i \in 1 .. ((p + 1) - 1), NEW j \in q .. Len(theirs)
        PROVE  mine[i].key < theirs[j].key
    <3>1. i = p \/ i \in 1 .. (p - 1)
      BY <1>1
    <3> QED
      BY <1>3, <3>1 DEF Apart
  <2>2. ASSUME NEW i \in 1 .. (q - 1), NEW j \in (p + 1) .. Len(mine)
        PROVE  theirs[i].key < mine[j].key
    <3>1. j \in p .. Len(mine)
      BY <1>1
    <3> QED
      BY <3>1 DEF Apart
  <2> QED
    BY <2>1, <2>2 DEF Apart
<1> QED
  BY <1>3, <1>5, <1>6

LEMMA ApartSwap ==
  ASSUME NEW mine, NEW theirs, NEW p, NEW q
  PROVE  /\ Apart(mine, theirs, p, q) <=> Apart(theirs, mine, q, p)
         /\ Ahead(mine, theirs, p, q) = Ahead(theirs, mine, q, p)
BY DEF Apart, Ahead

LEMMA BothFirst ==
  ASSUME NEW mine, NEW theirs, IsArray(mine), IsArray(theirs),
         NEW p \in 1 .. Len(mine), NEW q \in 1 .. Len(theirs),
         Apart(mine, theirs, p, q), mine[p].key = theirs[q].key
  PROVE  /\ Apart(mine, theirs, p + 1, q + 1)
         /\ \A k \in Ahead(mine, theirs, p + 1, q + 1) : theirs[q].key < k
         /\ theirs[q].key \in KeysIn(mine)
         /\ Ahead(mine, theirs, p, q) = Ahead(mine, theirs, p + 1, q + 1) \cup {theirs[q].key}
<1>1. Len(mine) \in Nat /\ Len(theirs) \in Nat
  BY ArrayEntries
<1>2. ASSUME NEW i \in (p + 1) .. Len(mine) PROVE theirs[q].key < mine[i].key
  <2>1. i \in 1 .. Len(mine) /\ p < i
    BY <1>1
  <2> QED
    BY <2>1 DEF IsArray, Sorted
<1>3. ASSUME NEW i \in (q + 1) .. Len(theirs) PROVE theirs[q].key < theirs[i].key
  <2>1. i \in 1 .. Len(theirs) /\ q < i
    BY <1>1
  <2> QED
    BY <2>1 DEF IsArray, Sorted
<1>4. Apart(mine, theirs, p + 1, q + 1)
  <2>1. ASSUME NEW i \in 1 .. ((p + 1) - 1), NEW j \in (q + 1) .. Len(theirs)
        PROVE  mine[i].key < theirs[j].key
    <3>1. (i = p \/ i \in 1 .. (p - 1)) /\ j \in q .. Len(theirs)
      BY <1>1
    <3> QED
      BY <1>3, <3>1 DEF Apart
  <2>2. ASSUME NEW i \in 1 .. ((q + 1) - 1), NEW j \in (p + 1) .. Len(mine)
        PROVE  theirs[i].key < mine[j].key
    <3>1. (i = q \/ i \in 1 .. (q - 1)) /\ j \in p .. Len(mine)
      BY <1>1
    <3> QED
      BY <1>2, <3>1 DEF Apart
  <2> QED
    BY <2>1, <2>2 DEF Apart
<1>5. \A k \in Ahead(mine, theirs, p + 1, q + 1) : theirs[q].key < k
  BY <1>2, <1>3 DEF Ahead
<1>6. theirs[q].key \in KeysIn(mine)
  BY DEF KeysIn
<1>7. Ahead(mine, theirs, p, q) = Ahead(mine, theirs, p + 1, q) \cup {mine[p].key}
  <2>1. p \in 1 .. (Len(mine) + 1) /\ q \in 1 .. (Len(theirs) + 1) /\ p <= Len(mine)
    BY <1>1
  <2> QED
    BY <2>1, AheadSteps
<1>8. Ahead(mine, theirs, p + 1, q) = Ahead(mine, theirs, p + 1, q + 1) \cup {theirs[q].key}
  <2>1. p + 1 \in 1 .. (Len(mine) + 1) /\ q \in 1 .. (Len(theirs) + 1) /\ q <= Len(theirs)
    BY <1>1
  <2> QED
    BY <2>1, AheadSteps
<1> QED
  BY <1>4, <1>5, <1>6, <1>7, <1>8

(* The loops of level::merge() write, of any two sorted arrays, a sorted   *)
(* array: that of the run of the level with the run from above merged in.  *)
THEOREM MergeArraysSorted ==
  ASSUME NEW mine, NEW theirs, IsArray(mine), IsArray(theirs)
  PROVE  /\ IsArray(MergeArrays(mine, theirs))
         /\ RunOf(MergeArrays(mine, theirs)) = MergeRuns(RunOf(mine), RunOf(theirs))
<1>1. /\ Len(mine) \in Nat /\ Len(theirs) \in Nat
      /\ \A i \in 1 .. Len(mine) : mine[i] \in lsm_data /\ mine[i].key \in Int
      /\ \A i \in 1 .. Len(theirs) : theirs[i] \in lsm_data /\ theirs[i].key \in Int
  BY ArrayEntries
<1>2. PICK r : Rests(mine, theirs, r) /\ MergeArrays(mine, theirs) = r[<<1, 1>>]
  BY <1>1, RestExists
<1>3. PICK run : run = MergeRuns(RunOf(mine), RunOf(theirs))
  OBVIOUS
<1>4. /\ run \in Run
      /\ \A i \in 1 .. Len(mine) : mine[i].key \notin KeysIn(theirs) => run[mine[i].key] = mine[i].value
      /\ \A i \in 1 .. Len(theirs) : theirs[i].key \notin KeysIn(mine) => run[theirs[i].key] = theirs[i].value
      /\ \A i \in 1 .. Len(theirs) : theirs[i].key \in KeysIn(mine) =>
            run[theirs[i].key] = IF theirs[i].value = DELETED_FLAG THEN None ELSE theirs[i].value
      /\ KeysOf(run) \subseteq KeysIn(mine) \cup KeysIn(theirs)
  BY <1>3, MergedEntry
<1> DEFINE Good(p, q) == HoldsOf(run, Ahead(mine, theirs, p, q), r[<<p, q>>])
           wrong == {n \in Places(mine, theirs) : Apart(mine, theirs, n[1], n[2]) /\ ~ Good(n[1], n[2])}
<1>5. ASSUME NEW p \in 1 .. (Len(mine) + 1), NEW q \in 1 .. (Len(theirs) + 1),
             Apart(mine, theirs, p, q), p > Len(mine) \/ q > Len(theirs)
      PROVE  Good(p, q)
  <2>0. OneStep(mine, theirs, r, p, q)
    BY <1>1, <1>2, RestCases
  <2>1. CASE p > Len(mine)
    <3>0. p = Len(mine) + 1
      BY <1>1, <2>1
    <3>1. r[<<p, q>>] = SubSeq(theirs, q, Len(theirs))
      BY <2>0, <2>1 DEF OneStep
    <3>2. ASSUME NEW i \in q .. Len(theirs)
          PROVE  run[theirs[i].key] = theirs[i].value
      <4>1. i \in 1 .. Len(theirs)
        BY <1>1
      <4>2. \A j \in 1 .. Len(mine) : mine[j].key < theirs[i].key
        BY <1>1, <1>5, <3>0 DEF Apart
      <4>3. \A j \in 1 .. Len(mine) : mine[j].key # theirs[i].key
        BY <1>1, <4>1, <4>2
      <4>4. theirs[i].key \notin KeysIn(mine)
        BY <4>3 DEF KeysIn
      <4> QED
        BY <1>4, <4>1, <4>4
    <3>3. HoldsOf(run, {theirs[i].key : i \in q .. Len(theirs)}, SubSeq(theirs, q, Len(theirs)))
      BY <3>2, HoldsTail
    <3>4. Ahead(mine, theirs, p, q) = {theirs[i].key : i \in q .. Len(theirs)}
      <4>1. p .. Len(mine) = {}
        BY <1>1, <2>1
      <4> QED
        BY <4>1 DEF Ahead
    <3> QED
      BY <3>1, <3>3, <3>4
  <2>2. CASE p <= Len(mine) /\ q > Len(theirs)
    <3>0. q = Len(theirs) + 1
      BY <1>1, <2>2
    <3>1. r[<<p, q>>] = SubSeq(mine, p, Len(mine))
      BY <2>0, <2>2 DEF OneStep
    <3>2. ASSUME NEW i \in p .. Len(mine)
          PROVE  run[mine[i].key] = mine[i].value
      <4>1. i \in 1 .. Len(mine)
        BY <1>1
      <4>2. \A j \in 1 .. Len(theirs) : theirs[j].key < mine[i].key
        BY <1>1, <1>5, <3>0 DEF Apart
      <4>3. \A j \in 1 .. Len(theirs) : theirs[j].key # mine[i].key
        BY <1>1, <4>1, <4>2
      <4>4. mine[i].key \notin KeysIn(theirs)
        BY <4>3 DEF KeysIn
      <4> QED
        BY <1>4, <4>1, <4>4
    <3>3. HoldsOf(run, {mine[i].key : i \in p .. Len(mine)}, SubSeq(mine, p, Len(mine)))
      BY <3>2, HoldsTail
    <3>4. Ahead(mine, theirs, p, q) = {mine[i].key : i \in p .. Len(mine)}
      <4>1. q .. Len(theirs) = {}
        BY <1>1, <2>2
      <4> QED
        BY <4>1 DEF Ahead
    <3> QED
      BY <3>1, <3>3, <3>4
  <2> QED
    BY <1>1, <1>5, <2>1, <2>2
<1>6. ASSUME NEW p \in 1 .. (Len(mine) + 1), NEW q \in 1 .. (Len(theirs) + 1),
             p <= Len(mine), q <= Len(theirs), Apart(mine, theirs, p, q), ~ Good(p, q)
      PROVE  \/ Apart(mine, theirs, p + 1, q) /\ ~ Good(p + 1, q)
             \/ Apart(mine, theirs, p, q + 1) /\ ~ Good(p, q + 1)
             \/ Apart(mine, theirs, p + 1, q + 1) /\ ~ Good(p + 1, q + 1)
  <2>0. OneStep(mine, theirs, r, p, q)
    BY <1>1, <1>2, RestCases
  <2>1. /\ p \in 1 .. Len(mine) /\ q \in 1 .. Len(theirs)
        /\ p + 1 \in 1 .. (Len(mine) + 1) /\ q + 1 \in 1 .. (Len(theirs) + 1)
    BY <1>1, <1>6
  <2>2. /\ mine[p] \in lsm_data /\ theirs[q] \in lsm_data
        /\ mine[p].key \in Int /\ theirs[q].key \in Int
    BY <1>1, <2>1
  <2>3. CASE mine[p].key < theirs[q].key
    <3>1. r[<<p, q>>] = <<mine[p]>> \o r[<<p + 1, q>>]
      BY <1>6, <2>0, <2>3 DEF OneStep
    <3>2. /\ mine[p].key \notin KeysIn(theirs)
          /\ \A k \in Ahead(mine, theirs, p + 1, q) : mine[p].key < k
          /\ Apart(mine, theirs, p + 1, q)
      BY <1>6, <2>1, <2>3, MineFirst
    <3>3. run[mine[p].key] = mine[p].value
      BY <1>4, <2>1, <3>2
    <3>4. Ahead(mine, theirs, p + 1, q) \subseteq Int
      BY <2>1, AheadSteps
    <3>5. Ahead(mine, theirs, p, q) = Ahead(mine, theirs, p + 1, q) \cup {mine[p].key}
      BY <1>6, AheadSteps
    <3>6. Good(p + 1, q) => Good(p, q)
      <4>1. HoldsOf(run, Ahead(mine, theirs, p + 1, q), r[<<p + 1, q>>]) =>
            HoldsOf(run, Ahead(mine, theirs, p + 1, q) \cup {mine[p].key}, <<mine[p]>> \o r[<<p + 1, q>>])
        BY <2>2, <3>2, <3>3, <3>4, HoldsPrepend
      <4> QED
        BY <4>1, <3>1, <3>5
    <3> QED
      BY <1>6, <3>2, <3>6
  <2>4. CASE theirs[q].key < mine[p].key
    <3>1. r[<<p, q>>] = <<theirs[q]>> \o r[<<p, q + 1>>]
      <4>1. ~ (mine[p].key < theirs[q].key) /\ mine[p].key > theirs[q].key
        BY <2>2, <2>4
      <4> QED
        BY <1>6, <2>0, <4>1 DEF OneStep
    <3>2. /\ theirs[q].key \notin KeysIn(mine)
          /\ \A k \in Ahead(theirs, mine, q + 1, p) : theirs[q].key < k
          /\ Apart(theirs, mine, q + 1, p)
      <4>1. Apart(theirs, mine, q, p)
        BY <1>6, ApartSwap
      <4> QED
        BY <1>6, <2>1, <2>4, <4>1, MineFirst
    <3>3. /\ \A k \in Ahead(mine, theirs, p, q + 1) : theirs[q].key < k
          /\ Apart(mine, theirs, p, q + 1)
      BY <3>2, ApartSwap
    <3>4. run[theirs[q].key] = theirs[q].value
      BY <1>4, <2>1, <3>2
    <3>5. Ahead(mine, theirs, p, q + 1) \subseteq Int
      BY <2>1, AheadSteps
    <3>6. Ahead(mine, theirs, p, q) = Ahead(mine, theirs, p, q + 1) \cup {theirs[q].key}
      BY <1>6, AheadSteps
    <3>7. Good(p, q + 1) => Good(p, q)
      <4>1. HoldsOf(run, Ahead(mine, theirs, p, q + 1), r[<<p, q + 1>>]) =>
            HoldsOf(run, Ahead(mine, theirs, p, q + 1) \cup {theirs[q].key}, <<theirs[q]>> \o r[<<p, q + 1>>])
        BY <2>2, <3>3, <3>4, <3>5, HoldsPrepend
      <4> QED
        BY <4>1, <3>1, <3>6
    <3> QED
      BY <1>6, <3>3, <3>7
  <2>5. CASE mine[p].key = theirs[q].key
    <3>1. ~ (mine[p].key < theirs[q].key) /\ ~ (mine[p].key > theirs[q].key)
      BY <2>2, <2>5
    <3>2. /\ Apart(mine, theirs, p + 1, q + 1)
          /\ \A k \in Ahead(mine, theirs, p + 1, q + 1) : theirs[q].key < k
          /\ theirs[q].key \in KeysIn(mine)
          /\ Ahead(mine, theirs, p, q) = Ahead(mine, theirs, p + 1, q + 1) \cup {theirs[q].key}
      BY <1>6, <2>1, <2>5, BothFirst
    <3>3. run[theirs[q].key] = IF theirs[q].value = DELETED_FLAG THEN None ELSE theirs[q].value
      BY <1>4, <2>1, <3>2
    <3>4. Ahead(mine, theirs, p + 1, q + 1) \subseteq Int
      BY <2>1, AheadSteps
    <3>5. CASE theirs[q].value = DELETED_FLAG
      <4>1. r[<<p, q>>] = r[<<p + 1, q + 1>>]
        BY <1>6, <2>0, <3>1, <3>5 DEF OneStep
      <4>2. Good(p + 1, q + 1) => Good(p, q)
        BY <3>2, <3>3, <3>5, <4>1, HoldsDropped
      <4> QED
        BY <1>6, <3>2, <4>2
    <3>6. CASE theirs[q].value # DELETED_FLAG
      <4>1. r[<<p, q>>] = <<theirs[q]>> \o r[<<p + 1, q + 1>>]
        BY <1>6, <2>0, <3>1, <3>6 DEF OneStep
      <4>2. run[theirs[q].key] = theirs[q].value
        BY <3>3, <3>6
      <4>3. Good(p + 1, q + 1) => Good(p, q)
        <5>1. HoldsOf(run, Ahead(mine, theirs, p + 1, q + 1), r[<<p + 1, q + 1>>]) =>
              HoldsOf(run, Ahead(mine, theirs, p + 1, q + 1) \cup {theirs[q].key}, <<theirs[q]>> \o r[<<p + 1, q + 1>>])
          BY <2>2, <3>2, <3>4, <4>2, HoldsPrepend
        <5> QED
          BY <5>1, <3>2, <4>1
      <4> QED
        BY <1>6, <3>2, <4>3
    <3> QED
      BY <3>5, <3>6
  <2> QED
    BY <2>2, <2>3, <2>4, <2>5
<1> HIDE DEF Good
<1>7. ASSUME NEW n \in wrong
      PROVE  /\ GoesOn(mine, theirs, n)
             /\ \E m \in {<<n[1] + 1, n[2]>>, <<n[1], n[2] + 1>>, <<n[1] + 1, n[2] + 1>>} :
                   m \in wrong
  <2>1. PICK p \in 1 .. (Len(mine) + 1), q \in 1 .. (Len(theirs) + 1) : n = <<p, q>>
    BY DEF Places
  <2>2. n[1] = p /\ n[2] = q /\ Apart(mine, theirs, p, q) /\ ~ Good(p, q)
    BY <2>1
  <2>3. p <= Len(mine) /\ q <= Len(theirs)
    <3>1. ~ (p > Len(mine) \/ q > Len(theirs))
      BY <1>5, <2>2
    <3> QED
      BY <1>1, <3>1
  <2>4. \/ Apart(mine, theirs, p + 1, q) /\ ~ Good(p + 1, q)
        \/ Apart(mine, theirs, p, q + 1) /\ ~ Good(p, q + 1)
        \/ Apart(mine, theirs, p + 1, q + 1) /\ ~ Good(p + 1, q + 1)
    BY <1>6, <2>2, <2>3
  <2>5. /\ <<p + 1, q>> \in Places(mine, theirs) /\ <<p, q + 1>> \in Places(mine, theirs)
        /\ <<p + 1, q + 1>> \in Places(mine, theirs)
    BY <1>1, <2>3, PlacesNext
  <2>6. /\ Apart(mine, theirs, p + 1, q) /\ ~ Good(p + 1, q) => <<p + 1, q>> \in wrong
        /\ Apart(mine, theirs, p, q + 1) /\ ~ Good(p, q + 1) => <<p, q + 1>> \in wrong
        /\ Apart(mine, theirs, p + 1, q + 1) /\ ~ Good(p + 1, q + 1) => <<p + 1, q + 1>> \in wrong
    BY <2>5
  <2>7. \E m \in {<<p + 1, q>>, <<p, q + 1>>, <<p + 1, q + 1>>} : m \in wrong
    BY <2>4, <2>6
  <2> QED
    BY <2>2, <2>3, <2>7 DEF GoesOn
<1>8. wrong = {}
  <2>1. wrong \subseteq Places(mine, theirs)
    OBVIOUS
  <2> HIDE DEF wrong
  <2> QED
    BY <1>1, <1>7, <2>1, PlacesEnd
<1>9. Apart(mine, theirs, 1, 1)
  BY DEF Apart
<1>10. Good(1, 1)
  <2> DEFINE n == <<1, 1>>
  <2>1. n \in Places(mine, theirs) /\ n[1] = 1 /\ n[2] = 1
    BY <1>1 DEF Places
  <2>2. ~ (Apart(mine, theirs, n[1], n[2]) /\ ~ Good(n[1], n[2]))
    BY <1>8, <2>1
  <2> QED
    BY <1>9, <2>1, <2>2
<1> DEFINE w == MergeArrays(mine, theirs)
<1>11. HoldsOf(run, Ahead(mine, theirs, 1, 1), w)
  BY <1>2, <1>10 DEF Good
<1> HIDE DEF w
<1>12. KeysOf(run) \subseteq KeysIn(w)
  <2>1. \A k \in KeysOf(run) : k \in Ahead(mine, theirs, 1, 1) /\ run[k] # None
    BY <1>4 DEF Ahead, KeysIn, KeysOf
  <2> QED
    BY <1>11, <2>1 DEF HoldsOf
<1>13. IsArray(w) /\ \A i \in 1 .. Len(w) : run[w[i].key] = w[i].value
  BY <1>11 DEF HoldsOf
<1>14. w = Array(run)
  <2>1. \A k \in KeysOf(run) : k \in KeysIn(w) \/ \A i \in 1 .. Len(w) : w[i].key < k
    BY <1>12
  <2> QED
    BY <1>4, <1>12, <1>13, <2>1, FirstOfArray
<1>15. RunOf(w) = run
  BY <1>4, <1>14, ArrayOfRun
<1> QED
  BY <1>3, <1>13, <1>15 DEF w

-----------------------------------------------------------------------------
(* Files.                                                                  *)

IsFile(array) == array = [p \in 1 .. Capacity[MAX_LEVELS] |-> array[p]]

(* A merge is at some level, not above the one it began with.              *)
Position ==
  /\ at \in 0 .. MAX_LEVELS
  /\ pc \in {"down", "idle", "enter", "temp", "write"} \cup Starting \cup Window
  /\ pc \in {"start", "extend"} => at \in Levels
  /\ pc \in {"enter", "temp", "write"} \cup Window => at \in Levels /\ top \in 1 .. at

(* What a merge will rename is there.                                      *)
TempExists ==
  /\ temp # NoFile => IsFile(temp)
  /\ pc \in {"write"} \cup Window => temp # NoFile

(* A start makes sure of one file after the other.                         *)
FilesStarted ==
  /\ DOMAIN file = Levels
  /\ pc \in {"start", "extend"} => \A i \in 1 .. (at - 1) : file[i] # NoFile
  /\ pc = "extend" => file[at] = <<>>

CInv == Position /\ TempExists /\ FilesStarted /\ FilesExist

-----------------------------------------------------------------------------
LEMMA NewIsFile == IsFile(NewFile)
BY DEF IsFile, NewFile

LEMMA LevelsType == MAX_LEVELS \in Nat \ {0} /\ Levels = 1 .. MAX_LEVELS
BY LevelsAssumption DEF Levels

(* The metadata file, and the first level.                                 *)
LEMMA StartKeeps ==
  ASSUME CInv, CreateMetadata \/ ExtendMetadata \/ Start
  PROVE  CInv'
<1>1. /\ pc' \in {"metadata", "start"} /\ UNCHANGED <<file, temp>>
      /\ pc' = "metadata" => at' = at
      /\ pc' = "start" => at' = 1
  BY DEF CreateMetadata, ExtendMetadata, Start
<1>2. Position' /\ FilesExist'
  BY <1>1, LevelsType DEF CInv, Position, FilesExist, Starting, Window
<1>3. TempExists' /\ FilesStarted'
  BY <1>1 DEF CInv, TempExists, FilesStarted, Window
<1> QED
  BY <1>2, <1>3 DEF CInv

LEMMA CreateKeeps ==
  ASSUME CInv, Create
  PROVE  CInv'
<1>1. /\ pc = "start" /\ at \in Levels /\ pc' = "extend" /\ at' = at /\ temp' = temp
      /\ file' = [file EXCEPT ![at] = <<>>]
  BY DEF Create, CInv, Position
<1>2. Position' /\ FilesExist' /\ TempExists'
  BY <1>1 DEF CInv, Position, FilesExist, TempExists, Starting, Window
<1>3. FilesStarted'
  <2>1. \A i \in 1 .. (at - 1) : i # at /\ i \in Levels
    BY <1>1, LevelsType
  <2> QED
    BY <1>1, <2>1 DEF CInv, FilesStarted
<1> QED
  BY <1>2, <1>3 DEF CInv

(* The constructor of a level leaves its file behind.                      *)
LEMMA StartedKeeps ==
  ASSUME ~ IsFile(NoFile), CInv, Reuse \/ Extend
  PROVE  CInv'
<1>1. /\ pc \in {"start", "extend"} /\ at \in Levels /\ temp' = temp
      /\ IF at < MAX_LEVELS THEN at' = at + 1 /\ pc' = "start" ELSE at' = 0 /\ pc' = "idle"
  BY DEF Reuse, Extend, Started, CInv, Position
<1>2. /\ DOMAIN file' = Levels /\ file'[at] # NoFile
      /\ \A i \in 1 .. (at - 1) : file'[i] # NoFile
  <2>1. DOMAIN file = Levels /\ \A i \in 1 .. (at - 1) : file[i] # NoFile
    BY <1>1 DEF CInv, FilesStarted
  <2>2. CASE Reuse
    BY <2>1, <2>2 DEF Reuse
  <2>3. CASE Extend
    <3>1. file' = [file EXCEPT ![at] = NewFile] /\ NewFile # NoFile
      BY <2>3, NewIsFile DEF Extend
    <3>2. \A i \in 1 .. (at - 1) : i \in Levels /\ i # at
      BY <1>1, LevelsType
    <3> QED
      BY <3>1, <3>2, <2>1, <1>1
  <2> QED
    BY <2>2, <2>3
<1>3. \A i \in 1 .. at : file'[i] # NoFile
  BY <1>1, <1>2, LevelsType
<1>4. Position'
  BY <1>1, LevelsType DEF Position, Starting, Window
<1>5. TempExists'
  BY <1>1 DEF CInv, TempExists, Window
<1>6. FilesStarted'
  BY <1>1, <1>2, <1>3, LevelsType DEF FilesStarted
<1>7. FilesExist'
  <2>1. CASE at < MAX_LEVELS
    BY <2>1, <1>1 DEF FilesExist, Starting
  <2>2. CASE ~ (at < MAX_LEVELS)
    <3>1. at = MAX_LEVELS
      BY <2>2, <1>1, LevelsType
    <3> QED
      BY <3>1, <1>3, LevelsType DEF FilesExist
  <2> QED
    BY <2>1, <2>2
<1> QED
  BY <1>4, <1>5, <1>6, <1>7 DEF CInv

(* Commands, cascades, and what a merge does before its last two steps.    *)
LEMMA CommandKeeps ==
  ASSUME CInv, NEW i \in Levels, Command(i)
  PROVE  CInv'
<1>1. pc = "idle" /\ pc' = "enter" /\ at' = i /\ top' = i /\ UNCHANGED <<file, temp>>
  BY DEF Command, files
<1>2. Position'
  BY <1>1, LevelsType DEF Position, Starting, Window
<1>3. TempExists' /\ FilesStarted' /\ FilesExist'
  BY <1>1 DEF CInv, TempExists, FilesStarted, FilesExist, Starting, Window
<1> QED
  BY <1>2, <1>3 DEF CInv

LEMMA CascadeKeeps ==
  ASSUME CInv, Cascade
  PROVE  CInv'
<1>1. /\ pc = "enter" /\ pc' = pc /\ at' = at + 1 /\ at # MAX_LEVELS
      /\ top' = top /\ UNCHANGED <<file, temp>>
  BY DEF Cascade, files
<1>2. at \in Levels /\ top \in 1 .. at
  BY <1>1 DEF CInv, Position, Starting
<1>3. at' \in Levels /\ top' \in 1 .. at'
  BY <1>1, <1>2, LevelsType
<1>4. Position'
  BY <1>1, <1>3, LevelsType DEF Position, Starting
<1>5. TempExists' /\ FilesStarted' /\ FilesExist'
  BY <1>1 DEF CInv, TempExists, FilesStarted, FilesExist, Starting, Window
<1> QED
  BY <1>4, <1>5 DEF CInv

LEMMA TempKeeps ==
  ASSUME ~ IsFile(NoFile), CInv, Fits \/ OpenTemp \/ Write
  PROVE  CInv'
<1>1. /\ pc \in {"enter", "temp", "write"} /\ pc' \in {"temp", "write"}
      /\ at' = at /\ top' = top /\ file' = file
  BY DEF Fits, OpenTemp, Write, files
<1>2. Position' /\ FilesStarted' /\ FilesExist'
  BY <1>1 DEF CInv, Position, FilesStarted, FilesExist, Starting, Window
<1>3. TempExists'
  <2>1. CASE Fits
    BY <2>1 DEF Fits, files, CInv, TempExists, Window
  <2>2. CASE OpenTemp
    BY <2>2, NewIsFile DEF OpenTemp, CInv, TempExists
  <2>3. CASE Write
    <3>1. /\ temp' = [temp EXCEPT ![written + 1] = Output[written + 1]]
          /\ temp = [p \in 1 .. Capacity[MAX_LEVELS] |-> temp[p]]
      BY <2>3 DEF Write, CInv, TempExists, IsFile
    <3> HIDE DEF Output
    <3>2. IsFile(temp')
      BY <3>1 DEF IsFile
    <3> QED
      BY <3>2 DEF TempExists
  <2> QED
    BY <2>1, <2>2, <2>3
<1> QED
  BY <1>2, <1>3 DEF CInv

LEMMA RecordKeeps ==
  ASSUME CInv, RecordSize \/ RecordZero
  PROVE  CInv'
<1>1. /\ pc \in {"write", "zero"} /\ pc' \in {"zero", "remove"}
      /\ at' = at /\ top' = top /\ file' = file /\ temp' = temp
  BY DEF RecordSize, RecordZero
<1> QED
  BY <1>1 DEF CInv, Position, FilesStarted, FilesExist, Starting, TempExists, Window

(* The file is gone between these two.                                     *)
LEMMA RemoveKeeps ==
  ASSUME CInv, Remove
  PROVE  CInv'
<1>1. /\ pc = "remove" /\ pc' = "rename" /\ at' = at /\ top' = top /\ temp' = temp
      /\ file' = [file EXCEPT ![at] = NoFile]
  BY DEF Remove
<1>2. Position' /\ TempExists' /\ FilesStarted'
  BY <1>1 DEF CInv, Position, Starting, FilesStarted, TempExists, Window
<1>3. FilesExist'
  BY <1>1 DEF CInv, FilesStarted, FilesExist, Starting
<1> QED
  BY <1>2, <1>3 DEF CInv

LEMMA RenameKeeps ==
  ASSUME CInv, Rename
  PROVE  CInv'
<1>1. /\ pc = "rename" /\ temp' = NoFile
      /\ file' = [file EXCEPT ![at] = temp]
      /\ IF at = top THEN pc' = "idle" /\ at' = 0
         ELSE pc' = "temp" /\ at' = at - 1 /\ top' = top
  BY DEF Rename
<1>2. at \in Levels /\ top \in 1 .. at /\ temp # NoFile
  BY <1>1 DEF CInv, Position, Starting, TempExists, Window
<1>3. Position'
  BY <1>1, <1>2, LevelsType DEF Position, Starting, Window
<1>4. TempExists'
  BY <1>1 DEF TempExists, Window
<1>5. DOMAIN file' = Levels /\ \A i \in Levels : file'[i] # NoFile
  <2>1. DOMAIN file = Levels /\ \A i \in Levels : i # at => file[i] # NoFile
    BY <1>1 DEF CInv, FilesStarted, FilesExist, Starting
  <2> QED
    BY <2>1, <1>1, <1>2
<1>6. FilesStarted' /\ FilesExist'
  BY <1>1, <1>5 DEF FilesStarted, FilesExist, Starting
<1> QED
  BY <1>3, <1>4, <1>6 DEF CInv

(* A process dies, of a kill or at a full database.                        *)
LEMMA GoneKeeps ==
  ASSUME CInv, Gone, UNCHANGED files
  PROVE  CInv'
<1>1. pc' = "down" /\ at' = 0 /\ UNCHANGED <<file, temp>>
  BY DEF Gone, files
<1>2. Position' /\ FilesExist'
  BY <1>1, LevelsType DEF Position, FilesExist, Starting, Window
<1>3. TempExists' /\ FilesStarted'
  BY <1>1 DEF CInv, TempExists, FilesStarted, Window
<1> QED
  BY <1>2, <1>3 DEF CInv

LEMMA NextCInv ==
  ASSUME ~ IsFile(NoFile), CInv, [Next]_vars
  PROVE  CInv'
<1>1. CASE CreateMetadata \/ ExtendMetadata \/ Start \/ Create \/ Reuse \/ Extend
  BY <1>1, StartKeeps, CreateKeeps, StartedKeeps
<1>2. CASE \E run \in Run : Flush(run)
  <2>1. Command(1) /\ 1 \in Levels
    BY <1>2, LevelsType DEF Flush
  <2> QED
    BY <2>1, CommandKeeps
<1>3. CASE \E i \in 1 .. (MAX_LEVELS - 1) : MergeLevel(i)
  <2>1. PICK i \in 1 .. (MAX_LEVELS - 1) : Command(i + 1)
    BY <1>3 DEF MergeLevel
  <2>2. i + 1 \in Levels
    BY LevelsType
  <2> QED
    BY <2>1, <2>2, CommandKeeps
<1>4. CASE Cascade \/ Fits \/ OpenTemp \/ Write
  BY <1>4, CascadeKeeps, TempKeeps
<1>5. CASE RecordSize \/ RecordZero \/ Remove \/ Rename
  BY <1>5, RecordKeeps, RemoveKeeps, RenameKeeps
<1>6. CASE DatabaseFull \/ StartFails \/ RecordFails
  BY <1>6, GoneKeeps DEF DatabaseFull, StartFails, RecordFails
<1>7. CASE Kill
  BY <1>7, GoneKeeps DEF Kill
<1>8. CASE UNCHANGED vars
  BY <1>8 DEF vars, files, memory, CInv, Position, FilesStarted, FilesExist, Starting, TempExists
<1> QED
  BY <1>1, <1>2, <1>3, <1>4, <1>5, <1>6, <1>7, <1>8 DEF Next, Startup, Merge

(* However often processes are killed and wherever, one that takes         *)
(* commands has the file of every level.                                   *)
THEOREM FilesCorrect ==
  ASSUME ~ IsFile(NoFile)
  PROVE  Spec => []FilesExist
<1>1. Init => CInv
  BY LevelsType DEF Init, CInv, Position, FilesStarted, FilesExist, Starting, TempExists, Window
<1>2. CInv /\ [Next]_vars => CInv'
  BY NextCInv
<1>3. CInv => FilesExist
  BY DEF CInv
<1> QED
  BY <1>1, <1>2, <1>3, PTL DEF Spec

-----------------------------------------------------------------------------
(* Types and sizes.                                                        *)

BufferFits == Size(buffer) <= BUFFER_CAPACITY

(* A process that does nothing is at no level.                             *)
AtRest == /\ pc \in {"down", "idle"} \cup Starting => top = 0
          /\ pc \in {"down", "idle", "metadata"} => at = 0

(* The process has read the size of the level, or created its file.        *)
Known(i) == \/ pc \notin {"down"} \cup Starting
            \/ pc \in {"start", "extend"} /\ i < at

Unknown == \A i \in Levels : ~ Known(i) => curr_size[i] = 0

(* Nothing is read of a file without a byte.                               *)
NothingInEmpty ==
  \A i \in Levels : file[i] = <<>> /\ ~ (pc \in Window /\ i = at) => curr_size[i] = 0

(* A merge that opens its file has room for all it may write.              *)
RoomForBoth == pc \in {"temp", "write"} => curr_size[at] + Len(Child) <= Capacity[at]

WriteFits == /\ pc = "write" => written <= Len(Output)
             /\ pc \in Window => written = curr_size[at] /\ written = meta[at]

Sizes == Unknown /\ NothingInEmpty

SizeInv == /\ TypeOK /\ SizesWithinCapacity /\ BufferFits
           /\ AtRest /\ RoomForBoth /\ WriteFits /\ Sizes

LEMMA CapacityFacts ==
  /\ \A i \in Levels : Capacity[i] \in Nat \ {0} /\ Capacity[i] <= Capacity[MAX_LEVELS]
  /\ \A i \in Levels : i - 1 \in Levels => Capacity[i - 1] <= Capacity[i]
  /\ \A i \in Levels : BUFFER_CAPACITY <= Capacity[i]
  /\ BUFFER_CAPACITY \in Nat
<1>1. /\ MAX_LEVELS \in Nat \ {0} /\ BUFFER_CAPACITY \in Nat \ {0}
      /\ Capacity \in [Levels -> Nat \ {0}] /\ BUFFER_CAPACITY <= Capacity[1]
      /\ \A i, j \in Levels : i <= j => Capacity[i] <= Capacity[j]
  BY LevelsAssumption
<1>2. 1 \in Levels /\ MAX_LEVELS \in Levels /\ \A i \in Levels : 1 <= i /\ i <= MAX_LEVELS /\ i \in Int
  BY <1>1 DEF Levels
<1>3. \A i \in Levels : Capacity[i] \in Nat \ {0} /\ Capacity[i] <= Capacity[MAX_LEVELS]
  BY <1>1, <1>2
<1>4. \A i \in Levels : i - 1 \in Levels => Capacity[i - 1] <= Capacity[i]
  <2>1. \A i \in Levels : i - 1 <= i
    BY <1>2
  <2> QED
    BY <1>1, <2>1
<1>5. ASSUME NEW i \in Levels PROVE BUFFER_CAPACITY <= Capacity[i]
  <2>1. Capacity[1] <= Capacity[i] /\ Capacity[1] \in Nat /\ Capacity[i] \in Nat
    BY <1>1, <1>2
  <2> QED
    BY <1>1, <2>1
<1> QED
  BY <1>1, <1>3, <1>4, <1>5

LEMMA NewFileType == NewFile \in FileContents
<1>1. Zero \in Entry
  BY DEF Entry
<1> QED
  BY <1>1 DEF NewFile, FileContents

(* What is renamed to the file of a level is not without a byte.           *)
LEMMA WholeFile ==
  ASSUME ~ IsFile(NoFile), NEW f \in FileContents, IsFile(f)
  PROVE  f \in [1 .. Capacity[MAX_LEVELS] -> Entry] /\ f # <<>>
<1>1. Capacity[MAX_LEVELS] \in Nat \ {0}
  BY CapacityFacts, LevelsType
<1>2. DOMAIN f = 1 .. Capacity[MAX_LEVELS]
  BY DEF IsFile
<1>3. f # <<>>
  <2>1. SUFFICES ASSUME f = <<>> PROVE FALSE
    OBVIOUS
  <2>2. Len(f) = 0 /\ DOMAIN f = {}
    BY <2>1
  <2>3. 1 \in 1 .. Capacity[MAX_LEVELS]
    BY <1>1
  <2> QED
    BY <1>2, <2>2, <2>3
<1> QED
  BY <1>3 DEF FileContents

LEMMA FileSubSeq ==
  ASSUME NEW f \in FileContents, f # NoFile, NEW n \in Nat, n <= Capacity[MAX_LEVELS],
         f = <<>> => n = 0
  PROVE  /\ SubSeq(f, 1, n) \in Seq(Entry) /\ Len(SubSeq(f, 1, n)) = n
         /\ \A p \in 1 .. n : SubSeq(f, 1, n)[p] = f[p]
<1>1. Capacity[MAX_LEVELS] \in Nat
  BY CapacityFacts, LevelsType
<1>2. \A p \in 1 .. n : p \in 1 .. Capacity[MAX_LEVELS]
  BY <1>1
<1>3. \A p \in 1 .. n : f[p] \in Entry
  <2>1. CASE f = <<>>
    BY <2>1
  <2>2. CASE f # <<>>
    BY <1>2, <2>2 DEF FileContents
  <2> QED
    BY <2>1, <2>2
<1>4. /\ SubSeq(f, 1, n) \in Seq(Entry)
      /\ Len(SubSeq(f, 1, n)) = IF 1 <= n THEN n - 1 + 1 ELSE 0
      /\ \A p \in 1 .. n - 1 + 1 : SubSeq(f, 1, n)[p] = f[1 + p - 1]
  BY <1>3, SubSeqProperties
<1> QED
  BY <1>4

LEMMA SeqLarger ==
  ASSUME NEW S, NEW T, S \subseteq T, NEW s \in Seq(S)
  PROVE  s \in Seq(T)
<1>1. Len(s) \in Nat /\ s \in [1 .. Len(s) -> S]
  BY LenProperties
<1>2. s \in [1 .. Len(s) -> T]
  BY <1>1
<1> QED
  BY <1>1, <1>2, SeqDef

(* What a merge at a level reads, when the files are there.                *)
LEMMA EntriesType ==
  ASSUME TypeOK, SizesWithinCapacity, NEW i \in Levels, file[i] # NoFile,
         file[i] = <<>> => curr_size[i] = 0
  PROVE  /\ Entries(i) \in Seq(Entry) /\ Len(Entries(i)) = curr_size[i]
         /\ \A p \in 1 .. curr_size[i] : Entries(i)[p] = file[i][p]
<1>1. /\ file[i] \in FileContents /\ curr_size[i] \in Nat
      /\ curr_size[i] <= Capacity[i]
  BY DEF TypeOK, SizesWithinCapacity
<1>2. curr_size[i] <= Capacity[MAX_LEVELS]
  <2>1. Capacity[i] \in Nat /\ Capacity[i] <= Capacity[MAX_LEVELS] /\ Capacity[MAX_LEVELS] \in Nat
    BY CapacityFacts, LevelsType
  <2> QED
    BY <1>1, <2>1
<1> DEFINE f == file[i]
           n == curr_size[i]
<1>3. /\ f \in FileContents /\ f # NoFile /\ n \in Nat /\ n <= Capacity[MAX_LEVELS]
      /\ f = <<>> => n = 0
  BY <1>1, <1>2
<1>4. Entries(i) = SubSeq(f, 1, n)
  BY DEF Entries
<1> HIDE DEF f, n
<1>5. /\ SubSeq(f, 1, n) \in Seq(Entry) /\ Len(SubSeq(f, 1, n)) = n
      /\ \A p \in 1 .. n : SubSeq(f, 1, n)[p] = f[p]
  BY <1>3, FileSubSeq
<1> QED
  BY <1>4, <1>5 DEF f, n

LEMMA ChildType ==
  ASSUME TypeOK, SizesWithinCapacity, BufferFits, NothingInEmpty, FilesExist, at \in Levels,
         pc \in {"enter", "temp", "write"}
  PROVE  /\ Child \in Seq(Entry) /\ Len(Child) \in Nat /\ Len(Child) <= Capacity[at]
         /\ Len(Child) = IF at = 1 THEN Size(buffer) ELSE curr_size[at - 1]
<1>1. CASE at = 1
  <2>1. buffer \in Run /\ Size(buffer) \in Nat
    BY SizeType DEF TypeOK
  <2>2. Array(buffer) \in Seq(lsm_data) /\ Len(Array(buffer)) = Size(buffer)
    BY <2>1, ArrayOfRun DEF IsArray
  <2>3. Array(buffer) \in Seq(Entry)
    <3>1. lsm_data \subseteq Entry
      BY DEF Entry
    <3> QED
      BY <2>2, <3>1, SeqLarger
  <2>4. Size(buffer) <= Capacity[at]
    <3>1. BUFFER_CAPACITY <= Capacity[at] /\ BUFFER_CAPACITY \in Nat /\ Capacity[at] \in Nat
      BY CapacityFacts
    <3> QED
      BY <2>1, <3>1 DEF BufferFits
  <2>5. Child = Array(buffer)
    BY <1>1 DEF Child
  <2> HIDE DEF Child
  <2> QED
    BY <1>1, <2>1, <2>2, <2>3, <2>4, <2>5
<1>2. CASE at # 1
  <2>1. at - 1 \in Levels /\ at - 1 # at
    BY <1>2, LevelsType
  <2>2. file[at - 1] # NoFile /\ (file[at - 1] = <<>> => curr_size[at - 1] = 0)
    BY <2>1 DEF FilesExist, NothingInEmpty, Starting
  <2>3. Entries(at - 1) \in Seq(Entry) /\ Len(Entries(at - 1)) = curr_size[at - 1]
    <3> DEFINE j == at - 1
    <3>1. j \in Levels /\ file[j] # NoFile /\ (file[j] = <<>> => curr_size[j] = 0)
      BY <2>1, <2>2
    <3> HIDE DEF j
    <3>2. Entries(j) \in Seq(Entry) /\ Len(Entries(j)) = curr_size[j]
      BY <3>1, EntriesType
    <3> QED
      BY <3>2 DEF j
  <2>4. curr_size[at - 1] \in Nat /\ curr_size[at - 1] <= Capacity[at - 1]
    BY <2>1 DEF TypeOK, SizesWithinCapacity
  <2>5. Capacity[at - 1] \in Nat /\ Capacity[at] \in Nat /\ Capacity[at - 1] <= Capacity[at]
    BY <2>1, CapacityFacts
  <2>6. curr_size[at - 1] <= Capacity[at]
    BY <2>4, <2>5
  <2>7. Child = Entries(at - 1)
    BY <1>2 DEF Child
  <2> HIDE DEF Child
  <2> QED
    BY <1>2, <2>3, <2>4, <2>6, <2>7
<1> QED
  BY <1>1, <1>2

LEMMA OutputType ==
  ASSUME SizeInv, FilesExist, at \in Levels, pc \in {"temp", "write"}
  PROVE  /\ Output \in Seq(Entry) /\ Len(Output) \in Nat
         /\ Len(Output) <= Capacity[at] /\ Len(Output) <= Capacity[MAX_LEVELS]
<1>1. /\ TypeOK /\ SizesWithinCapacity /\ BufferFits /\ NothingInEmpty
      /\ curr_size[at] + Len(Child) <= Capacity[at]
  BY DEF SizeInv, Sizes, RoomForBoth
<1>2. file[at] # NoFile /\ (file[at] = <<>> => curr_size[at] = 0)
  BY <1>1 DEF FilesExist, NothingInEmpty, Starting, Window
<1> DEFINE i == at
<1>3. i \in Levels /\ file[i] # NoFile /\ (file[i] = <<>> => curr_size[i] = 0)
  BY <1>2
<1>4. Child \in Seq(Entry) /\ Len(Child) \in Nat
  BY <1>1, ChildType
<1> HIDE DEF i, Child
<1>5. Entries(i) \in Seq(Entry) /\ Len(Entries(i)) = curr_size[i]
  BY <1>1, <1>3, EntriesType
<1> HIDE DEF Entries
<1>6. /\ MergeArrays(Entries(i), Child) \in Seq(Entry)
      /\ Len(MergeArrays(Entries(i), Child)) \in Nat
      /\ Len(MergeArrays(Entries(i), Child)) <= Len(Entries(i)) + Len(Child)
  BY <1>4, <1>5, MergeArraysType
<1>7. /\ Output \in Seq(Entry) /\ Len(Output) \in Nat
      /\ Len(Output) <= curr_size[at] + Len(Child)
  BY <1>5, <1>6 DEF Output, i
<1> HIDE DEF Output
<1>8. /\ Capacity[at] \in Nat /\ Capacity[MAX_LEVELS] \in Nat
      /\ Capacity[at] <= Capacity[MAX_LEVELS] /\ curr_size[at] \in Nat
  BY <1>1, CapacityFacts, LevelsType DEF TypeOK
<1> QED
  BY <1>1, <1>4, <1>7, <1>8

LEMMA TypeFacts ==
  ASSUME TypeOK
  PROVE  /\ file \in [Levels -> FileContents] /\ temp \in FileContents
         /\ meta \in [Levels -> Nat] /\ curr_size \in [Levels -> Nat]
         /\ buffer \in Run /\ struck \subseteq Levels
         /\ commands \in 0 .. MaxCommands /\ kills \in 0 .. MaxKills
         /\ written \in 0 .. Capacity[MAX_LEVELS] /\ Capacity[MAX_LEVELS] \in Nat
         /\ Levels = 1 .. MAX_LEVELS /\ MAX_LEVELS \in Nat \ {0}
         /\ MaxCommands \in Nat /\ MaxKills \in Nat
         /\ top \in 0 .. at /\ at \in 0 .. MAX_LEVELS
BY CapacityFacts, LevelsType, LevelsAssumption DEF TypeOK

(* A step that does not touch sizes, files and buffer.                     *)
LEMMA ChildSame ==
  ASSUME UNCHANGED <<file, curr_size, buffer, at>>
  PROVE  Child' = Child /\ Output' = Output
BY DEF Child, Output, Entries

(* A process that is through with its start knows all sizes.               *)
LEMMA SizesSame ==
  ASSUME Sizes, UNCHANGED <<file, curr_size>>, pc \notin Window,
         pc' \notin {"down"} \cup Starting
  PROVE  Sizes'
BY DEF Sizes, Unknown, NothingInEmpty, Known

LEMMA StartSizes ==
  ASSUME SizeInv, CreateMetadata \/ ExtendMetadata \/ Start
  PROVE  SizeInv'
<1>1. /\ pc \in {"down", "metadata"} /\ pc' \in {"metadata", "start"}
      /\ (pc' = "metadata" => at' = at) /\ (pc' = "start" => at' = 1)
      /\ meta_file' \in {meta_file, "empty", "whole"}
      /\ UNCHANGED <<file, temp, curr_size, buffer, top, written, struck, commands, kills>>
  BY DEF CreateMetadata, ExtendMetadata, Start, bounds
<1>2. TypeOK /\ top = 0 /\ at = 0 /\ SizesWithinCapacity
  BY <1>1 DEF SizeInv, AtRest, Starting
<1>3. /\ meta' \in [Levels -> Nat]
      /\ \A i \in Levels : meta'[i] = meta[i] \/ meta'[i] = 0
  <2>1. CASE CreateMetadata \/ ExtendMetadata
    BY <1>2, <2>1, TypeFacts DEF CreateMetadata, ExtendMetadata
  <2>2. CASE Start
    <3>1. PICK n \in {0, meta[MAX_LEVELS]} : meta' = [meta EXCEPT ![MAX_LEVELS] = n]
      BY <2>2 DEF Start
    <3>2. MAX_LEVELS \in Levels
      BY LevelsType
    <3> QED
      BY <1>2, <3>1, <3>2, TypeFacts
  <2> QED
    BY <2>1, <2>2
<1>4. TypeOK'
  <2>1. 1 \in 0 .. MAX_LEVELS /\ 0 \in 0 .. 1 /\ 0 \in 0 .. 0 /\ 0 \in 0 .. MAX_LEVELS
    BY LevelsType
  <2> QED
    BY <1>1, <1>2, <1>3, <2>1 DEF TypeOK, Starting
<1>5. SizesWithinCapacity' /\ BufferFits'
  <2>1. \A i \in Levels : 0 <= Capacity[i]
    BY CapacityFacts
  <2> QED
    BY <1>1, <1>2, <1>3, <2>1 DEF SizeInv, SizesWithinCapacity, BufferFits
<1>6. AtRest' /\ RoomForBoth' /\ WriteFits'
  BY <1>1, <1>2 DEF AtRest, RoomForBoth, WriteFits, Window
<1>7. Sizes'
  <2>1. \A i \in Levels : ~ Known(i)
    BY <1>1 DEF Known, Starting
  <2> QED
    BY <1>1, <2>1 DEF SizeInv, Sizes, Unknown, NothingInEmpty
<1> QED
  BY <1>4, <1>5, <1>6, <1>7 DEF SizeInv

LEMMA CreateSizes ==
  ASSUME SizeInv, CInv, Create
  PROVE  SizeInv'
<1>1. /\ pc = "start" /\ pc' = "extend" /\ at \in Levels
      /\ file' = [file EXCEPT ![at] = <<>>]
      /\ UNCHANGED <<temp, meta_file, meta, curr_size, buffer, at, top, written, struck,
                     commands, kills>>
  BY DEF Create, CInv, Position, bounds, metadata
<1>2. TypeOK /\ top = 0
  BY <1>1 DEF SizeInv, AtRest, Starting
<1>3. file' \in [Levels -> FileContents]
  <2>1. <<>> \in FileContents
    BY DEF FileContents
  <2> QED
    BY <1>1, <1>2, <2>1, TypeFacts
<1>4. TypeOK'
  BY <1>1, <1>2, <1>3 DEF TypeOK, Starting
<1>5. SizesWithinCapacity' /\ BufferFits'
  BY <1>1 DEF SizeInv, SizesWithinCapacity, BufferFits
<1>6. AtRest' /\ RoomForBoth' /\ WriteFits'
  BY <1>1, <1>2 DEF AtRest, RoomForBoth, WriteFits, Window
<1>7. \A i \in Levels : Known(i)' <=> Known(i)
  BY <1>1 DEF Known, Starting
<1>8. Unknown'
  BY <1>1, <1>7 DEF SizeInv, Sizes, Unknown
<1>9. NothingInEmpty'
  <2>1. ~ Known(at)
    BY <1>1, LevelsType DEF Known, Starting
  <2>2. curr_size[at] = 0
    BY <1>1, <2>1 DEF SizeInv, Sizes, Unknown
  <2>3. \A i \in Levels : i # at => file'[i] = file[i]
    BY <1>1, <1>2, TypeFacts
  <2>4. \A i \in Levels : i # at /\ file[i] = <<>> => curr_size[i] = 0
    BY DEF SizeInv, Sizes, NothingInEmpty
  <2> QED
    BY <1>1, <2>2, <2>3, <2>4 DEF NothingInEmpty
<1> QED
  BY <1>4, <1>5, <1>6, <1>8, <1>9 DEF SizeInv, Sizes

LEMMA StartedSizes ==
  ASSUME ~ IsFile(NoFile), SizeInv, CInv, Reuse \/ Extend
  PROVE  SizeInv'
<1>1. /\ pc \in {"start", "extend"} /\ at \in Levels
      /\ IF at < MAX_LEVELS THEN at' = at + 1 /\ pc' = "start" ELSE at' = 0 /\ pc' = "idle"
      /\ UNCHANGED <<temp, meta_file, meta, buffer, top, written, struck, commands, kills>>
  BY DEF Reuse, Extend, Started, CInv, Position, bounds, metadata
<1>2. TypeOK /\ top = 0 /\ SizesWithinCapacity
  BY <1>1 DEF SizeInv, AtRest, Starting
<1>3. /\ file' \in [Levels -> FileContents] /\ curr_size' \in [Levels -> Nat]
      /\ \A i \in Levels : curr_size'[i] <= Capacity[i]
      /\ \A i \in Levels : i # at => file'[i] = file[i] /\ curr_size'[i] = curr_size[i]
      /\ file'[at] = <<>> => curr_size'[at] = 0
  <2>1. CASE Reuse
    <3>1. /\ curr_size' = [curr_size EXCEPT ![at] = meta[at]] /\ file' = file
          /\ ~ (file[at] = <<>> /\ meta[at] > 0)
      BY <2>1 DEF Reuse, Unreadable
    <3>2. meta[at] \in Nat /\ meta[at] <= Capacity[at]
      BY <1>1, <1>2 DEF TypeOK, SizesWithinCapacity
    <3>3. file[at] = <<>> => meta[at] = 0
      BY <3>1, <3>2
    <3> QED
      BY <1>1, <1>2, <3>1, <3>2, <3>3, TypeFacts DEF SizesWithinCapacity
  <2>2. CASE Extend
    <3>1. file' = [file EXCEPT ![at] = NewFile] /\ curr_size' = curr_size
      BY <2>2 DEF Extend
    <3>2. NewFile # <<>>
      BY NewFileType, NewIsFile, WholeFile
    <3> QED
      BY <1>1, <1>2, <3>1, <3>2, TypeFacts, NewFileType DEF SizesWithinCapacity
  <2> QED
    BY <2>1, <2>2
<1>4. at' \in 0 .. MAX_LEVELS /\ 0 \in 0 .. at' /\ pc' \in {"start", "idle"} /\ (pc' = "idle" => at' = 0)
  BY <1>1, LevelsType
<1>5. TypeOK'
  BY <1>1, <1>2, <1>3, <1>4 DEF TypeOK, Starting
<1>6. SizesWithinCapacity' /\ BufferFits'
  BY <1>1, <1>2, <1>3 DEF SizeInv, SizesWithinCapacity, BufferFits
<1>7. AtRest' /\ RoomForBoth' /\ WriteFits'
  BY <1>1, <1>2, <1>4 DEF AtRest, RoomForBoth, WriteFits, Window
<1>8. \A i \in Levels : Known(i)' <=> Known(i) \/ i = at
  BY <1>1, LevelsType DEF Known, Starting
<1>9. Unknown'
  BY <1>3, <1>8 DEF SizeInv, Sizes, Unknown
<1>10. NothingInEmpty'
  <2>1. \A i \in Levels : file[i] = <<>> => curr_size[i] = 0
    BY <1>1 DEF SizeInv, Sizes, NothingInEmpty, Window
  <2> QED
    BY <1>1, <1>3, <2>1 DEF NothingInEmpty
<1> QED
  BY <1>5, <1>6, <1>7, <1>9, <1>10 DEF SizeInv, Sizes

LEMMA CommandSizes ==
  ASSUME SizeInv, NEW i \in Levels, Command(i), buffer' \in Run, Size(buffer') <= BUFFER_CAPACITY
  PROVE  SizeInv'
<1>1. /\ pc = "idle" /\ pc' = "enter" /\ at' = i /\ top' = i
      /\ commands < MaxCommands /\ commands' = commands + 1
      /\ UNCHANGED <<file, temp, meta_file, meta, curr_size, written, struck, kills>>
  BY DEF Command, files, metadata
<1>2. TypeOK
  BY DEF SizeInv
<1>3. commands' \in 0 .. MaxCommands /\ i \in 0 .. MAX_LEVELS /\ i \in 0 .. i
  BY <1>1, <1>2, TypeFacts, LevelsType
<1>4. TypeOK'
  BY <1>1, <1>2, <1>3 DEF TypeOK, Starting
<1>5. SizesWithinCapacity' /\ BufferFits'
  BY <1>1 DEF SizeInv, SizesWithinCapacity, BufferFits
<1>6. AtRest' /\ RoomForBoth' /\ WriteFits'
  BY <1>1 DEF AtRest, RoomForBoth, WriteFits, Window, Starting
<1>7. Sizes'
  BY <1>1, SizesSame DEF SizeInv, Window, Starting
<1> QED
  BY <1>4, <1>5, <1>6, <1>7 DEF SizeInv

LEMMA FlushSizes ==
  ASSUME SizeInv, NEW run \in Run, Flush(run)
  PROVE  SizeInv'
<1>1. Command(1) /\ buffer' = run /\ Size(run) <= BUFFER_CAPACITY /\ 1 \in Levels
  BY CapacityFacts, LevelsType DEF Flush
<1> QED
  BY <1>1, CommandSizes

LEMMA MergeLevelSizes ==
  ASSUME SizeInv, NEW i \in 1 .. (MAX_LEVELS - 1), MergeLevel(i)
  PROVE  SizeInv'
<1>1. Command(i + 1) /\ buffer' = buffer /\ i + 1 \in Levels
  BY LevelsType DEF MergeLevel
<1>2. buffer' \in Run /\ Size(buffer') <= BUFFER_CAPACITY
  BY <1>1 DEF SizeInv, TypeOK, BufferFits, Starting
<1> QED
  BY <1>1, <1>2, CommandSizes

LEMMA CascadeSizes ==
  ASSUME SizeInv, CInv, Cascade
  PROVE  SizeInv'
<1>1. /\ pc = "enter" /\ pc' = "enter" /\ at # MAX_LEVELS /\ at' = at + 1
      /\ UNCHANGED <<file, temp, meta_file, meta, curr_size, buffer, top, written, struck, commands, kills>>
  BY DEF Cascade, files, metadata, bounds
<1>2. TypeOK /\ at \in Levels /\ top \in 1 .. at
  BY <1>1 DEF SizeInv, CInv, Position, Starting
<1>3. at + 1 \in 0 .. MAX_LEVELS /\ top \in 0 .. (at + 1)
  BY <1>1, <1>2, LevelsType
<1>4. TypeOK'
  BY <1>1, <1>2, <1>3 DEF TypeOK, Starting
<1>5. SizesWithinCapacity' /\ BufferFits'
  BY <1>1 DEF SizeInv, SizesWithinCapacity, BufferFits
<1>6. AtRest' /\ RoomForBoth' /\ WriteFits'
  BY <1>1 DEF AtRest, RoomForBoth, WriteFits, Window, Starting
<1>7. Sizes'
  BY <1>1, SizesSame DEF SizeInv, Window, Starting
<1> QED
  BY <1>4, <1>5, <1>6, <1>7 DEF SizeInv

LEMMA FitsSizes ==
  ASSUME SizeInv, CInv, Fits
  PROVE  SizeInv'
<1>1. /\ pc = "enter" /\ pc' = "temp" /\ ~ Overflows
      /\ UNCHANGED <<file, temp, meta_file, meta, curr_size, buffer, at, top, written, struck, commands, kills>>
  BY DEF Fits, files, metadata, bounds
<1>2. /\ TypeOK /\ SizesWithinCapacity /\ BufferFits /\ NothingInEmpty
      /\ at \in Levels /\ FilesExist
  BY <1>1 DEF SizeInv, Sizes, CInv, Position, Starting
<1>3. TypeOK'
  BY <1>1, <1>2 DEF TypeOK, Starting
<1>4. SizesWithinCapacity' /\ BufferFits'
  BY <1>1, <1>2 DEF SizesWithinCapacity, BufferFits
<1>5. RoomForBoth'
  <2>1. ~ (Capacity[at] - curr_size[at] < Len(Child))
    BY <1>1 DEF Overflows
  <2>2. Capacity[at] \in Nat /\ curr_size[at] \in Nat
    BY <1>2, CapacityFacts, TypeFacts
  <2>3. Len(Child) \in Nat
    BY <1>1, <1>2, ChildType
  <2>4. Child' = Child
    BY <1>1, ChildSame
  <2> HIDE DEF Child
  <2>5. curr_size[at] + Len(Child) <= Capacity[at]
    BY <2>1, <2>2, <2>3
  <2> QED
    BY <1>1, <2>4, <2>5 DEF RoomForBoth
<1>6. AtRest' /\ WriteFits'
  BY <1>1 DEF AtRest, WriteFits, Window, Starting
<1>7. Sizes'
  BY <1>1, SizesSame DEF SizeInv, Window, Starting
<1> QED
  BY <1>3, <1>4, <1>5, <1>6, <1>7 DEF SizeInv

LEMMA OpenSizes ==
  ASSUME SizeInv, CInv, OpenTemp
  PROVE  SizeInv'
<1>1. /\ pc = "temp" /\ pc' = "write" /\ written' = 0
      /\ temp' = IF temp = NoFile THEN NewFile ELSE temp
      /\ UNCHANGED <<file, meta_file, meta, curr_size, buffer, at, top, struck, commands, kills>>
  BY DEF OpenTemp, bounds, metadata
<1>2. TypeOK /\ at \in Levels /\ FilesExist
  BY <1>1 DEF SizeInv, CInv, Position, Starting
<1>3. temp' \in FileContents /\ 0 \in 0 .. Capacity[MAX_LEVELS]
  BY <1>1, <1>2, TypeFacts, NewFileType
<1>4. TypeOK'
  BY <1>1, <1>2, <1>3 DEF TypeOK, Starting
<1>5. SizesWithinCapacity' /\ BufferFits'
  BY <1>1 DEF SizeInv, SizesWithinCapacity, BufferFits
<1>6. Child' = Child /\ Output' = Output
  BY <1>1, ChildSame
<1>7. Len(Output) \in Nat
  BY <1>1, <1>2, OutputType
<1> HIDE DEF Child, Output
<1>8. RoomForBoth' /\ WriteFits'
  <2>1. 0 <= Len(Output)
    BY <1>7
  <2> QED
    BY <1>1, <1>6, <2>1 DEF SizeInv, RoomForBoth, WriteFits, Window
<1>9. AtRest'
  BY <1>1 DEF AtRest, Starting
<1>10. Sizes'
  BY <1>1, SizesSame DEF SizeInv, Window, Starting
<1> QED
  BY <1>4, <1>5, <1>8, <1>9, <1>10 DEF SizeInv

LEMMA WriteSizes ==
  ASSUME ~ IsFile(NoFile), SizeInv, CInv, Write
  PROVE  SizeInv'
<1>1. /\ pc = "write" /\ pc' = "write" /\ written < Len(Output) /\ written' = written + 1
      /\ temp' = [temp EXCEPT ![written + 1] = Output[written + 1]]
      /\ UNCHANGED <<file, meta_file, meta, curr_size, buffer, at, top, struck, commands, kills>>
  BY DEF Write, bounds, metadata
<1>2. TypeOK /\ at \in Levels /\ FilesExist /\ temp # NoFile
  BY <1>1 DEF SizeInv, CInv, Position, TempExists, Starting
<1>3. Output \in Seq(Entry) /\ Len(Output) \in Nat /\ Len(Output) <= Capacity[MAX_LEVELS]
  BY <1>1, <1>2, OutputType
<1>4. Child' = Child /\ Output' = Output
  BY <1>1, ChildSame
<1> HIDE DEF Child, Output
<1>5. written + 1 \in 1 .. Len(Output) /\ written + 1 \in 0 .. Capacity[MAX_LEVELS]
  BY <1>1, <1>2, <1>3, TypeFacts
<1>6. temp' \in FileContents
  <2>1. temp \in [1 .. Capacity[MAX_LEVELS] -> Entry]
    BY <1>2, TypeFacts, WholeFile DEF CInv, TempExists
  <2>2. Output[written + 1] \in Entry
    BY <1>3, <1>5, ElementOfSeq
  <2> QED
    BY <1>1, <2>1, <2>2 DEF FileContents
<1>7. TypeOK'
  BY <1>1, <1>2, <1>5, <1>6 DEF TypeOK, Starting
<1>8. SizesWithinCapacity' /\ BufferFits'
  BY <1>1 DEF SizeInv, SizesWithinCapacity, BufferFits
<1>9. RoomForBoth'
  BY <1>1, <1>4 DEF SizeInv, RoomForBoth
<1>10. WriteFits'
  <2>1. written + 1 <= Len(Output)
    BY <1>3, <1>5
  <2> QED
    BY <1>1, <1>4, <2>1 DEF WriteFits, Window
<1>11. AtRest'
  BY <1>1 DEF AtRest, Starting
<1>12. Sizes'
  BY <1>1, SizesSame DEF SizeInv, Window, Starting
<1> QED
  BY <1>7, <1>8, <1>9, <1>10, <1>11, <1>12 DEF SizeInv

LEMMA RecordSizeSizes ==
  ASSUME SizeInv, CInv, RecordSize
  PROVE  SizeInv'
<1>1. /\ pc = "write" /\ pc' \in {"zero", "remove"} /\ written = Len(Output)
      /\ curr_size' = [curr_size EXCEPT ![at] = written]
      /\ meta' = [meta EXCEPT ![at] = written]
      /\ struck' \subseteq struck \cup {at}
      /\ UNCHANGED <<file, temp, meta_file, buffer, at, top, written, commands, kills>>
  BY DEF RecordSize, bounds
<1>2. TypeOK /\ at \in Levels /\ FilesExist
  BY <1>1 DEF SizeInv, CInv, Position, Starting
<1>3. written \in Nat /\ written <= Capacity[at]
  BY <1>1, <1>2, OutputType
<1>4. /\ curr_size' \in [Levels -> Nat] /\ meta' \in [Levels -> Nat]
      /\ curr_size'[at] = written /\ meta'[at] = written
      /\ \A i \in Levels : i # at => curr_size'[i] = curr_size[i] /\ meta'[i] = meta[i]
  BY <1>1, <1>2, <1>3, TypeFacts
<1>5. TypeOK'
  <2>1. struck' \subseteq Levels
    BY <1>1, <1>2, TypeFacts
  <2>2. pc' \in {"down", "idle", "enter", "temp", "write"} \cup Starting \cup Window
    BY <1>1 DEF Window
  <2> QED
    BY <1>1, <1>2, <1>4, <2>1, <2>2 DEF TypeOK, Starting
<1>6. SizesWithinCapacity' /\ BufferFits'
  BY <1>1, <1>3, <1>4 DEF SizeInv, SizesWithinCapacity, BufferFits
<1>7. AtRest' /\ RoomForBoth' /\ WriteFits'
  BY <1>1, <1>4 DEF AtRest, RoomForBoth, WriteFits, Starting
<1>8. Sizes'
  <2>1. \A i \in Levels : i # at /\ file'[i] = <<>> => curr_size'[i] = 0
    BY <1>1, <1>4 DEF SizeInv, Sizes, NothingInEmpty, Window
  <2> QED
    BY <1>1, <2>1 DEF Sizes, Unknown, Known, NothingInEmpty, Starting, Window
<1> QED
  BY <1>5, <1>6, <1>7, <1>8 DEF SizeInv

LEMMA RecordZeroSizes ==
  ASSUME SizeInv, CInv, RecordZero
  PROVE  SizeInv'
<1>1. /\ pc = "zero" /\ pc' = "remove" /\ meta' = [meta EXCEPT ![at - 1] = 0]
      /\ UNCHANGED <<file, temp, meta_file, curr_size, buffer, at, top, written, struck, commands, kills>>
  BY DEF RecordZero, bounds
<1>2. TypeOK /\ at \in Levels /\ SizesWithinCapacity /\ WriteFits
  BY <1>1 DEF SizeInv, CInv, Position, Window, Starting
<1>3. /\ meta' \in [Levels -> Nat] /\ meta'[at] = meta[at]
      /\ \A i \in Levels : meta'[i] = 0 \/ meta'[i] = meta[i]
  <2>1. at # at - 1
    BY <1>2, LevelsType
  <2> QED
    BY <1>1, <1>2, <2>1, TypeFacts
<1>4. TypeOK'
  BY <1>1, <1>2, <1>3 DEF TypeOK, Window, Starting
<1>5. SizesWithinCapacity'
  <2>1. \A i \in Levels : 0 <= Capacity[i]
    BY CapacityFacts
  <2> QED
    BY <1>1, <1>2, <1>3, <2>1 DEF SizesWithinCapacity
<1>6. BufferFits' /\ AtRest' /\ RoomForBoth' /\ WriteFits'
  BY <1>1, <1>2, <1>3 DEF SizeInv, BufferFits, AtRest, RoomForBoth, WriteFits, Window, Starting
<1>7. Sizes'
  BY <1>1 DEF SizeInv, Sizes, Unknown, Known, NothingInEmpty, Starting, Window
<1> QED
  BY <1>4, <1>5, <1>6, <1>7 DEF SizeInv

LEMMA RemoveSizes ==
  ASSUME SizeInv, Remove
  PROVE  SizeInv'
<1>1. /\ pc = "remove" /\ pc' = "rename" /\ file' = [file EXCEPT ![at] = NoFile]
      /\ UNCHANGED <<temp, meta_file, meta, curr_size, buffer, at, top, written, struck, commands, kills>>
  BY DEF Remove, bounds, metadata
<1>2. TypeOK /\ SizesWithinCapacity /\ WriteFits
  BY DEF SizeInv
<1>3. file' \in [Levels -> FileContents]
  <2>1. NoFile \in FileContents
    BY DEF FileContents
  <2> QED
    BY <1>1, <1>2, <2>1, TypeFacts
<1>4. TypeOK'
  BY <1>1, <1>2, <1>3 DEF TypeOK, Window, Starting
<1>5. SizesWithinCapacity' /\ BufferFits'
  BY <1>1, <1>2 DEF SizeInv, SizesWithinCapacity, BufferFits
<1>6. AtRest' /\ RoomForBoth' /\ WriteFits'
  BY <1>1, <1>2 DEF AtRest, RoomForBoth, WriteFits, Window, Starting
<1>7. Sizes'
  <2>1. \A i \in Levels : i # at => file'[i] = file[i]
    BY <1>1, <1>2, TypeFacts
  <2>2. \A i \in Levels : i # at /\ file[i] = <<>> => curr_size[i] = 0
    BY DEF SizeInv, Sizes, NothingInEmpty
  <2> QED
    BY <1>1, <2>1, <2>2 DEF Sizes, Unknown, Known, NothingInEmpty, Starting, Window
<1> QED
  BY <1>4, <1>5, <1>6, <1>7 DEF SizeInv

(* The level that an outer merge goes on with is empty now, so that there  *)
(* is room for what is above it.                                           *)
LEMMA RenameSizes ==
  ASSUME ~ IsFile(NoFile), SizeInv, CInv, Rename
  PROVE  SizeInv'
<1>1. /\ pc = "rename" /\ temp' = NoFile /\ file' = [file EXCEPT ![at] = temp]
      /\ curr_size' = [i \in Levels |-> IF i = at - 1 THEN 0 ELSE curr_size[i]]
      /\ buffer' = (IF at = 1 THEN Empty ELSE buffer) /\ written' = 0
      /\ IF at = top THEN pc' = "idle" /\ at' = 0 /\ top' = 0
         ELSE pc' = "temp" /\ at' = at - 1 /\ top' = top
      /\ UNCHANGED <<meta_file, meta, struck, commands, kills>>
  BY DEF Rename, bounds, metadata
<1>2. TypeOK /\ SizesWithinCapacity /\ at \in Levels /\ top \in 1 .. at /\ temp # NoFile
  BY <1>1 DEF SizeInv, CInv, Position, Window, TempExists, Starting
<1>3. CInv'
  BY RenameKeeps
<1>4. /\ file' \in [Levels -> FileContents] /\ NoFile \in FileContents
      /\ curr_size' \in [Levels -> Nat]
      /\ \A i \in Levels : curr_size'[i] <= curr_size[i] /\ curr_size'[i] <= Capacity[i]
  <2>1. NoFile \in FileContents
    BY DEF FileContents
  <2>2. \A i \in Levels : curr_size[i] \in Nat /\ curr_size[i] <= Capacity[i] /\ Capacity[i] \in Nat
    BY <1>2, CapacityFacts DEF TypeOK, SizesWithinCapacity, Starting
  <2>3. \A i \in Levels : curr_size'[i] = 0 \/ curr_size'[i] = curr_size[i]
    BY <1>1
  <2> QED
    BY <1>1, <1>2, <2>1, <2>2, <2>3, TypeFacts
<1>5. buffer' \in Run /\ Size(buffer') <= BUFFER_CAPACITY
  <2>1. Size(Empty) <= BUFFER_CAPACITY
    BY EmptyRun, CapacityFacts
  <2> QED
    BY <1>1, <2>1, EmptyRun DEF SizeInv, TypeOK, BufferFits, Starting
<1>6. at' \in 0 .. MAX_LEVELS /\ top' \in 0 .. at' /\ 0 \in 0 .. Capacity[MAX_LEVELS]
  <2>1. at \in 1 .. MAX_LEVELS /\ MAX_LEVELS \in Nat /\ Capacity[MAX_LEVELS] \in Nat
    BY <1>2, TypeFacts
  <2> QED
    BY <1>1, <1>2, <2>1
<1>7. TypeOK'
  BY <1>1, <1>2, <1>4, <1>5, <1>6 DEF TypeOK, Starting
<1>8. SizesWithinCapacity' /\ BufferFits'
  BY <1>1, <1>2, <1>4, <1>5 DEF SizesWithinCapacity, BufferFits
<1>9. NothingInEmpty'
  <2>1. temp # <<>>
    BY <1>2, TypeFacts, WholeFile DEF CInv, TempExists
  <2>2. \A i \in Levels : file'[i] = <<>> => i # at /\ file[i] = <<>>
    BY <1>1, <1>2, <2>1, TypeFacts
  <2>3. \A i \in Levels : i # at /\ file[i] = <<>> => curr_size[i] = 0
    BY DEF SizeInv, Sizes, NothingInEmpty
  <2> QED
    BY <1>1, <2>2, <2>3 DEF NothingInEmpty
<1>10. RoomForBoth'
  <2> SUFFICES ASSUME pc' = "temp"
               PROVE  curr_size'[at'] + Len(Child') <= Capacity[at']
    BY <1>1 DEF RoomForBoth
  <2>1. at' = at - 1 /\ at' \in Levels
    BY <1>1, <1>2, LevelsType
  <2>2. curr_size'[at'] = 0
    BY <1>1, <2>1
  <2>3. \/ ~ (TypeOK /\ SizesWithinCapacity /\ BufferFits /\ NothingInEmpty /\ FilesExist /\ at \in Levels
               /\ pc \in {"enter", "temp", "write"})
        \/ Len(Child) \in Nat /\ Len(Child) <= Capacity[at]
    BY ChildType
  <2>4. \/ ~ (TypeOK /\ SizesWithinCapacity /\ BufferFits /\ NothingInEmpty /\ FilesExist /\ at \in Levels
               /\ pc \in {"enter", "temp", "write"})'
        \/ (Len(Child) \in Nat /\ Len(Child) <= Capacity[at])'
    BY ChildType, PTL
  <2>5. Len(Child') \in Nat /\ Len(Child') <= Capacity[at']
    BY <1>3, <1>7, <1>8, <1>9, <2>1, <2>4 DEF CInv
  <2> HIDE DEF Child
  <2>6. Capacity[at'] \in Nat
    BY <2>1, CapacityFacts
  <2> QED
    BY <2>2, <2>5, <2>6
<1>11. AtRest' /\ WriteFits'
  BY <1>1 DEF AtRest, WriteFits, Window, Starting
<1>12. Sizes'
  BY <1>1, <1>9 DEF Sizes, Unknown, Known, Starting
<1> QED
  BY <1>7, <1>8, <1>10, <1>11, <1>12 DEF SizeInv

LEMMA GoneSizes ==
  ASSUME SizeInv, Gone, UNCHANGED files, commands' = commands, kills' \in 0 .. MaxKills,
         struck' \subseteq Levels
  PROVE  SizeInv'
<1>1. /\ curr_size' = [i \in Levels |-> 0] /\ buffer' = Empty
      /\ pc' = "down" /\ at' = 0 /\ top' = 0 /\ written' = 0
      /\ UNCHANGED <<file, temp, meta_file, meta>>
  BY DEF Gone, files, metadata
<1>2. TypeOK /\ SizesWithinCapacity
  BY DEF SizeInv
<1>3. /\ 0 \in 0 .. MAX_LEVELS /\ 0 \in 0 .. 0 /\ 0 \in 0 .. Capacity[MAX_LEVELS]
      /\ curr_size' \in [Levels -> Nat]
  BY <1>1, <1>2, TypeFacts
<1>4. TypeOK'
  BY <1>1, <1>2, <1>3, EmptyRun DEF TypeOK, Starting
<1>5. SizesWithinCapacity' /\ BufferFits'
  <2>1. Size(Empty) <= BUFFER_CAPACITY /\ \A i \in Levels : 0 <= Capacity[i]
    BY EmptyRun, CapacityFacts
  <2> QED
    BY <1>1, <1>2, <2>1 DEF SizesWithinCapacity, BufferFits
<1>6. AtRest' /\ RoomForBoth' /\ WriteFits'
  BY <1>1 DEF AtRest, RoomForBoth, WriteFits, Window, Starting
<1>7. Sizes'
  BY <1>1 DEF Sizes, Unknown, NothingInEmpty
<1> QED
  BY <1>4, <1>5, <1>6, <1>7 DEF SizeInv

LEMMA InitSizes ==
  ASSUME Init
  PROVE  SizeInv
<1>1. /\ file = [i \in Levels |-> NoFile] /\ temp = NoFile /\ meta_file = "none"
      /\ meta = [i \in Levels |-> 0] /\ curr_size = [i \in Levels |-> 0]
      /\ buffer = Empty /\ pc = "down" /\ at = 0 /\ top = 0 /\ written = 0
      /\ struck = {} /\ commands = 0 /\ kills = 0
  BY DEF Init
<1>2. /\ 0 \in 0 .. MAX_LEVELS /\ 0 \in 0 .. 0 /\ 0 \in 0 .. Capacity[MAX_LEVELS]
      /\ 0 \in 0 .. MaxCommands /\ 0 \in 0 .. MaxKills /\ NoFile \in FileContents
  BY LevelsType, LevelsAssumption, CapacityFacts DEF FileContents
<1>3. TypeOK
  BY <1>1, <1>2, EmptyRun DEF TypeOK, Starting
<1>4. SizesWithinCapacity /\ BufferFits
  <2>1. Size(Empty) <= BUFFER_CAPACITY /\ \A i \in Levels : 0 <= Capacity[i]
    BY EmptyRun, CapacityFacts
  <2> QED
    BY <1>1, <2>1 DEF SizesWithinCapacity, BufferFits
<1>5. AtRest /\ RoomForBoth /\ WriteFits
  BY <1>1 DEF AtRest, RoomForBoth, WriteFits, Window, Starting
<1>6. Sizes
  BY <1>1 DEF Sizes, Unknown, NothingInEmpty
<1> QED
  BY <1>3, <1>4, <1>5, <1>6 DEF SizeInv

LEMMA KilledLevels ==
  ASSUME TypeOK, Kill
  PROVE  struck' \subseteq Levels /\ kills' \in 0 .. MaxKills /\ commands' = commands
<1>1. /\ kills < MaxKills /\ kills' = kills + 1 /\ commands' = commands
      /\ struck' = IF pc \in Window THEN struck \cup ({at - 1, at} \cap Levels) ELSE struck
  BY DEF Kill
<1> QED
  BY <1>1, TypeFacts

LEMMA NextSizes ==
  ASSUME ~ IsFile(NoFile), SizeInv, CInv, [Next]_vars
  PROVE  SizeInv'
<1>1. CASE CreateMetadata \/ ExtendMetadata \/ Start \/ Create \/ Reuse \/ Extend
  BY <1>1, StartSizes, CreateSizes, StartedSizes
<1>2. CASE \E run \in Run : Flush(run)
  BY <1>2, FlushSizes
<1>3. CASE \E i \in 1 .. (MAX_LEVELS - 1) : MergeLevel(i)
  BY <1>3, MergeLevelSizes
<1>4. CASE Cascade \/ Fits \/ OpenTemp \/ Write
  BY <1>4, CascadeSizes, FitsSizes, OpenSizes, WriteSizes
<1>5. CASE RecordSize \/ RecordZero \/ Remove \/ Rename
  BY <1>5, RecordSizeSizes, RecordZeroSizes, RemoveSizes, RenameSizes
<1>6. CASE DatabaseFull \/ StartFails \/ RecordFails
  <2>1. Gone /\ UNCHANGED files /\ struck' = struck /\ commands' = commands /\ kills' = kills
    BY <1>6 DEF DatabaseFull, StartFails, RecordFails, bounds
  <2>2. struck' \subseteq Levels /\ kills' \in 0 .. MaxKills
    BY <2>1 DEF SizeInv, TypeOK, Starting
  <2> QED
    BY <2>1, <2>2, GoneSizes
<1>7. CASE Kill
  <2>1. Gone /\ UNCHANGED files
    BY <1>7 DEF Kill
  <2>2. TypeOK
    BY DEF SizeInv
  <2> QED
    BY <1>7, <2>1, <2>2, KilledLevels, GoneSizes
<1>8. CASE UNCHANGED vars
  <2>1. /\ UNCHANGED <<file, temp, meta_file, meta, curr_size, buffer, pc, at, top, written>>
        /\ UNCHANGED <<struck, commands, kills>>
    BY <1>8 DEF vars, files, memory, bounds, metadata
  <2>2. Child' = Child /\ Output' = Output
    BY <2>1, ChildSame
  <2> HIDE DEF Child, Output
  <2>3. TypeOK'
    BY <2>1 DEF SizeInv, TypeOK, Starting
  <2>4. Sizes'
    BY <2>1 DEF SizeInv, Sizes, Unknown, Known, NothingInEmpty
  <2>5. SizesWithinCapacity' /\ BufferFits' /\ AtRest' /\ RoomForBoth' /\ WriteFits'
    BY <2>1, <2>2 DEF SizeInv, SizesWithinCapacity, BufferFits, AtRest, RoomForBoth, WriteFits, Starting
  <2> QED
    BY <2>3, <2>4, <2>5 DEF SizeInv
<1> QED
  BY <1>1, <1>2, <1>3, <1>4, <1>5, <1>6, <1>7, <1>8 DEF Next, Startup, Merge

LEMMA InitCInv ==
  ASSUME Init
  PROVE  CInv
BY LevelsType DEF Init, CInv, Position, FilesStarted, FilesExist, TempExists, Window, Starting

(* The files hold arrays of entries or unwritten bytes, the sizes count    *)
(* them, and a merge is at one of the levels that it may be at.            *)
THEOREM CrashTypeCorrect ==
  ASSUME ~ IsFile(NoFile)
  PROVE  Spec => []TypeOK
<1>1. Init => CInv /\ SizeInv
  BY InitCInv, InitSizes
<1>2. CInv /\ SizeInv /\ [Next]_vars => CInv' /\ SizeInv'
  BY NextCInv, NextSizes
<1>3. SizeInv => TypeOK
  BY DEF SizeInv
<1> QED
  BY <1>1, <1>2, <1>3, PTL DEF Spec

(* However often and wherever processes are killed, no level counts more   *)
(* entries than it has room for: the unsigned difference in level::merge() *)
(* does not wrap in any later process, not even over damaged files.        *)
THEOREM CrashSizesCorrect ==
  ASSUME ~ IsFile(NoFile)
  PROVE  Spec => []SizesWithinCapacity
<1>1. Init => CInv /\ SizeInv
  BY InitCInv, InitSizes
<1>2. CInv /\ SizeInv /\ [Next]_vars => CInv' /\ SizeInv'
  BY NextCInv, NextSizes
<1>3. SizeInv => SizesWithinCapacity
  BY DEF SizeInv
<1> QED
  BY <1>1, <1>2, <1>3, PTL DEF Spec

-----------------------------------------------------------------------------
(* Contents: what the files of the levels hold that no kill has struck.    *)

(* A merge between its metadata and its rename is about this level.        *)
Merging(i) == pc \in Window /\ i \in {at - 1, at}

(* Nothing of a level counts that has no file, or none with a byte; a file *)
(* begins with a sorted array of the size in the metadata, and in memory   *)
(* the size is the same.                                                   *)
Intact(i) == ~ Merging(i) => /\ file[i] \in {NoFile, <<>>} => meta[i] = 0
                             /\ file[i] # NoFile => IsArray(SubSeq(file[i], 1, meta[i]))
                             /\ Known(i) => curr_size[i] = meta[i]

Undamaged == \A i \in Levels \ struck : Intact(i)

(* How far a merge is.                                                     *)
MergeProgress ==
  /\ pc = "write" => \A p \in 1 .. written : temp[p] = Output[p]
  /\ pc = "zero" => at > 1
  /\ pc \in {"remove", "rename"} /\ at > 1 => meta[at - 1] = 0
  /\ pc \in Window => at - 1 \notin struck
  /\ pc \in Window /\ at \notin struck => IsArray(SubSeq(temp, 1, written))

Contents == Undamaged /\ MergeProgress

LEMMA NothingCounted ==
  ASSUME NEW f
  PROVE  IsArray(SubSeq(f, 1, 0)) /\ RunOf(SubSeq(f, 1, 0)) = Empty
<1>1. SubSeq(f, 1, 0) = <<>>
  BY SubSeqEmpty
<1> QED
  BY <1>1, EmptyArray

LEMMA IntactSame ==
  ASSUME NEW i, Intact(i),
         file'[i] = file[i], meta'[i] = meta[i], curr_size'[i] = curr_size[i],
         Merging(i) => Merging(i)', Known(i)' => Known(i)
  PROVE  Intact(i)'
<1>1. CASE Merging(i)'
  BY <1>1 DEF Intact
<1>2. CASE ~ Merging(i)'
  <2>1. /\ file[i] \in {NoFile, <<>>} => meta[i] = 0
        /\ file[i] # NoFile => IsArray(SubSeq(file[i], 1, meta[i]))
        /\ Known(i) => curr_size[i] = meta[i]
    BY <1>2 DEF Intact
  <2>2. /\ file'[i] \in {NoFile, <<>>} => meta'[i] = 0
        /\ file'[i] # NoFile => IsArray(SubSeq(file'[i], 1, meta'[i]))
    BY <2>1
  <2>3. Known(i)' => curr_size'[i] = meta'[i]
    BY <2>1
  <2> QED
    BY <2>2, <2>3 DEF Intact
<1> QED
  BY <1>1, <1>2

(* Steps that leave files, metadata, sizes and damage as they are.         *)
LEMMA UndamagedSame ==
  ASSUME Undamaged, UNCHANGED <<file, meta, curr_size, struck>>,
         \A i \in Levels : Merging(i) => Merging(i)',
         \A i \in Levels : Known(i)' => Known(i)
  PROVE  Undamaged'
<1> SUFFICES ASSUME NEW i \in Levels, i \notin struck'
             PROVE  Intact(i)'
  BY DEF Undamaged
<1>1. Intact(i)
  BY DEF Undamaged
<1>2. file'[i] = file[i] /\ meta'[i] = meta[i] /\ curr_size'[i] = curr_size[i]
  OBVIOUS
<1> QED
  BY <1>1, <1>2, IntactSame

(* A start may forget the size of the last level, and no other.            *)
LEMMA StartContents ==
  ASSUME Contents, SizeInv, CreateMetadata \/ ExtendMetadata \/ Start
  PROVE  Contents'
<1>1. /\ pc \in {"down", "metadata"} /\ pc' \in {"metadata", "start"}
      /\ pc' = "start" => at' = 1
      /\ UNCHANGED <<file, temp, curr_size, written, struck>>
  BY DEF CreateMetadata, ExtendMetadata, Start
<1>2. \A i \in Levels : ~ Merging(i) /\ ~ Merging(i)' /\ ~ Known(i)'
  BY <1>1, LevelsType DEF Merging, Known, Starting, Window
<1>3. ASSUME NEW i \in Levels
      PROVE  meta'[i] \in {meta[i], 0}
  <2>1. meta \in [Levels -> Nat] /\ MAX_LEVELS \in Levels
    BY TypeFacts, LevelsType DEF SizeInv
  <2> QED
    BY <2>1 DEF CreateMetadata, ExtendMetadata, Start
<1>4. ASSUME NEW i \in Levels, i \notin struck'
      PROVE  Intact(i)'
  <2>1. /\ file[i] \in {NoFile, <<>>} => meta[i] = 0
        /\ file[i] # NoFile => IsArray(SubSeq(file[i], 1, meta[i]))
    BY <1>1, <1>2, <1>4 DEF Contents, Undamaged, Intact
  <2>2. IsArray(SubSeq(file[i], 1, 0))
    BY NothingCounted
  <2>3. /\ file[i] \in {NoFile, <<>>} => meta'[i] = 0
        /\ file[i] # NoFile => IsArray(SubSeq(file[i], 1, meta'[i]))
    <3>1. CASE meta'[i] = meta[i]
      BY <2>1, <3>1
    <3>2. CASE meta'[i] = 0
      BY <2>2, <3>2
    <3> QED
      BY <1>3, <3>1, <3>2
  <2>4. /\ file'[i] \in {NoFile, <<>>} => meta'[i] = 0
        /\ file'[i] # NoFile => IsArray(SubSeq(file'[i], 1, meta'[i]))
    BY <1>1, <2>3
  <2> QED
    BY <1>2, <2>4 DEF Intact
<1>5. Undamaged'
  BY <1>4 DEF Undamaged
<1>6. MergeProgress'
  BY <1>1 DEF MergeProgress, Window
<1> QED
  BY <1>5, <1>6 DEF Contents

(* A level that has no file gets one, and nothing of it counts.            *)
LEMMA CreateContents ==
  ASSUME Contents, SizeInv, CInv, Create
  PROVE  Contents'
<1>1. /\ pc = "start" /\ pc' = "extend" /\ at \in Levels /\ file[at] = NoFile
      /\ file' = [file EXCEPT ![at] = <<>>]
      /\ UNCHANGED <<temp, meta, curr_size, at, written, struck>>
  BY DEF Create, metadata, CInv, Position
<1>2. \A i \in Levels : ~ Merging(i) /\ ~ Merging(i)' /\ (Known(i)' <=> Known(i))
  BY <1>1 DEF Merging, Known, Starting, Window
<1>3. file \in [Levels -> FileContents]
  BY TypeFacts DEF SizeInv
<1>4. ASSUME NEW i \in Levels, i \notin struck'
      PROVE  Intact(i)'
  <2>1. Intact(i)
    BY <1>1, <1>4 DEF Contents, Undamaged
  <2>2. CASE i # at
    <3>1. file'[i] = file[i] /\ meta'[i] = meta[i] /\ curr_size'[i] = curr_size[i]
      BY <1>1, <1>3, <2>2
    <3> QED
      BY <1>2, <2>1, <3>1, IntactSame
  <2>3. CASE i = at
    <3>1. meta[i] = 0 /\ ~ Known(i)
      BY <1>1, <1>2, <2>1, <2>3, LevelsType DEF Intact, Known, Starting
    <3>2. IsArray(SubSeq(file'[i], 1, 0))
      BY NothingCounted
    <3>3. IsArray(SubSeq(file'[i], 1, meta'[i])) /\ meta'[i] = 0
      BY <1>1, <3>1, <3>2
    <3> QED
      BY <1>2, <3>1, <3>3 DEF Intact
  <2> QED
    BY <2>2, <2>3
<1>5. Undamaged'
  BY <1>4 DEF Undamaged
<1>6. MergeProgress'
  BY <1>1 DEF MergeProgress, Window
<1> QED
  BY <1>5, <1>6 DEF Contents

(* A level that has a file gets its size from the metadata; one whose file *)
(* is new stays empty.                                                     *)
LEMMA StartedContents ==
  ASSUME ~ IsFile(NoFile), Contents, SizeInv, CInv, Reuse \/ Extend
  PROVE  Contents'
<1>1. /\ pc \in {"start", "extend"} /\ at \in Levels
      /\ IF at < MAX_LEVELS THEN at' = at + 1 /\ pc' = "start" ELSE at' = 0 /\ pc' = "idle"
      /\ UNCHANGED <<temp, meta, written, struck>>
  BY DEF Reuse, Extend, Started, metadata, CInv, Position
<1>2. /\ file \in [Levels -> FileContents] /\ curr_size \in [Levels -> Nat]
  BY TypeFacts DEF SizeInv
<1>3. \A i \in Levels : ~ Merging(i) /\ ~ Merging(i)'
  BY <1>1 DEF Merging, Window
<1>4. \A i \in Levels : Known(i)' <=> Known(i) \/ i = at
  BY <1>1, LevelsType DEF Known, Starting
<1>5. ~ Known(at)
  BY <1>1, LevelsType DEF Known, Starting
<1>6. ASSUME NEW i \in Levels, i # at
      PROVE  file'[i] = file[i] /\ curr_size'[i] = curr_size[i]
  BY <1>1, <1>2, <1>6 DEF Reuse, Extend
<1>7. ASSUME NEW i \in Levels, i \notin struck, i # at
      PROVE  Intact(i)'
  <2>1. Intact(i)
    BY <1>7 DEF Contents, Undamaged
  <2>2. Known(i)' => Known(i)
    BY <1>4, <1>7
  <2> QED
    BY <1>1, <1>3, <1>6, <1>7, <2>1, <2>2, IntactSame
<1>8. ASSUME NEW i \in Levels, i \notin struck, i = at
      PROVE  Intact(i)'
  <2>1. /\ file[i] \in {NoFile, <<>>} => meta[i] = 0
        /\ file[i] # NoFile => IsArray(SubSeq(file[i], 1, meta[i]))
    BY <1>3, <1>8 DEF Contents, Undamaged, Intact
  <2>2. CASE Reuse
    <3>1. file[i] # NoFile /\ file' = file /\ curr_size'[i] = meta[i]
      BY <1>1, <1>2, <1>8, <2>2 DEF Reuse
    <3>2. /\ file'[i] # NoFile /\ IsArray(SubSeq(file'[i], 1, meta'[i]))
          /\ curr_size'[i] = meta'[i] /\ (file'[i] \in {NoFile, <<>>} => meta'[i] = 0)
      BY <1>1, <2>1, <3>1
    <3> QED
      BY <3>2 DEF Intact
  <2>3. CASE Extend
    <3>1. file[i] = <<>> /\ file'[i] = NewFile /\ curr_size' = curr_size
      BY <1>1, <1>2, <1>8, <2>3 DEF Extend, CInv, FilesStarted
    <3>2. meta'[i] = 0
      BY <1>1, <2>1, <3>1
    <3>3. curr_size'[i] = 0
      BY <1>5, <1>8, <3>1 DEF SizeInv, Sizes, Unknown
    <3>4. IsArray(SubSeq(file'[i], 1, meta'[i]))
      <4>1. IsArray(SubSeq(file'[i], 1, 0))
        BY NothingCounted
      <4> QED
        BY <3>2, <4>1
    <3> QED
      BY <3>2, <3>3, <3>4 DEF Intact
  <2> QED
    BY <2>2, <2>3
<1>9. Undamaged'
  BY <1>1, <1>7, <1>8 DEF Undamaged
<1>10. MergeProgress'
  BY <1>1 DEF MergeProgress, Window
<1> QED
  BY <1>9, <1>10 DEF Contents

LEMMA CommandContents ==
  ASSUME Contents, NEW i \in Levels, Command(i)
  PROVE  Contents'
<1>1. /\ pc = "idle" /\ pc' = "enter" /\ at' = i
      /\ UNCHANGED <<file, temp, meta, curr_size, written, struck>>
  BY DEF Command, files, metadata
<1>2. \A j \in Levels : ~ Merging(j) /\ Known(j) /\ Known(j)'
  BY <1>1 DEF Merging, Known, Window, Starting
<1>3. Undamaged'
  BY <1>1, <1>2, UndamagedSame DEF Contents
<1>4. MergeProgress'
  BY <1>1, <1>2 DEF Contents, MergeProgress, Window
<1> QED
  BY <1>3, <1>4 DEF Contents

LEMMA EnterContents ==
  ASSUME Contents, Cascade \/ Fits \/ OpenTemp
  PROVE  Contents'
<1>1. /\ pc \in {"enter", "temp"} /\ pc' \in {"enter", "temp", "write"}
      /\ pc' = "write" => written' = 0
      /\ UNCHANGED <<file, meta, curr_size, struck>>
  BY DEF Cascade, Fits, OpenTemp, files, metadata
<1>2. \A j \in Levels : ~ Merging(j) /\ Known(j) /\ Known(j)'
  BY <1>1 DEF Merging, Known, Window, Starting
<1>3. Undamaged'
  BY <1>1, <1>2, UndamagedSame DEF Contents
<1>5. MergeProgress'
  <2>1. \A p \in 1 .. 0 : FALSE
    OBVIOUS
  <2>2. pc' = "write" => \A p \in 1 .. written' : temp'[p] = Output'[p]
    BY <1>1, <2>1
  <2> HIDE DEF Output
  <2> QED
    BY <1>1, <2>2 DEF MergeProgress, Window
<1> QED
  BY <1>3, <1>5 DEF Contents

LEMMA WriteContents ==
  ASSUME ~ IsFile(NoFile), Contents, SizeInv, CInv, Write
  PROVE  Contents'
<1>1. /\ pc = "write" /\ pc' = "write" /\ written < Len(Output) /\ written' = written + 1
      /\ temp' = [temp EXCEPT ![written + 1] = Output[written + 1]]
      /\ UNCHANGED <<file, meta, curr_size, buffer, at, struck>>
  BY DEF Write, metadata
<1>2. TypeOK /\ at \in Levels /\ FilesExist /\ temp # NoFile
  BY <1>1 DEF SizeInv, CInv, Position, TempExists, Starting
<1>3. Len(Output) \in Nat /\ Len(Output) <= Capacity[MAX_LEVELS]
  BY <1>1, <1>2, OutputType
<1>4. Output' = Output
  BY <1>1, ChildSame
<1> HIDE DEF Output
<1>5. \A j \in Levels : ~ Merging(j) /\ Known(j) /\ Known(j)'
  BY <1>1 DEF Merging, Known, Window, Starting
<1>6. Undamaged'
  BY <1>1, <1>5, UndamagedSame DEF Contents
<1>8. ASSUME NEW p \in 1 .. written' PROVE temp'[p] = Output'[p]
  <2>1. temp \in [1 .. Capacity[MAX_LEVELS] -> Entry]
    BY <1>2, TypeFacts, WholeFile DEF CInv, TempExists
  <2>2. written \in Nat /\ Capacity[MAX_LEVELS] \in Nat
    BY <1>2, TypeFacts
  <2>3. p \in 1 .. Capacity[MAX_LEVELS] /\ (p = written + 1 \/ p \in 1 .. written)
    BY <1>1, <1>3, <2>2
  <2>4. \A x \in 1 .. written : temp[x] = Output[x]
    BY <1>1 DEF Contents, MergeProgress
  <2> QED
    BY <1>1, <1>4, <2>1, <2>3, <2>4
<1>9. MergeProgress'
  BY <1>1, <1>8 DEF MergeProgress, Window
<1> QED
  BY <1>6, <1>9 DEF Contents

(* What a merge of levels that no kill has struck reads and writes.        *)
LEMMA EntriesIntact ==
  ASSUME Contents, CInv, NEW i \in Levels, i \notin struck, pc \in {"idle", "enter", "temp", "write"}
  PROVE  /\ file[i] # NoFile /\ curr_size[i] = meta[i]
         /\ Entries(i) = SubSeq(file[i], 1, meta[i]) /\ IsArray(Entries(i))
<1>1. file[i] # NoFile
  BY DEF CInv, FilesExist, Starting
<1>2. ~ Merging(i) /\ Known(i)
  BY DEF Merging, Known, Window, Starting
<1>3. IsArray(SubSeq(file[i], 1, meta[i])) /\ curr_size[i] = meta[i]
  BY <1>1, <1>2 DEF Contents, Undamaged, Intact
<1> QED
  BY <1>1, <1>3 DEF Entries

LEMMA ChildIntact ==
  ASSUME Contents, SizeInv, CInv, pc = "write", at - 1 \notin struck
  PROVE  /\ IsArray(Child)
         /\ at = 1 => RunOf(Child) = buffer
         /\ at # 1 => at - 1 \in Levels /\ Child = Entries(at - 1)
<1>1. at \in Levels
  BY DEF CInv, Position, Starting
<1>2. CASE at = 1
  <2>1. buffer \in Run /\ Child = Array(buffer)
    BY <1>2 DEF SizeInv, TypeOK, Child
  <2> HIDE DEF Child
  <2> QED
    BY <1>2, <2>1, ArrayOfRun
<1>3. CASE at # 1
  <2>1. PICK i \in Levels : i = at - 1
    BY <1>1, <1>3, LevelsType
  <2>2. IsArray(Entries(i))
    BY <2>1, EntriesIntact
  <2>3. Child = Entries(i)
    BY <1>3, <2>1 DEF Child
  <2> HIDE DEF Child, Entries
  <2> QED
    BY <1>3, <2>1, <2>2, <2>3
<1> QED
  BY <1>2, <1>3

LEMMA OutputIntact ==
  ASSUME Contents, SizeInv, CInv, pc = "write", at \notin struck, at - 1 \notin struck
  PROVE  /\ IsArray(Output)
         /\ RunOf(Output) = MergeRuns(RunOf(Entries(at)), RunOf(Child))
<1>1. at \in Levels
  BY DEF CInv, Position, Starting
<1>2. PICK mine : mine = Entries(at)
  OBVIOUS
<1>3. PICK theirs : theirs = Child
  OBVIOUS
<1>4. IsArray(mine)
  <2>1. PICK i \in Levels : i = at
    BY <1>1
  <2>2. IsArray(Entries(i))
    BY <2>1, EntriesIntact
  <2> QED
    BY <1>2, <2>1, <2>2
<1>5. IsArray(theirs)
  BY <1>3, ChildIntact
<1>6. Output = MergeArrays(mine, theirs)
  BY <1>2, <1>3 DEF Output
<1> HIDE DEF Output, Child, Entries
<1> QED
  BY <1>2, <1>3, <1>4, <1>5, <1>6, MergeArraysSorted

(* A merge that has written all has its result at the beginning of the     *)
(* file.                                                                   *)
LEMMA WrittenAll ==
  ASSUME ~ IsFile(NoFile), Contents, SizeInv, CInv, pc = "write", written = Len(Output)
  PROVE  SubSeq(temp, 1, written) = Output
<1>1. TypeOK /\ at \in Levels /\ FilesExist /\ temp # NoFile
  BY DEF SizeInv, CInv, Position, TempExists, Starting
<1>2. Output \in Seq(Entry) /\ Len(Output) \in Nat /\ Len(Output) <= Capacity[MAX_LEVELS]
  BY <1>1, OutputType
<1>3. temp \in FileContents /\ temp # <<>>
  BY <1>1, TypeFacts, WholeFile DEF CInv, TempExists
<1>4. \A p \in 1 .. written : temp[p] = Output[p]
  BY DEF Contents, MergeProgress
<1> HIDE DEF Output
<1>5. /\ SubSeq(temp, 1, written) \in Seq(Entry) /\ Len(SubSeq(temp, 1, written)) = written
      /\ \A p \in 1 .. written : SubSeq(temp, 1, written)[p] = temp[p]
  BY <1>1, <1>2, <1>3, FileSubSeq
<1> DEFINE s == SubSeq(temp, 1, written)
<1>6. s \in Seq(Entry) /\ Len(s) = Len(Output) /\ \A p \in 1 .. Len(s) : s[p] = Output[p]
  BY <1>4, <1>5
<1> HIDE DEF s
<1>7. s = Output
  BY <1>2, <1>6, SeqEqual
<1> QED
  BY <1>7 DEF s

LEMMA RecordSizeContents ==
  ASSUME ~ IsFile(NoFile), Contents, SizeInv, CInv, RecordSize
  PROVE  Contents'
<1>1. /\ pc = "write" /\ written = Len(Output)
      /\ pc' = (IF at > 1 THEN "zero" ELSE "remove")
      /\ curr_size' = [curr_size EXCEPT ![at] = written]
      /\ meta' = [meta EXCEPT ![at] = written]
      /\ struck' = IF {at - 1, at} \cap struck = {} THEN struck
                   ELSE (struck \cup {at}) \ {at - 1}
      /\ UNCHANGED <<file, temp, at, written>>
  BY DEF RecordSize, metadata
<1>2. at \in Levels /\ at \in Int /\ at - 1 # at
  BY <1>1, LevelsType DEF CInv, Position, Starting
<1>3. /\ meta \in [Levels -> Nat] /\ curr_size \in [Levels -> Nat]
  BY TypeFacts DEF SizeInv
<1>4. \A i \in Levels : /\ ~ Merging(i) /\ Known(i)
                        /\ Merging(i)' <=> i \in {at - 1, at}
  BY <1>1 DEF Merging, Known, Window, Starting
<1>5. ASSUME NEW i \in Levels, i \notin struck'
      PROVE  Intact(i)'
  <2>1. CASE i \in {at - 1, at}
    BY <1>4, <2>1 DEF Intact
  <2>2. CASE i \notin {at - 1, at}
    <3>1. i \notin struck
      BY <1>1, <1>5, <2>2
    <3>2. Intact(i)
      BY <3>1 DEF Contents, Undamaged
    <3>3. file'[i] = file[i] /\ meta'[i] = meta[i] /\ curr_size'[i] = curr_size[i]
      BY <1>1, <1>3, <2>2
    <3> QED
      BY <1>4, <3>2, <3>3, IntactSame
  <2> QED
    BY <2>1, <2>2
<1>7. at \notin struck' => at \notin struck /\ at - 1 \notin struck
  BY <1>1, <1>2
<1>8. at - 1 \notin struck'
  BY <1>1
<1>9. at \notin struck' => IsArray(SubSeq(temp, 1, written))
  <2>1. SubSeq(temp, 1, written) = Output
    BY <1>1, WrittenAll
  <2> SUFFICES ASSUME at \notin struck'
               PROVE  IsArray(Output)
    BY <2>1
  <2> QED
    BY <1>1, <1>7, OutputIntact
<1> HIDE DEF Output
<1>10. pc' = "zero" => at > 1
  BY <1>1
<1>11. pc' \in {"remove", "rename"} => ~ (at > 1)
  BY <1>1
<1>12. MergeProgress'
  BY <1>1, <1>8, <1>9, <1>10, <1>11 DEF MergeProgress, Window
<1>13. Undamaged'
  BY <1>5 DEF Undamaged
<1> QED
  BY <1>12, <1>13 DEF Contents

LEMMA RecordZeroContents ==
  ASSUME Contents, SizeInv, CInv, RecordZero
  PROVE  Contents'
<1>1. /\ pc = "zero" /\ pc' = "remove" /\ meta' = [meta EXCEPT ![at - 1] = 0]
      /\ UNCHANGED <<file, temp, curr_size, at, written, struck>>
  BY DEF RecordZero, metadata
<1>2. at \in Levels /\ at > 1 /\ at - 1 \in Levels
  BY <1>1, LevelsType DEF CInv, Position, Contents, MergeProgress, Window, Starting
<1>3. meta \in [Levels -> Nat]
  BY TypeFacts DEF SizeInv
<1>4. \A i \in Levels : Merging(i) <=> Merging(i)'
  BY <1>1 DEF Merging, Window
<1>5. ASSUME NEW i \in Levels, i \notin struck'
      PROVE  Intact(i)'
  <2>1. CASE i \in {at - 1, at}
    <3>1. Merging(i)'
      BY <1>1, <2>1 DEF Merging, Window
    <3> QED
      BY <3>1 DEF Intact
  <2>2. CASE i \notin {at - 1, at}
    <3>1. Intact(i)
      BY <1>1, <1>5 DEF Contents, Undamaged
    <3>2. file'[i] = file[i] /\ meta'[i] = meta[i] /\ curr_size'[i] = curr_size[i]
      BY <1>1, <1>3, <2>2
    <3>3. Known(i)
      BY <1>1 DEF Known, Starting
    <3> QED
      BY <1>4, <3>1, <3>2, <3>3, IntactSame
  <2> QED
    BY <2>1, <2>2
<1>6. Undamaged'
  BY <1>5 DEF Undamaged
<1>8. meta'[at - 1] = 0
  BY <1>1, <1>2, <1>3
<1>9. MergeProgress'
  BY <1>1, <1>8 DEF Contents, MergeProgress, Window
<1> QED
  BY <1>6, <1>9 DEF Contents

LEMMA RemoveContents ==
  ASSUME Contents, SizeInv, CInv, Remove
  PROVE  Contents'
<1>1. /\ pc = "remove" /\ pc' = "rename" /\ file' = [file EXCEPT ![at] = NoFile]
      /\ UNCHANGED <<temp, meta, curr_size, at, written, struck>>
  BY DEF Remove, metadata
<1>2. file \in [Levels -> FileContents]
  BY TypeFacts DEF SizeInv
<1>3. \A i \in Levels : Merging(i) <=> Merging(i)'
  BY <1>1 DEF Merging, Window
<1>4. ASSUME NEW i \in Levels, i \notin struck'
      PROVE  Intact(i)'
  <2>1. CASE i = at
    <3>1. Merging(i)'
      BY <1>1, <2>1 DEF Merging, Window
    <3> QED
      BY <3>1 DEF Intact
  <2>2. CASE i # at
    <3>1. Intact(i)
      BY <1>1, <1>4 DEF Contents, Undamaged
    <3>2. file'[i] = file[i] /\ meta'[i] = meta[i] /\ curr_size'[i] = curr_size[i]
      BY <1>1, <1>2, <2>2
    <3>3. Known(i)
      BY <1>1 DEF Known, Starting
    <3> QED
      BY <1>3, <3>1, <3>2, <3>3, IntactSame
  <2> QED
    BY <2>1, <2>2
<1>5. Undamaged'
  BY <1>4 DEF Undamaged
<1>7. MergeProgress'
  BY <1>1 DEF Contents, MergeProgress, Window
<1> QED
  BY <1>5, <1>7 DEF Contents

LEMMA RenameContents ==
  ASSUME ~ IsFile(NoFile), Contents, SizeInv, CInv, Rename
  PROVE  Contents'
<1>1. /\ pc = "rename" /\ file' = [file EXCEPT ![at] = temp] /\ pc' \in {"idle", "temp"}
      /\ curr_size' = [i \in Levels |-> IF i = at - 1 THEN 0 ELSE curr_size[i]]
      /\ UNCHANGED <<meta, struck>>
  BY DEF Rename, metadata
<1>2. at \in Levels /\ temp \notin {NoFile, <<>>} /\ at # at - 1
  BY <1>1, LevelsType, TypeFacts, WholeFile DEF SizeInv, CInv, Position, Window, TempExists, Starting
<1>3. file \in [Levels -> FileContents] /\ Levels = 1 .. MAX_LEVELS
  BY TypeFacts DEF SizeInv
<1>4. \A i \in Levels : ~ Merging(i)' /\ Known(i) /\ Known(i)'
  BY <1>1 DEF Merging, Known, Window, Starting
<1>5. /\ written = curr_size[at] /\ written = meta[at]
      /\ at > 1 => meta[at - 1] = 0
      /\ at \notin struck => IsArray(SubSeq(temp, 1, written))
  BY <1>1 DEF SizeInv, WriteFits, Contents, MergeProgress, Window
<1>6. ASSUME NEW i \in Levels, i \notin struck'
      PROVE  Intact(i)'
  <2>1. CASE i = at
    <3>1. file'[i] = temp /\ meta'[i] = written /\ curr_size'[i] = written
      BY <1>1, <1>2, <1>3, <1>5, <2>1
    <3>2. file'[i] \notin {NoFile, <<>>} /\ IsArray(SubSeq(file'[i], 1, meta'[i])) /\ curr_size'[i] = meta'[i]
      BY <1>1, <1>2, <1>5, <1>6, <2>1, <3>1
    <3> QED
      BY <3>2 DEF Intact
  <2>2. CASE i = at - 1
    <3>1. at > 1 /\ i # at
      BY <1>2, <1>3, <2>2
    <3>2. file'[i] # NoFile
      BY <1>1, <1>3, <3>1 DEF CInv, FilesExist, Starting
    <3>3. meta'[i] = 0 /\ curr_size'[i] = 0
      BY <1>1, <1>5, <2>2, <3>1
    <3>4. IsArray(SubSeq(file'[i], 1, 0))
      BY NothingCounted
    <3>5. IsArray(SubSeq(file'[i], 1, meta'[i]))
      BY <3>3, <3>4
    <3> QED
      BY <3>2, <3>3, <3>5 DEF Intact
  <2>3. CASE i # at /\ i # at - 1
    <3>1. Intact(i) /\ ~ Merging(i)
      BY <1>1, <1>6, <2>3 DEF Contents, Undamaged, Merging
    <3>2. file'[i] = file[i] /\ meta'[i] = meta[i] /\ curr_size'[i] = curr_size[i]
      BY <1>1, <1>3, <2>3
    <3> QED
      BY <1>4, <3>1, <3>2, IntactSame
  <2> QED
    BY <2>1, <2>2, <2>3
<1>7. Undamaged'
  BY <1>6 DEF Undamaged
<1>9. MergeProgress'
  BY <1>1 DEF MergeProgress, Window
<1> QED
  BY <1>7, <1>9 DEF Contents

(* What a process leaves behind that dies in a merge, or not.              *)
LEMMA GoneContents ==
  ASSUME Contents, SizeInv, Gone, UNCHANGED files,
         pc \in Window => {at - 1, at} \cap Levels \subseteq struck', struck \subseteq struck'
  PROVE  Contents'
<1>1. /\ curr_size' = [i \in Levels |-> 0] /\ pc' = "down"
      /\ UNCHANGED <<file, temp, meta>>
  BY DEF Gone, files, metadata
<1>2. \A i \in Levels : ~ Known(i)' /\ ~ Merging(i)'
  BY <1>1 DEF Known, Merging, Window, Starting
<1>3. ASSUME NEW i \in Levels, i \notin struck'
      PROVE  Intact(i)'
  <2>1. i \notin struck /\ ~ Merging(i)
    BY <1>3 DEF Merging
  <2>2. /\ file[i] \in {NoFile, <<>>} => meta[i] = 0
        /\ file[i] # NoFile => IsArray(SubSeq(file[i], 1, meta[i]))
    BY <2>1 DEF Contents, Undamaged, Intact
  <2>3. /\ file'[i] \in {NoFile, <<>>} => meta'[i] = 0
        /\ file'[i] # NoFile => IsArray(SubSeq(file'[i], 1, meta'[i]))
    BY <1>1, <2>2
  <2> QED
    BY <1>2, <2>3 DEF Intact
<1>4. Undamaged'
  BY <1>3 DEF Undamaged
<1>6. MergeProgress'
  BY <1>1 DEF MergeProgress, Window
<1> QED
  BY <1>4, <1>6 DEF Contents

LEMMA InitContents ==
  ASSUME Init
  PROVE  Contents
<1>1. /\ file = [i \in Levels |-> NoFile] /\ meta = [i \in Levels |-> 0]
      /\ curr_size = [i \in Levels |-> 0] /\ pc = "down"
  BY DEF Init
<1>2. Undamaged
  BY <1>1 DEF Undamaged, Intact, Known, Starting
<1>3. Unknown /\ MergeProgress
  BY <1>1 DEF Unknown, MergeProgress, Window
<1> QED
  BY <1>2, <1>3 DEF Contents

LEMMA NextContents ==
  ASSUME ~ IsFile(NoFile), Contents, SizeInv, CInv, [Next]_vars
  PROVE  Contents'
<1>1. CASE CreateMetadata \/ ExtendMetadata \/ Start \/ Create \/ Reuse \/ Extend
  BY <1>1, StartContents, CreateContents, StartedContents
<1>2. CASE \E run \in Run : Flush(run)
  <2>1. Command(1) /\ 1 \in Levels
    BY <1>2, LevelsType DEF Flush
  <2> QED
    BY <2>1, CommandContents
<1>3. CASE \E i \in 1 .. (MAX_LEVELS - 1) : MergeLevel(i)
  <2>1. PICK i \in 1 .. (MAX_LEVELS - 1) : Command(i + 1)
    BY <1>3 DEF MergeLevel
  <2>2. i + 1 \in Levels
    BY LevelsType
  <2> QED
    BY <2>1, <2>2, CommandContents
<1>4. CASE Cascade \/ Fits \/ OpenTemp \/ Write
  BY <1>4, EnterContents, WriteContents
<1>5. CASE RecordSize \/ RecordZero \/ Remove \/ Rename
  BY <1>5, RecordSizeContents, RecordZeroContents, RemoveContents, RenameContents
<1>6. CASE DatabaseFull \/ StartFails \/ RecordFails
  <2>1. Gone /\ UNCHANGED files /\ struck' = struck /\ pc \notin Window
    BY <1>6 DEF DatabaseFull, StartFails, RecordFails, Window
  <2> QED
    BY <2>1, GoneContents
<1>7. CASE Kill
  <2>1. /\ Gone /\ UNCHANGED files /\ struck \subseteq struck'
        /\ pc \in Window => {at - 1, at} \cap Levels \subseteq struck'
    BY <1>7 DEF Kill
  <2> QED
    BY <2>1, GoneContents
<1>8. CASE UNCHANGED vars
  <2>1. UNCHANGED <<file, temp, meta, curr_size, buffer, pc, at, written, struck>>
    BY <1>8 DEF vars, files, memory, metadata
  <2>2. Output' = Output
    BY <2>1, ChildSame
  <2>3. \A i \in Levels : (Merging(i)' <=> Merging(i)) /\ (Known(i)' <=> Known(i))
    BY <2>1 DEF Merging, Known, Starting
  <2> HIDE DEF Output
  <2>4. Undamaged'
    BY <2>1, <2>3, UndamagedSame DEF Contents
  <2>5. MergeProgress'
    BY <2>1, <2>2, <2>3 DEF Contents, MergeProgress
  <2> QED
    BY <2>4, <2>5 DEF Contents
<1> QED
  BY <1>1, <1>2, <1>3, <1>4, <1>5, <1>6, <1>7, <1>8 DEF Next, Startup, Merge

(* A level that no kill has struck reads of its file, after any number of  *)
(* restarts, what its last merge has written there: a sorted run, of as    *)
(* many entries as level_metadata.data say, and nothing that is left in    *)
(* TEMP.data of a merge that a kill has cut short.                         *)
THEOREM OnlyMergedCorrect ==
  ASSUME ~ IsFile(NoFile)
  PROVE  Spec => []OnlyMergedRead
<1>1. Init => CInv /\ SizeInv /\ Contents
  BY InitCInv, InitSizes, InitContents
<1>2. CInv /\ SizeInv /\ Contents /\ [Next]_vars => CInv' /\ SizeInv' /\ Contents'
  BY NextCInv, NextSizes, NextContents
<1>3. CInv /\ Contents => OnlyMergedRead
  <2> SUFFICES ASSUME CInv, Contents, pc = "idle", NEW i \in Levels, i \notin struck
               PROVE  curr_size[i] = meta[i] /\ Entries(i) = Array(RunOf(Entries(i)))
    BY DEF OnlyMergedRead
  <2>1. PICK a : a = Entries(i)
    OBVIOUS
  <2>2. curr_size[i] = meta[i] /\ IsArray(a)
    BY <2>1, EntriesIntact
  <2>3. /\ RunOf(a) \in Run /\ KeysOf(RunOf(a)) = KeysIn(a)
        /\ \A p \in 1 .. Len(a) : RunOf(a)[a[p].key] = a[p].value
    BY <2>2, RunOfArray
  <2>4. a = Array(RunOf(a))
    BY <2>2, <2>3, FirstOfArray
  <2> QED
    BY <2>1, <2>2, <2>4
<1> QED
  BY <1>1, <1>2, <1>3, PTL DEF Spec

-----------------------------------------------------------------------------
(* The refinement: what the data directory holds for later processes.      *)

Up == pc # "down"
Runs == [i \in Levels |-> View(i)]
Held == IF pc \in Window /\ at = 1 THEN Empty ELSE buffer

DurableStep == [Durable!Next]_<<Up, Runs, Held>>

(* The steps of the durable runs, in the names of this module.             *)
LEMMA DurableActions ==
  /\ Durable!Start <=>
       /\ ~ Up /\ Up' = TRUE /\ Held' = Held
       /\ Runs' \in {Runs, [Runs EXCEPT ![MAX_LEVELS] =
                               IF Runs[MAX_LEVELS] = Lost THEN Lost ELSE Empty]}
  /\ Durable!Fill <=> Up /\ Up' = Up /\ Held' \in Run /\ Runs' = Runs
  /\ Durable!Flush <=>
       /\ Up /\ Up' = Up
       /\ Runs' = [Runs EXCEPT ![1] = IF Lost \in {Runs[1], Held} THEN Lost
                                      ELSE MergeRuns(Runs[1], Held)]
       /\ Held' = Empty
  /\ \A i : Durable!MergeDown(i) <=>
       /\ Up /\ Up' = Up
       /\ Runs' = [Runs EXCEPT ![i] = Empty,
                               ![i + 1] = IF Lost \in {Runs[i + 1], Runs[i]} THEN Lost
                                          ELSE MergeRuns(Runs[i + 1], Runs[i])]
       /\ Held' = Held
  /\ \A i : Durable!Die(i) <=>
       /\ Up /\ Up' = FALSE
       /\ Runs' = [j \in Levels |-> IF i # 0 /\ j \in {i - 1, i} THEN Lost ELSE Runs[j]]
       /\ Held' = Empty
<1>1. Durable!Run = Run /\ Durable!Empty = Empty
  BY DEF Durable!Run, Durable!Stored, Run, Stored, Durable!Empty, Empty
<1>2. ASSUME NEW r, NEW s
      PROVE  Durable!Merged(r, s) = IF Lost \in {r, s} THEN Lost ELSE MergeRuns(r, s)
  BY DEF Durable!Merged, Durable!MergeRuns, MergeRuns
<1>3. Durable!Fill <=> Up /\ Up' = Up /\ Held' \in Run /\ Runs' = Runs
  BY <1>1 DEF Durable!Fill, Up, Runs, Held
<1>4. Durable!Flush <=>
        /\ Up /\ Up' = Up
        /\ Runs' = [Runs EXCEPT ![1] = IF Lost \in {Runs[1], Held} THEN Lost
                                       ELSE MergeRuns(Runs[1], Held)]
        /\ Held' = Empty
  BY <1>1, <1>2 DEF Durable!Flush, Up, Runs, Held
<1>5. ASSUME NEW i
      PROVE  Durable!MergeDown(i) <=>
               /\ Up /\ Up' = Up
               /\ Runs' = [Runs EXCEPT ![i] = Empty,
                                       ![i + 1] = IF Lost \in {Runs[i + 1], Runs[i]} THEN Lost
                                                  ELSE MergeRuns(Runs[i + 1], Runs[i])]
               /\ Held' = Held
  BY <1>1, <1>2 DEF Durable!MergeDown, Up, Runs, Held
<1>6. ASSUME NEW i
      PROVE  Durable!Die(i) <=>
               /\ Up /\ Up' = FALSE
               /\ Runs' = [j \in Levels |-> IF i # 0 /\ j \in {i - 1, i} THEN Lost ELSE Runs[j]]
               /\ Held' = Empty
  BY <1>1 DEF Durable!Die, Up, Runs, Held, Levels
<1>7. Durable!Start <=>
        /\ ~ Up /\ Up' = TRUE /\ Held' = Held
        /\ Runs' \in {Runs, [Runs EXCEPT ![MAX_LEVELS] =
                                IF Runs[MAX_LEVELS] = Lost THEN Lost ELSE Empty]}
  BY <1>1 DEF Durable!Start, Durable!Forgotten, Up, Runs, Held
<1> QED
  BY <1>3, <1>4, <1>5, <1>6, <1>7

LEMMA RunsSame ==
  ASSUME \A i \in Levels : View(i)' = View(i)
  PROVE  Runs' = Runs
BY DEF Runs

LEMMA DurableStutters ==
  ASSUME \A i \in Levels : View(i)' = View(i), Held' = Held, Up' = Up
  PROVE  DurableStep
<1>1. Runs' = Runs
  BY RunsSame
<1> QED
  BY <1>1 DEF DurableStep

(* A level that no merge is completing shows what its file begins with.    *)
LEMMA ViewOfFile ==
  ASSUME NEW i \in Levels, i \notin struck, ~ Merging(i)
  PROVE  View(i) = IF file[i] = NoFile THEN Empty ELSE RunOf(SubSeq(file[i], 1, meta[i]))
BY DEF View, Merging

LEMMA ViewSame ==
  ASSUME NEW i \in Levels, ~ Merging(i), ~ Merging(i)', i \in struck' <=> i \in struck,
         file'[i] = file[i], meta'[i] = meta[i]
  PROVE  View(i)' = View(i)
<1>1. CASE i \in struck
  BY <1>1 DEF View
<1>2. CASE i \notin struck
  <2>1. View(i) = IF file[i] = NoFile THEN Empty ELSE RunOf(SubSeq(file[i], 1, meta[i]))
    BY <1>2, ViewOfFile
  <2>2. View(i)' = IF file'[i] = NoFile THEN Empty ELSE RunOf(SubSeq(file'[i], 1, meta'[i]))
    BY <1>2 DEF View, Merging
  <2> QED
    BY <2>1, <2>2
<1> QED
  BY <1>1, <1>2

(* A start shows what is there, but for the last level's run when its size *)
(* is forgotten.                                                           *)
LEMMA StartDurable ==
  ASSUME Lost \notin Run, Contents, SizeInv, CreateMetadata \/ Start
  PROVE  DurableStep
<1>1. /\ pc = "down" /\ pc' \in {"metadata", "start"} /\ UNCHANGED <<file, buffer, struck>>
  BY DEF CreateMetadata, Start
<1>2. /\ \A i \in Levels : ~ Merging(i) /\ ~ Merging(i)'
      /\ pc \notin Window /\ pc' \notin Window
  BY <1>1 DEF Merging, Window
<1>3. Held' = Held /\ ~ Up /\ Up' = TRUE
  BY <1>1, <1>2 DEF Held, Up
<1>4. MAX_LEVELS \in Levels /\ meta \in [Levels -> Nat]
  BY LevelsType, TypeFacts DEF SizeInv
<1>5. \A i \in Levels : /\ i # MAX_LEVELS => meta'[i] = meta[i]
                        /\ meta'[i] \in {meta[i], 0}
  BY <1>4 DEF CreateMetadata, Start
<1>6. ASSUME NEW i \in Levels, meta'[i] = meta[i]
      PROVE  View(i)' = View(i)
  BY <1>1, <1>2, <1>6, ViewSame
<1>7. ASSUME NEW i \in Levels, meta'[i] = 0
      PROVE  View(i)' = IF View(i) = Lost THEN Lost ELSE Empty
  <2>1. CASE i \in struck
    BY <1>1, <2>1 DEF View
  <2>2. CASE i \notin struck
    <3>1. View(i)' = IF file'[i] = NoFile THEN Empty ELSE RunOf(SubSeq(file'[i], 1, meta'[i]))
      BY <1>1, <1>2, <2>2 DEF View
    <3>2. RunOf(SubSeq(file'[i], 1, 0)) = Empty
      BY NothingCounted
    <3>3. View(i)' = Empty
      BY <1>7, <3>1, <3>2
    <3>4. View(i) \in Run
      <4>1. CASE file[i] = NoFile
        BY <1>2, <2>2, <4>1, ViewOfFile, EmptyRun
      <4>2. CASE file[i] # NoFile
        <5>1. IsArray(SubSeq(file[i], 1, meta[i]))
          BY <1>2, <2>2, <4>2 DEF Contents, Undamaged, Intact
        <5>2. View(i) = RunOf(SubSeq(file[i], 1, meta[i]))
          BY <1>2, <2>2, <4>2, ViewOfFile
        <5> QED
          BY <5>1, <5>2, RunOfArray
      <4> QED
        BY <4>1, <4>2
    <3> QED
      BY <3>3, <3>4
  <2> QED
    BY <2>1, <2>2
<1>8. \A i \in Levels : Runs[i] = View(i) /\ Runs'[i] = View(i)'
  BY DEF Runs
<1>9. Runs = [i \in Levels |-> Runs[i]] /\ Runs' = [i \in Levels |-> Runs'[i]]
  BY DEF Runs
<1>10. CASE meta'[MAX_LEVELS] = meta[MAX_LEVELS]
  <2>1. \A i \in Levels : Runs'[i] = Runs[i]
    BY <1>5, <1>6, <1>8, <1>10
  <2>2. Runs' = Runs
    BY <1>9, <2>1
  <2>3. Durable!Start
    BY <1>3, <2>2, DurableActions
  <2> QED
    BY <2>3 DEF DurableStep, Durable!Next
<1>11. CASE meta'[MAX_LEVELS] = 0
  <2>1. \A i \in Levels : Runs'[i] = IF i # MAX_LEVELS THEN Runs[i]
                                     ELSE IF Runs[i] = Lost THEN Lost ELSE Empty
    BY <1>5, <1>6, <1>7, <1>8, <1>11
  <2>2. Runs' = [Runs EXCEPT ![MAX_LEVELS] = IF Runs[MAX_LEVELS] = Lost THEN Lost ELSE Empty]
    BY <1>4, <1>9, <2>1
  <2>3. Durable!Start
    BY <1>3, <2>2, DurableActions
  <2> QED
    BY <2>3 DEF DurableStep, Durable!Next
<1> QED
  BY <1>4, <1>5, <1>10, <1>11

(* The files that a start creates do not show.                             *)
LEMMA StartedDurable ==
  ASSUME Contents, SizeInv, CInv, ExtendMetadata \/ Reuse \/ Create \/ Extend
  PROVE  DurableStep
<1>1. /\ pc \in Starting /\ pc' \in Starting \cup {"idle"}
      /\ UNCHANGED <<meta, buffer, struck>>
  BY DEF ExtendMetadata, Started, Reuse, Create, Extend, metadata, Starting
<1>2. /\ \A i \in Levels : ~ Merging(i) /\ ~ Merging(i)'
      /\ pc \notin Window /\ pc' \notin Window
  BY <1>1 DEF Merging, Starting, Window
<1>3. Held' = Held /\ Up' = Up
  BY <1>1, <1>2 DEF Held, Up, Starting
<1>4. file \in [Levels -> FileContents]
  BY TypeFacts DEF SizeInv
<1>5. ASSUME NEW i \in Levels
      PROVE  View(i)' = View(i)
  <2>1. CASE file'[i] = file[i]
    BY <1>1, <1>2, <2>1, ViewSame
  <2>2. CASE file'[i] # file[i]
    <3>1. file[i] \in {NoFile, <<>>}
      BY <1>4, <2>2 DEF ExtendMetadata, Reuse, Create, Extend, CInv, FilesStarted
    <3>2. CASE i \in struck
      BY <1>1, <3>2 DEF View
    <3>3. CASE i \notin struck
      <4>1. meta[i] = 0
        BY <1>2, <3>1, <3>3 DEF Contents, Undamaged, Intact
      <4>2. /\ View(i) = IF file[i] = NoFile THEN Empty ELSE RunOf(SubSeq(file[i], 1, meta[i]))
            /\ View(i)' = IF file'[i] = NoFile THEN Empty ELSE RunOf(SubSeq(file'[i], 1, meta'[i]))
        BY <1>1, <1>2, <3>3 DEF View, Merging
      <4>3. /\ RunOf(SubSeq(file[i], 1, 0)) = Empty
            /\ RunOf(SubSeq(file'[i], 1, 0)) = Empty
        BY NothingCounted
      <4> QED
        BY <1>1, <4>1, <4>2, <4>3
    <3> QED
      BY <3>2, <3>3
  <2> QED
    BY <2>1, <2>2
<1> QED
  BY <1>3, <1>5, DurableStutters

(* What does not change a file that shows.                                 *)
LEMMA QuietDurable ==
  ASSUME pc \notin Window, pc' \notin Window, UNCHANGED <<file, meta, struck>>
  PROVE  \A i \in Levels : View(i)' = View(i)
<1> SUFFICES ASSUME NEW i \in Levels
             PROVE  View(i)' = View(i)
  OBVIOUS
<1>1. ~ Merging(i) /\ ~ Merging(i)'
  BY DEF Merging
<1> QED
  BY <1>1, ViewSame

LEMMA FlushDurable ==
  ASSUME NEW run \in Run, Flush(run)
  PROVE  DurableStep
<1>1. /\ pc = "idle" /\ pc' = "enter" /\ buffer' = run /\ UNCHANGED <<file, meta, struck>>
  BY DEF Flush, Command, files, metadata
<1>2. pc \notin Window /\ pc' \notin Window
  BY <1>1 DEF Window
<1>3. Runs' = Runs
  BY <1>1, <1>2, QuietDurable, RunsSame
<1>4. Held' \in Run /\ Up /\ Up' = Up
  BY <1>1, <1>2 DEF Held, Up
<1>5. Durable!Fill
  BY <1>3, <1>4, DurableActions
<1> QED
  BY <1>5 DEF DurableStep, Durable!Next

LEMMA MergingDurable ==
  ASSUME (\E i \in 1 .. (MAX_LEVELS - 1) : MergeLevel(i)) \/ Cascade \/ Fits \/ OpenTemp \/ Write
  PROVE  DurableStep
<1>1. /\ pc \in {"idle", "enter", "temp", "write"} /\ pc' \in {"enter", "temp", "write"}
      /\ UNCHANGED <<file, meta, buffer, struck>>
  BY DEF MergeLevel, Command, Cascade, Fits, OpenTemp, Write, files, metadata
<1>2. pc \notin Window /\ pc' \notin Window
  BY <1>1 DEF Window
<1>3. Held' = Held /\ Up' = Up
  BY <1>1, <1>2 DEF Held, Up
<1> QED
  BY <1>1, <1>2, <1>3, QuietDurable, DurableStutters

(* The metadata are what makes a merge count.                              *)
LEMMA RecordSizeDurable ==
  ASSUME ~ IsFile(NoFile), Lost \notin Run, Contents, SizeInv, CInv, RecordSize
  PROVE  DurableStep
<1>1. /\ pc = "write" /\ written = Len(Output) /\ pc' \in Window
      /\ meta' = [meta EXCEPT ![at] = written]
      /\ struck' = IF {at - 1, at} \cap struck = {} THEN struck
                   ELSE (struck \cup {at}) \ {at - 1}
      /\ UNCHANGED <<file, temp, buffer, at>>
  BY DEF RecordSize, Window
<1>2. /\ at \in Levels /\ at \in Nat /\ at - 1 # at /\ pc \notin Window
      /\ at # 1 => at - 1 \in Levels
      /\ at = 1 => at - 1 \notin Levels
      /\ struck \subseteq Levels /\ meta \in [Levels -> Nat] /\ buffer \in Run
  BY <1>1, LevelsType, TypeFacts DEF CInv, Position, SizeInv, Window
<1>3. ASSUME NEW i \in Levels, i # at, i # at - 1
      PROVE  View(i)' = View(i)
  <2>1. ~ Merging(i) /\ ~ Merging(i)' /\ (i \in struck' <=> i \in struck)
    BY <1>1, <1>2, <1>3 DEF Merging
  <2>2. meta'[i] = meta[i] /\ file'[i] = file[i]
    BY <1>1, <1>2, <1>3
  <2> QED
    BY <2>1, <2>2, ViewSame
<1>4. ASSUME NEW i \in Levels, i = at - 1
      PROVE  View(i)' = Empty
  <2>1. i \notin struck' /\ i # at'
    BY <1>1, <1>2, <1>4
  <2> QED
    BY <1>1, <1>4, <2>1 DEF View
<1>5. ASSUME NEW i \in Levels, i \in struck
      PROVE  View(i) = Lost
  BY <1>5 DEF View
<1>6. ASSUME NEW i \in Levels, i \notin struck
      PROVE  View(i) = RunOf(Entries(i)) /\ View(i) \in Run
  <2>1. file[i] # NoFile /\ Entries(i) = SubSeq(file[i], 1, meta[i]) /\ IsArray(Entries(i))
    BY <1>1, <1>6, EntriesIntact
  <2>2. ~ Merging(i)
    BY <1>2 DEF Merging
  <2>3. View(i) = RunOf(SubSeq(file[i], 1, meta[i]))
    BY <1>6, <2>1, <2>2, ViewOfFile
  <2> HIDE DEF Entries
  <2> QED
    BY <2>1, <2>3, RunOfArray
<1> DEFINE above == IF at = 1 THEN Held ELSE Runs[at - 1]
           merged == IF Lost \in {Runs[at], above} THEN Lost ELSE MergeRuns(Runs[at], above)
<1>7. Held = buffer /\ Up /\ Up' = Up
  BY <1>1, <1>2 DEF Held, Up, Window
<1>8. PICK i \in Levels : i = at
  BY <1>2
<1>9. Runs[i] = View(i)
  BY DEF Runs
<1>10. ASSUME at \in struck \/ at - 1 \in struck
       PROVE  View(i)' = merged
  <2>1. View(i)' = Lost
    <3>1. i \in struck'
      BY <1>1, <1>2, <1>8, <1>10
    <3> QED
      BY <3>1 DEF View
  <2>2. merged = Lost
    <3>1. CASE at \in struck
      BY <1>5, <1>8, <1>9, <3>1
    <3>2. CASE at - 1 \in struck
      <4>1. PICK j \in Levels : j = at - 1
        BY <1>2, <3>2
      <4>2. View(j) = Lost
        BY <1>5, <3>2, <4>1
      <4>3. Runs[at - 1] = Lost /\ at # 1
        BY <1>2, <4>1, <4>2 DEF Runs
      <4> QED
        BY <4>3
    <3> QED
      BY <1>10, <3>1, <3>2
  <2> QED
    BY <2>1, <2>2
<1>11. ASSUME at \notin struck, at - 1 \notin struck
       PROVE  View(i)' = merged
  <2>1. View(i)' = RunOf(Output)
    <3>1. SubSeq(temp, 1, written) = Output
      BY <1>1, WrittenAll
    <3>2. i \notin struck' /\ meta'[i] = written
      BY <1>1, <1>2, <1>8, <1>11
    <3>3. View(i)' = RunOf(SubSeq(temp', 1, meta'[i]))
      BY <1>1, <1>8, <3>2 DEF View
    <3> HIDE DEF Output
    <3> QED
      BY <1>1, <3>1, <3>2, <3>3
  <2>2. RunOf(Output) = MergeRuns(RunOf(Entries(at)), RunOf(Child))
    BY <1>1, <1>11, OutputIntact
  <2>3. View(i) = RunOf(Entries(i)) /\ View(i) \in Run
    BY <1>6, <1>8, <1>11
  <2>4. RunOf(Child) = above /\ above \in Run
    <3>1. CASE at = 1
      <4>1. RunOf(Child) = buffer
        BY <1>1, <1>11, <3>1, ChildIntact
      <4> HIDE DEF Child
      <4> QED
        BY <1>2, <1>7, <3>1, <4>1
    <3>2. CASE at # 1
      <4>1. PICK j \in Levels : j = at - 1
        BY <1>2, <3>2
      <4>2. Child = Entries(j)
        BY <3>2, <4>1 DEF Child
      <4>3. View(j) = RunOf(Entries(j)) /\ View(j) \in Run
        BY <1>6, <1>11, <4>1
      <4>4. Runs[j] = View(j)
        BY DEF Runs
      <4> HIDE DEF Child, Entries
      <4> QED
        BY <3>2, <4>1, <4>2, <4>3, <4>4
    <3> QED
      BY <3>1, <3>2
  <2> HIDE DEF Child, Output, Entries, above
  <2>5. Runs[at] # Lost /\ above # Lost
    BY <1>8, <1>9, <2>3, <2>4
  <2>6. RunOf(Output) = MergeRuns(Runs[at], above)
    BY <1>8, <1>9, <2>2, <2>3, <2>4
  <2> QED
    BY <2>1, <2>5, <2>6
<1>12. View(i)' = merged
  BY <1>10, <1>11
<1> HIDE DEF Output
<1>13. \A j \in Levels : Runs'[j] = View(j)' /\ Runs[j] = View(j)
  BY DEF Runs
<1>14. Runs = [j \in Levels |-> Runs[j]] /\ Runs' = [j \in Levels |-> Runs'[j]]
  BY DEF Runs
<1>15. \A j \in Levels : Runs'[j] = IF j = at THEN merged ELSE IF j = at - 1 THEN Empty ELSE Runs[j]
  BY <1>2, <1>3, <1>4, <1>8, <1>12, <1>13
<1> HIDE DEF merged
<1>16. CASE at = 1
  <2>1. Runs' = [Runs EXCEPT ![1] = merged]
    BY <1>2, <1>14, <1>15, <1>16
  <2>2. Held' = Empty
    BY <1>1, <1>16 DEF Held
  <2>3. merged = IF Lost \in {Runs[1], Held} THEN Lost ELSE MergeRuns(Runs[1], Held)
    BY <1>16 DEF merged
  <2>4. Durable!Flush
    BY <1>7, <2>1, <2>2, <2>3, DurableActions
  <2> QED
    BY <2>4 DEF DurableStep, Durable!Next
<1>17. CASE at # 1
  <2>1. PICK j \in 1 .. (MAX_LEVELS - 1) : at = j + 1 /\ at - 1 = j
    <3>1. at - 1 \in 1 .. (MAX_LEVELS - 1) /\ at = (at - 1) + 1
      BY <1>2, <1>17, LevelsType
    <3> QED
      BY <3>1
  <2>2. Runs' = [Runs EXCEPT ![j] = Empty, ![j + 1] = merged]
    BY <1>2, <1>14, <1>15, <1>17, <2>1
  <2>3. Held' = Held
    BY <1>1, <1>7, <1>17 DEF Held
  <2>4. merged = IF Lost \in {Runs[j + 1], Runs[j]} THEN Lost ELSE MergeRuns(Runs[j + 1], Runs[j])
    BY <1>17, <2>1 DEF merged
  <2>5. Durable!MergeDown(j)
    BY <1>7, <2>2, <2>3, <2>4, DurableActions
  <2> QED
    BY <2>5 DEF DurableStep, Durable!Next
<1> QED
  BY <1>16, <1>17

(* What completes a merge does not show.                                   *)
LEMMA WindowDurable ==
  ASSUME Contents, SizeInv, CInv, RecordZero \/ Remove
  PROVE  DurableStep
<1>1. /\ pc \in Window /\ pc' \in Window
      /\ UNCHANGED <<temp, buffer, at, struck>>
  BY DEF RecordZero, Remove, Window
<1>2. /\ at \in Levels /\ file \in [Levels -> FileContents] /\ meta \in [Levels -> Nat]
      /\ at # at - 1
  BY <1>1, LevelsType, TypeFacts DEF CInv, Position, SizeInv
<1>3. ASSUME NEW i \in Levels
      PROVE  /\ i # at => file'[i] = file[i]
             /\ i # at - 1 => meta'[i] = meta[i]
  BY <1>2 DEF RecordZero, Remove, metadata
<1>4. ASSUME NEW i \in Levels
      PROVE  View(i)' = View(i)
  <2>1. CASE i \in struck
    BY <1>1, <2>1 DEF View
  <2>2. CASE i \notin struck /\ i = at
    <3>1. View(i) = RunOf(SubSeq(temp, 1, meta[i]))
      BY <1>1, <2>2 DEF View
    <3>2. View(i)' = RunOf(SubSeq(temp', 1, meta'[i]))
      BY <1>1, <2>2 DEF View
    <3>3. meta'[i] = meta[i]
      BY <1>2, <1>3, <2>2
    <3> QED
      BY <1>1, <3>1, <3>2, <3>3
  <2>3. CASE i \notin struck /\ i = at - 1
    BY <1>1, <1>2, <2>3 DEF View
  <2>4. CASE i \notin struck /\ i # at /\ i # at - 1
    <3>1. ~ Merging(i) /\ ~ Merging(i)'
      BY <1>1, <2>4 DEF Merging
    <3>2. file'[i] = file[i] /\ meta'[i] = meta[i]
      BY <1>3, <2>4
    <3> QED
      BY <1>1, <3>1, <3>2, ViewSame
  <2> QED
    BY <2>1, <2>2, <2>3, <2>4
<1>5. Held' = Held /\ Up' = Up
  BY <1>1 DEF Held, Up, Window
<1> QED
  BY <1>4, <1>5, DurableStutters

LEMMA RenameDurable ==
  ASSUME ~ IsFile(NoFile), Contents, SizeInv, CInv, Rename
  PROVE  DurableStep
<1>1. /\ pc = "rename" /\ pc' \in {"idle", "temp"} /\ file' = [file EXCEPT ![at] = temp]
      /\ buffer' = (IF at = 1 THEN Empty ELSE buffer)
      /\ UNCHANGED <<meta, struck>>
  BY DEF Rename, metadata
<1>2. /\ at \in Levels /\ at # at - 1 /\ temp # NoFile /\ pc \in Window /\ pc' \notin Window
      /\ file \in [Levels -> FileContents] /\ at \in Nat
  BY <1>1, LevelsType, TypeFacts DEF CInv, Position, SizeInv, TempExists, Window
<1>3. ASSUME NEW i \in Levels
      PROVE  View(i)' = View(i)
  <2>0. ~ Merging(i)'
    BY <1>2 DEF Merging
  <2>1. CASE i \in struck
    BY <1>1, <2>1 DEF View
  <2>2. i \notin struck =>
           View(i)' = IF file'[i] = NoFile THEN Empty ELSE RunOf(SubSeq(file'[i], 1, meta'[i]))
    BY <1>1, <1>2 DEF View
  <2>3. CASE i \notin struck /\ i = at
    <3>1. View(i) = RunOf(SubSeq(temp, 1, meta[i]))
      BY <1>2, <2>3 DEF View
    <3>2. file'[i] = temp
      BY <1>1, <1>2, <2>3
    <3> QED
      BY <1>1, <1>2, <2>2, <2>3, <3>1, <3>2
  <2>4. CASE i \notin struck /\ i = at - 1
    <3>1. View(i) = Empty
      BY <1>2, <2>4 DEF View
    <3>2. meta'[i] = 0
      <4>1. at > 1
        BY <1>2, <2>4, LevelsType
      <4> QED
        BY <1>1, <2>4, <4>1 DEF Contents, MergeProgress
    <3>3. RunOf(SubSeq(file'[i], 1, 0)) = Empty
      BY NothingCounted
    <3> QED
      BY <2>2, <2>4, <3>1, <3>2, <3>3
  <2>5. CASE i \notin struck /\ i # at /\ i # at - 1
    <3>1. ~ Merging(i)
      BY <2>5 DEF Merging
    <3>2. file'[i] = file[i] /\ meta'[i] = meta[i]
      BY <1>1, <1>2, <2>5
    <3> QED
      BY <1>1, <2>0, <3>1, <3>2, ViewSame
  <2> QED
    BY <2>1, <2>3, <2>4, <2>5
<1>4. Held' = Held /\ Up' = Up
  BY <1>1, <1>2 DEF Held, Up
<1> QED
  BY <1>3, <1>4, DurableStutters

(* A process that dies takes its buffer, and the runs of the levels of a   *)
(* merge only when the merge counts and is not complete.                   *)
LEMMA DieDurable ==
  ASSUME SizeInv, CInv, pc # "down", Gone, UNCHANGED files,
         struck' = IF pc \in Window THEN struck \cup ({at - 1, at} \cap Levels) ELSE struck
  PROVE  DurableStep
<1>1. pc' = "down" /\ buffer' = Empty /\ UNCHANGED <<file, temp, meta>>
  BY DEF Gone, files, metadata
<1>2. /\ pc' \notin Window /\ (pc \in Window => at \in Levels /\ at # 0 /\ at \in 0 .. MAX_LEVELS)
      /\ 0 \in 0 .. MAX_LEVELS
  BY <1>1, LevelsType DEF CInv, Position, Window
<1>3. Held' = Empty /\ Up /\ Up' = FALSE
  BY <1>1, <1>2 DEF Held, Up
<1>4. ASSUME NEW j \in Levels, pc \notin Window \/ j \notin {at - 1, at}
      PROVE  View(j)' = View(j)
  <2>1. ~ Merging(j) /\ ~ Merging(j)' /\ (j \in struck' <=> j \in struck)
    BY <1>2, <1>4 DEF Merging
  <2> QED
    BY <1>1, <2>1, ViewSame
<1>5. ASSUME NEW j \in Levels, pc \in Window, j \in {at - 1, at}
      PROVE  View(j)' = Lost
  BY <1>5 DEF View
<1>6. \A j \in Levels : Runs'[j] = View(j)' /\ Runs[j] = View(j)
  BY DEF Runs
<1>7. Runs' = [j \in Levels |-> Runs'[j]]
  BY DEF Runs
<1>8. PICK i \in 0 .. MAX_LEVELS : i = IF pc \in Window THEN at ELSE 0
  BY <1>2
<1>9. \A j \in Levels : Runs'[j] = IF i # 0 /\ j \in {i - 1, i} THEN Lost ELSE Runs[j]
  BY <1>2, <1>4, <1>5, <1>6, <1>8
<1>10. Runs' = [j \in Levels |-> IF i # 0 /\ j \in {i - 1, i} THEN Lost ELSE Runs[j]]
  BY <1>7, <1>9
<1>11. Durable!Die(i)
  BY <1>3, <1>10, DurableActions
<1> QED
  BY <1>11 DEF DurableStep, Durable!Next

LEMMA NextDurable ==
  ASSUME ~ IsFile(NoFile), Lost \notin Run, Contents, SizeInv, CInv, [Next]_vars
  PROVE  DurableStep
<1>1. CASE CreateMetadata \/ Start \/ ExtendMetadata \/ Reuse \/ Create \/ Extend
  BY <1>1, StartDurable, StartedDurable
<1>2. CASE \E run \in Run : Flush(run)
  BY <1>2, FlushDurable
<1>3. CASE \/ \E i \in 1 .. (MAX_LEVELS - 1) : MergeLevel(i)
           \/ Cascade \/ Fits \/ OpenTemp \/ Write
  BY <1>3, MergingDurable
<1>4. CASE RecordSize \/ RecordZero \/ Remove \/ Rename
  BY <1>4, RecordSizeDurable, WindowDurable, RenameDurable
<1>5. CASE DatabaseFull \/ StartFails \/ RecordFails
  <2>1. Gone /\ UNCHANGED files /\ pc \notin {"down"} \cup Window /\ struck' = struck
    BY <1>5 DEF DatabaseFull, StartFails, RecordFails, Window
  <2> QED
    BY <2>1, DieDurable
<1>6. CASE Kill
  <2>1. /\ Gone /\ UNCHANGED files /\ pc # "down"
        /\ struck' = IF pc \in Window THEN struck \cup ({at - 1, at} \cap Levels) ELSE struck
    BY <1>6 DEF Kill
  <2> QED
    BY <2>1, DieDurable
<1>7. CASE UNCHANGED vars
  <2>1. UNCHANGED <<file, temp, meta, buffer, pc, at, struck>>
    BY <1>7 DEF vars, files, memory, metadata
  <2>2. \A i \in Levels : View(i)' = View(i)
    BY <2>1 DEF View
  <2>3. Held' = Held /\ Up' = Up
    BY <2>1 DEF Held, Up
  <2> QED
    BY <2>2, <2>3, DurableStutters
<1> QED
  BY <1>1, <1>2, <1>3, <1>4, <1>5, <1>6, <1>7 DEF Next, Startup, Merge

(* Killed or not, a merge is atomic for the processes that come later: it  *)
(* happens when its size reaches level_metadata.data, and what a kill can  *)
(* damage is the two levels of one merge that it finds between that moment *)
(* and the rename, and the buffer.  What a start can lose is the run of    *)
(* the last level, and it loses it whole.                                  *)
THEOREM DurableCorrect ==
  ASSUME ~ IsFile(NoFile), Lost \notin Run
  PROVE  Spec => ImplementsDurableRuns
<1>1. Init => Durable!Init
  <2> SUFFICES ASSUME Init PROVE Durable!Init
    OBVIOUS
  <2>1. /\ file = [i \in Levels |-> NoFile] /\ pc = "down" /\ struck = {} /\ buffer = Empty
    BY DEF Init
  <2>2. \A i \in Levels : View(i) = Empty
    BY <2>1 DEF View, Window
  <2>3. Runs = [i \in 1 .. MAX_LEVELS |-> Empty]
    BY <2>2 DEF Runs, Levels
  <2>4. Held = Empty
    BY <2>1 DEF Held
  <2> QED
    BY <2>1, <2>3, <2>4 DEF Durable!Init, Durable!Empty, Empty, Runs, Held
<1>2. Init => CInv /\ SizeInv /\ Contents
  BY InitCInv, InitSizes, InitContents
<1>3. CInv /\ SizeInv /\ Contents /\ [Next]_vars => CInv' /\ SizeInv' /\ Contents'
  BY NextCInv, NextSizes, NextContents
<1>4. CInv /\ SizeInv /\ Contents /\ [Next]_vars =>
        [Durable!Next]_<<pc # "down", [i \in Levels |-> View(i)],
                         IF pc \in Window /\ at = 1 THEN Empty ELSE buffer>>
  BY NextDurable DEF DurableStep, Up, Runs, Held
<1> QED
  BY <1>1, <1>2, <1>3, <1>4, PTL DEF Spec, ImplementsDurableRuns, Durable!Spec
=============================================================================

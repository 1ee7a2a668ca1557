-------------------------- MODULE ExecutionPlanMaps ---------------------------
(***************************************************************************)
(* The maps of the controller while a plan is executed: lemmas about what  *)
(* setInput and setOutput do, about plans, and about the invariant of a    *)
(* running execution, which says where operands are: what each branch,     *)
(* condition and body of a loop gets, and what it may not share.           *)
(*                                                                         *)
(* That setEach, a recursive function, is what it says, and does what it   *)
(* should, is shown by induction: the naturals are well founded.           *)
(***************************************************************************)
EXTENDS ExecutionPlan, WellFoundedInduction, TLAPS

-------------------------------------------------------------------------------
(* Induction *)

\* Naturals are well founded.
LEMMA LessIsWellFounded == IsWellFoundedOn({ss \in Nat \X Nat : ss[1] < ss[2]}, Nat)
BY NatLessThanWellFounded, Zenon DEF OpToRel

\* A set of naturals that is not empty has a least element.
LEMMA Least ==
    ASSUME NEW T \in SUBSET Nat, T # {}
    PROVE  \E x \in T : \A y \in T : x <= y
<1> DEFINE R == {ss \in Nat \X Nat : ss[1] < ss[2]}
<1>1. PICK x \in T : \A y \in T : ~(<<y, x>> \in R)
  <2>1. IsWellFoundedOn(R, Nat) BY LessIsWellFounded
  <2> HIDE DEF R
  <2> QED BY <2>1, WFMin
<1>2. ASSUME NEW y \in T PROVE ~(y < x)
  <2>1. y \in Nat /\ x \in Nat OBVIOUS
  <2>2. ~(<<y, x>> \in R) BY <1>1
  <2> QED BY <2>1, <2>2
<1> QED BY <1>2

\* What is true of 0, and of i + 1 if it is true of i, is true up to n.
LEMMA UpTo ==
    ASSUME NEW n \in Nat, NEW S, 0 \in S, \A i \in 0 .. n : i \in S /\ i < n => i + 1 \in S
    PROVE  0 .. n \subseteq S
<1> SUFFICES ASSUME NEW T, T = (0 .. n) \ S, T # {} PROVE FALSE
  OBVIOUS
<1>1. PICK x \in T : \A y \in T : x <= y
  <2>1. T \in SUBSET Nat OBVIOUS
  <2> QED BY <2>1, Least
<1>2. x # 0 /\ x \in 0 .. n OBVIOUS
<1>3. x - 1 \in 0 .. n /\ x - 1 < n /\ (x - 1) + 1 = x BY <1>2
<1>4. x - 1 \in S BY <1>1, <1>3
<1> QED BY <1>3, <1>4

\* The maps after each call are those of the last one and one more call.
LEMMA SetEach ==
    ASSUME NEW c, NEW kinds, NEW outers, NEW inners, Len(inners) \in Nat
    PROVE  LET set == setEach(c, kinds, outers, inners) IN
           /\ set[0] = c
           /\ \A i \in 1 .. Len(inners) :
                  set[i] = setAs(set[i - 1], kinds, outers[i], inners[i])
<1> DEFINE n == Len(inners)
           F(k, f) == [i \in 0 .. k |-> IF i = 0 THEN c
                                       ELSE setAs(f[i - 1], kinds, outers[i], inners[i])]
           S == {k \in 0 .. n : \E f : f = F(k, f)}
<1>1. 0 \in S
  <2>1. [i \in {0} |-> c] = F(0, [i \in {0} |-> c])
    <3>1. 0 .. 0 = {0} OBVIOUS
    <3> QED BY <3>1
  <2>2. \E f : f = F(0, f)
    <3> HIDE DEF F
    <3> QED BY <2>1
  <2> QED BY <2>2
<1>2. ASSUME NEW k \in 0 .. n, k \in S, k < n PROVE k + 1 \in S
  <2>1. PICK f : f = F(k, f) BY <1>2
  <2> DEFINE h == [i \in 0 .. k + 1 |->
                      IF i = k + 1 THEN setAs(f[k], kinds, outers[k + 1], inners[k + 1])
                      ELSE f[i]]
  <2>2. ASSUME NEW i \in 0 .. k + 1
        PROVE  h[i] = IF i = 0 THEN c ELSE setAs(h[i - 1], kinds, outers[i], inners[i])
    <3>1. CASE i = k + 1
      <4>1. h[i - 1] = f[k] /\ i # 0 BY <3>1
      <4> QED BY <3>1, <4>1
    <3>2. CASE i # k + 1
      <4>1. i \in 0 .. k /\ h[i] = f[i] BY <3>2
      <4>2. i # 0 => h[i - 1] = f[i - 1] BY <4>1
      <4>3. f[i] = IF i = 0 THEN c ELSE setAs(f[i - 1], kinds, outers[i], inners[i])
        BY <2>1, <4>1
      <4> QED BY <4>1, <4>2, <4>3
    <3> QED BY <3>1, <3>2
  <2>3. h = F(k + 1, h) BY <2>2, Zenon
  <2>4. \E e : e = F(k + 1, e)
    <3> HIDE DEF F, h
    <3> QED BY <2>3
  <2>5. k + 1 \in 0 .. n BY <1>2
  <2> QED BY <2>4, <2>5
<1>3. n \in S
  <2>1. \A i \in 0 .. n : i \in S /\ i < n => i + 1 \in S
    <3> HIDE DEF S
    <3> QED BY <1>2
  <2>2. 0 .. n \subseteq S
    <3> HIDE DEF S
    <3> QED BY <1>1, <2>1, UpTo
  <2> QED BY <2>2
<1>4. PICK f : f = F(n, f) BY <1>3
<1>5. setEach(c, kinds, outers, inners) = F(n, setEach(c, kinds, outers, inners))
  BY <1>4 DEF setEach
<1> QED BY <1>5

-------------------------------------------------------------------------------
(* The maps of the controller *)

Kinds == 1 .. 4

\* Each operand is in one map at most.
AreDisjoint(c) ==
    /\ DOMAIN c = Kinds
    /\ \A k, l \in Kinds : k # l => DOMAIN c[k] \cap DOMAIN c[l] = {}

\* Nothing changes about operand x.
IsSame(c, d, x) ==
    \A k \in Kinds : /\ x \in DOMAIN d[k] <=> x \in DOMAIN c[k]
                     /\ x \in DOMAIN c[k] => d[k][x] = c[k][x]

\* Where operand x is, in any map.
In(c, x) == At(c, InputKinds, x)

\* The maps by number.
LEMMA KindsAre == InputKinds = {1, 2, 3, 4} /\ OutputKinds = {1, 3} /\ Kinds = {1, 2, 3, 4}
BY DEF InputKinds, OutputKinds, Kinds

\* The map in which an operand is found has it, and if none is found none has it.
LEMMA FoundIs ==
    ASSUME NEW c, NEW kinds \in SUBSET Kinds, NEW x
    PROVE  LET k == Found(c, kinds, x) IN
           /\ k # 0 => k \in kinds /\ x \in DOMAIN c[k]
           /\ k = 0 => \A l \in kinds : x \notin DOMAIN c[l]
<1> DEFINE has == {k \in kinds : x \in DOMAIN c[k]}
<1>1. ASSUME has # {} PROVE Min(has) \in has
  <2>1. has \in SUBSET Nat
    <3>1. \A k \in Kinds : k \in Nat BY DEF Kinds
    <3>2. \A k \in has : k \in Nat BY <3>1
    <3> QED BY <3>2
  <2>2. \E y \in has : \A z \in has : y <= z
    <3> HIDE DEF has
    <3> QED BY <1>1, <2>1, Least
  <2> QED BY <2>2 DEF Min
<1>2. \A k \in has : k # 0 BY DEF Kinds
<1>3. Found(c, kinds, x) = IF has = {} THEN 0 ELSE Min(has) BY DEF Found
<1> QED BY <1>1, <1>2, <1>3

\* An operand that is in one map at most is found in the map that has it.
LEMMA FoundOnce ==
    ASSUME NEW c, AreDisjoint(c), NEW kinds \in SUBSET Kinds, NEW x, NEW k \in kinds,
           x \in DOMAIN c[k]
    PROVE  Found(c, kinds, x) = k /\ At(c, kinds, x) = c[k][x]
<1>1. k # 0 /\ k \in Kinds BY DEF Kinds
<1>2. Found(c, kinds, x) # 0 BY FoundIs
<1>3. Found(c, kinds, x) \in kinds /\ x \in DOMAIN c[Found(c, kinds, x)] BY <1>2, FoundIs
<1>4. Found(c, kinds, x) = k
  <2> DEFINE l == Found(c, kinds, x)
  <2> HIDE DEF l
  <2>1. l \in Kinds /\ x \in DOMAIN c[l] BY <1>3 DEF l
  <2>2. l = k BY <1>1, <2>1 DEF AreDisjoint
  <2> QED BY <2>2 DEF l
<1> QED BY <1>1, <1>4 DEF At

\* Maps that agree on an operand find the same for it.
LEMMA SameIsFound ==
    ASSUME NEW c, NEW d, NEW kinds \in SUBSET Kinds, NEW x, IsSame(c, d, x)
    PROVE  Found(d, kinds, x) = Found(c, kinds, x) /\ At(d, kinds, x) = At(c, kinds, x)
<1>1. {k \in kinds : x \in DOMAIN d[k]} = {k \in kinds : x \in DOMAIN c[k]} BY DEF IsSame
<1>2. Found(d, kinds, x) = Found(c, kinds, x) BY <1>1 DEF Found
<1> DEFINE k == Found(c, kinds, x)
<1>3. k # 0 => k \in Kinds /\ x \in DOMAIN c[k] BY FoundIs
<1> HIDE DEF k
<1>4. k # 0 => d[k][x] = c[k][x] BY <1>3 DEF IsSame
<1> QED BY <1>2, <1>4 DEF At, k

\* One call of setInput or setOutput.
LEMMA SetAs ==
    ASSUME NEW c, AreDisjoint(c), NEW kinds \in SUBSET Kinds, NEW outer, NEW inner,
           outer # inner, Found(c, kinds, outer) # 0,
           \A k \in Kinds \ kinds : inner \notin DOMAIN c[k]
    PROVE  LET d == setAs(c, kinds, outer, inner) IN
           /\ CanSet(c, kinds, outer, inner)
           /\ AreDisjoint(d)
           /\ \A x : x # inner => IsSame(c, d, x)
           /\ \A k \in Kinds \ kinds : inner \notin DOMAIN d[k]
           /\ Found(d, kinds, inner) # 0
           /\ At(d, kinds, inner) = At(c, kinds, outer)
<1> DEFINE e == Erased(c, kinds, inner)
           f == Found(e, kinds, outer)
           d == setAs(c, kinds, outer, inner)
<1>1. /\ DOMAIN e = Kinds
      /\ \A k \in Kinds : DOMAIN e[k] = IF k \in kinds THEN DOMAIN c[k] \ {inner} ELSE DOMAIN c[k]
      /\ \A k \in Kinds : \A x \in DOMAIN e[k] : e[k][x] = c[k][x]
  BY Zenon DEF Erased, Erase, Kinds
<1>2. \A x : x # inner => IsSame(c, e, x) BY <1>1 DEF IsSame
<1>3. f = Found(c, kinds, outer) /\ f # 0 /\ At(e, kinds, outer) = At(c, kinds, outer)
  BY <1>2, SameIsFound
<1>4. f \in kinds /\ outer \in DOMAIN c[f] /\ c[f][outer] = At(c, kinds, outer)
  BY <1>3, FoundIs DEF At
<1> HIDE DEF e, f
<1>5. d = [e EXCEPT ![f] = With(e[f], inner, e[f][outer])] BY <1>3, Zenon DEF setAs, e, f
<1> HIDE DEF d
<1>6. f \in Kinds /\ f \in DOMAIN e BY <1>1, <1>4
<1>7. /\ DOMAIN d = Kinds
      /\ \A k \in Kinds : k # f => d[k] = e[k]
      /\ d[f] = With(e[f], inner, e[f][outer])
  BY <1>1, <1>5, <1>6
<1>8. /\ DOMAIN d[f] = DOMAIN e[f] \cup {inner}
      /\ \A x \in DOMAIN e[f] : x # inner => d[f][x] = e[f][x]
      /\ d[f][inner] = e[f][outer]
  BY <1>7, Zenon DEF With
<1>9. \A x : x # inner => IsSame(e, d, x)
  <2> SUFFICES ASSUME NEW x, x # inner, NEW k \in Kinds
               PROVE  /\ x \in DOMAIN d[k] <=> x \in DOMAIN e[k]
                      /\ x \in DOMAIN e[k] => d[k][x] = e[k][x]
    BY DEF IsSame
  <2>1. CASE k = f BY <1>8, <2>1
  <2>2. CASE k # f BY <1>7, <2>2
  <2> QED BY <2>1, <2>2
<1>10. \A x : x # inner => IsSame(c, d, x) BY <1>2, <1>9 DEF IsSame
<1>11. \A k \in Kinds : inner \in DOMAIN d[k] <=> k = f BY <1>1, <1>7, <1>8
<1>12. AreDisjoint(d)
  <2> SUFFICES ASSUME NEW k \in Kinds, NEW l \in Kinds, k # l,
                      NEW x \in DOMAIN d[k] \cap DOMAIN d[l]
               PROVE FALSE
    BY <1>7 DEF AreDisjoint
  <2>1. CASE x = inner BY <1>11, <2>1
  <2>2. CASE x # inner BY <1>10, <2>2 DEF AreDisjoint, IsSame
  <2> QED BY <2>1, <2>2
<1>13. Found(d, kinds, inner) = f /\ At(d, kinds, inner) = d[f][inner]
  BY <1>4, <1>6, <1>11, <1>12, FoundOnce
<1>14. d[f][inner] = At(c, kinds, outer)
  <2>1. outer \in DOMAIN e[f] /\ e[f][outer] = c[f][outer] BY <1>1, <1>4, <1>6
  <2> QED BY <1>4, <1>8, <2>1
<1>15. CanSet(c, kinds, outer, inner)
  <2>1. ASSUME NEW k \in kinds, NEW l \in kinds, inner \in DOMAIN c[k], inner \in DOMAIN c[l]
        PROVE k = l
    BY <2>1 DEF AreDisjoint
  <2> QED BY <1>3, <2>1 DEF CanSet, e, f
<1>16. \A k \in Kinds \ kinds : inner \notin DOMAIN d[k] BY <1>4, <1>11
<1> QED BY <1>3, <1>10, <1>12, <1>13, <1>14, <1>15, <1>16 DEF d

\* A call for each operand in the list inners: what the others have stays, and the operands get
\* the locations of outers.
CanGive(c, kinds, outers, inners) ==
    /\ AreDisjoint(c)
    /\ IsList(inners) /\ Len(inners) = Len(outers)
    /\ \A i \in 1 .. Len(inners) : /\ outers[i] \notin ToSet(inners)
                                   /\ Found(c, kinds, outers[i]) # 0
    /\ \A x \in ToSet(inners), k \in Kinds \ kinds : x \notin DOMAIN c[k]
IsGiven(c, d, kinds, outers, inners) ==
    /\ AreDisjoint(d)
    /\ \A x : x \notin ToSet(inners) => IsSame(c, d, x)
    /\ \A x \in ToSet(inners), k \in Kinds \ kinds : x \notin DOMAIN d[k]
    /\ \A i \in 1 .. Len(inners) : /\ Found(d, kinds, inners[i]) # 0
                                   /\ At(d, kinds, inners[i]) = At(c, kinds, outers[i])

\* No CHECK fails in these calls, and they give what is wanted.
LEMMA AsEach ==
    ASSUME NEW c, NEW kinds \in SUBSET Kinds, NEW outers, NEW inners,
           CanGive(c, kinds, outers, inners)
    PROVE  /\ CanSetEach(c, kinds, outers, inners)
           /\ IsGiven(c, setEach(c, kinds, outers, inners)[Len(inners)], kinds, outers, inners)
<1> USE DEF CanGive
<1> DEFINE n == Len(inners)
           set == setEach(c, kinds, outers, inners)
<1>1. /\ n \in Nat /\ DOMAIN inners = 1 .. n
      /\ \A i \in 1 .. n : inners[i] \in ToSet(inners)
      /\ \A i, j \in 1 .. n : inners[i] = inners[j] => i = j
      /\ \A x \in ToSet(inners) : \E i \in 1 .. n : x = inners[i]
  <2>1. n \in Nat /\ DOMAIN inners = 1 .. n BY DEF IsList, IsSequence
  <2> QED BY <2>1, Zenon DEF IsList, IsInjective, ToSet
<1>2. set[0] = c /\ \A i \in 1 .. n : set[i] = setAs(set[i - 1], kinds, outers[i], inners[i])
  BY <1>1, SetEach
<1> HIDE DEF n, set
<1> DEFINE Is(d, i) ==
               /\ AreDisjoint(d)
               /\ \A x : x \notin {inners[j] : j \in 1 .. i} => IsSame(c, d, x)
               /\ \A x \in ToSet(inners), k \in Kinds \ kinds : x \notin DOMAIN d[k]
               /\ \A j \in 1 .. i : /\ Found(d, kinds, inners[j]) # 0
                                     /\ At(d, kinds, inners[j]) = At(c, kinds, outers[j])
           S == {i \in 0 .. n : Is(set[i], i)}
<1>3. 0 \in S
  <2>1. \A x : IsSame(c, c, x) BY DEF IsSame
  <2>2. Is(c, 0) BY <2>1
  <2> QED BY <1>1, <1>2, <2>2
<1>4. ASSUME NEW i \in 0 .. n, i < n, Is(set[i], i)
      PROVE  /\ CanSet(set[i], kinds, outers[i + 1], inners[i + 1])
             /\ Is(set[i + 1], i + 1)
  <2> DEFINE b == set[i]
             x == inners[i + 1]
             y == outers[i + 1]
             d == set[i + 1]
  <2>1. /\ i + 1 \in 1 .. n /\ (i + 1) - 1 = i
        /\ \A j \in 1 .. i + 1 : j = i + 1 \/ j \in 1 .. i
        /\ \A j \in 1 .. i : j \in 1 .. n /\ j # i + 1
    BY <1>1, <1>4
  <2>2. d = setAs(b, kinds, y, x) BY <1>2, <2>1
  <2>3. x \in ToSet(inners) /\ y \notin ToSet(inners) /\ y # x BY <1>1, <2>1 DEF n
  <2>4. y \notin {inners[j] : j \in 1 .. i} BY <1>1, <2>1, <2>3
  <2>5. IsSame(c, b, y) BY <1>4, <2>4
  <2>6. Found(b, kinds, y) # 0 /\ At(b, kinds, y) = At(c, kinds, y)
    BY <2>1, <2>5, SameIsFound DEF n
  <2>7. AreDisjoint(b) /\ \A k \in Kinds \ kinds : x \notin DOMAIN b[k] BY <1>4, <2>3
  <2> HIDE DEF b, x, y, d
  <2>8. /\ CanSet(b, kinds, y, x)
        /\ AreDisjoint(d)
        /\ \A z : z # x => IsSame(b, d, z)
        /\ \A k \in Kinds \ kinds : x \notin DOMAIN d[k]
        /\ Found(d, kinds, x) # 0
        /\ At(d, kinds, x) = At(b, kinds, y)
    BY <2>2, <2>3, <2>6, <2>7, SetAs
  <2>9. ASSUME NEW z, z \notin {inners[j] : j \in 1 .. i + 1} PROVE IsSame(c, d, z)
    <3>1. z # x BY <2>1, <2>9 DEF x
    <3>2. z \notin {inners[j] : j \in 1 .. i} BY <2>1, <2>9
    <3>3. IsSame(c, b, z) /\ IsSame(b, d, z) BY <1>4, <2>8, <3>1, <3>2 DEF b
    <3> QED BY <3>3 DEF IsSame
  <2>10. ASSUME NEW z \in ToSet(inners), NEW k \in Kinds \ kinds PROVE z \notin DOMAIN d[k]
    <3>1. CASE z = x BY <2>8, <3>1
    <3>2. CASE z # x
      <4>1. z \notin DOMAIN b[k] BY <1>4 DEF b
      <4> QED BY <2>8, <3>2, <4>1 DEF IsSame
    <3> QED BY <3>1, <3>2
  <2>11. ASSUME NEW j \in 1 .. i + 1
         PROVE  /\ Found(d, kinds, inners[j]) # 0
                /\ At(d, kinds, inners[j]) = At(c, kinds, outers[j])
    <3>1. CASE j = i + 1 BY <2>6, <2>8, <3>1 DEF x, y
    <3>2. CASE j \in 1 .. i
      <4>1. inners[j] # x BY <1>1, <2>1, <3>2 DEF x
      <4>2. IsSame(b, d, inners[j]) BY <2>8, <4>1
      <4>3. /\ Found(d, kinds, inners[j]) = Found(b, kinds, inners[j])
            /\ At(d, kinds, inners[j]) = At(b, kinds, inners[j])
        BY <4>2, SameIsFound
      <4> QED BY <1>4, <3>2, <4>3 DEF b
    <3> QED BY <2>1, <3>1, <3>2
  <2> QED BY <2>8, <2>9, <2>10, <2>11 DEF b, x, y, d
<1>5. 0 .. n \subseteq S
  <2>1. \A i \in 0 .. n : i \in S /\ i < n => i + 1 \in S
    <3>1. ASSUME NEW i \in 0 .. n, i < n, Is(set[i], i)
          PROVE  i + 1 \in 0 .. n /\ Is(set[i + 1], i + 1)
      <4>1. i + 1 \in 0 .. n BY <1>1, <3>1
      <4> HIDE DEF Is
      <4> QED BY <1>4, <3>1, <4>1
    <3> HIDE DEF Is
    <3> QED BY <3>1
  <2> HIDE DEF S
  <2> QED BY <1>1, <1>3, <2>1, UpTo
<1>6. \A i \in 0 .. n : Is(set[i], i)
  <2> HIDE DEF Is
  <2> QED BY <1>5
<1>7. CanSetEach(c, kinds, outers, inners)
  <2>1. ASSUME NEW i \in 1 .. n PROVE CanSet(set[i - 1], kinds, outers[i], inners[i])
    <3>1. i - 1 \in 0 .. n /\ i - 1 < n /\ (i - 1) + 1 = i BY <1>1
    <3>2. Is(set[i - 1], i - 1) BY <1>6, <3>1
    <3> HIDE DEF Is
    <3> QED BY <1>4, <3>1, <3>2
  <2> QED BY <2>1 DEF CanSetEach, set, n
<1>8. Is(set[n], n) /\ {inners[j] : j \in 1 .. n} = ToSet(inners)
  <2>1. Is(set[n], n)
    <3> HIDE DEF Is
    <3> QED BY <1>1, <1>6
  <2> QED BY <1>1, <2>1
<1> QED BY <1>7, <1>8, Zenon DEF set, n, IsGiven

\* The calls of setInput for the inputs of a model that is entered.
LEMMA AsInputs ==
    ASSUME NEW c, AreDisjoint(c), NEW outers, NEW inners,
           IsList(inners), Len(inners) = Len(outers),
           \A i \in 1 .. Len(inners) : /\ outers[i] \notin ToSet(inners)
                                       /\ In(c, outers[i]) # Nowhere
    PROVE  LET d == setInputs(c, outers, inners) IN
           /\ CanSetInputs(c, outers, inners)
           /\ AreDisjoint(d)
           /\ \A x : x \notin ToSet(inners) => IsSame(c, d, x)
           /\ \A i \in 1 .. Len(inners) : In(d, inners[i]) = In(c, outers[i])
<1>1. InputKinds \in SUBSET Kinds /\ Kinds \ InputKinds = {} BY DEF InputKinds, Kinds
<1>2. \A i \in 1 .. Len(inners) : Found(c, InputKinds, outers[i]) # 0 BY DEF In, At
<1> DEFINE d == setEach(c, InputKinds, outers, inners)[Len(inners)]
<1>3. \A x \in ToSet(inners), k \in Kinds \ InputKinds : x \notin DOMAIN c[k] BY <1>1
<1>4. CanGive(c, InputKinds, outers, inners) BY <1>2, <1>3 DEF CanGive
<1>5. CanSetEach(c, InputKinds, outers, inners) /\ IsGiven(c, d, InputKinds, outers, inners)
  BY <1>1, <1>4, AsEach
<1> QED BY <1>5, Zenon DEF IsGiven, setInputs, CanSetInputs, In

\* An operand that is no input and no constant is found where outputs are.
LEMMA OutIsIn ==
    ASSUME NEW c, AreDisjoint(c), NEW x, x \notin DOMAIN c[2], x \notin DOMAIN c[4]
    PROVE  /\ Found(c, OutputKinds, x) = Found(c, InputKinds, x)
           /\ At(c, OutputKinds, x) = In(c, x)
<1>1. {k \in InputKinds : x \in DOMAIN c[k]} = {k \in OutputKinds : x \in DOMAIN c[k]}
  BY KindsAre
<1> QED BY <1>1 DEF Found, In, At

\* The calls of setOutput for the outputs of a model that is entered.
LEMMA AsOutputs ==
    ASSUME NEW c, AreDisjoint(c), NEW outers, NEW inners,
           IsList(inners), Len(inners) = Len(outers),
           \A x \in ToSet(inners) : x \notin DOMAIN c[2] /\ x \notin DOMAIN c[4],
           \A i \in 1 .. Len(inners) :
               /\ outers[i] \notin ToSet(inners)
               /\ In(c, outers[i]) # Nowhere
               /\ outers[i] \notin DOMAIN c[2] /\ outers[i] \notin DOMAIN c[4]
    PROVE  LET d == setOutputs(c, outers, inners) IN
           /\ CanSetOutputs(c, outers, inners)
           /\ AreDisjoint(d)
           /\ \A x : x \notin ToSet(inners) => IsSame(c, d, x)
           /\ \A x \in ToSet(inners) : x \notin DOMAIN d[2] /\ x \notin DOMAIN d[4]
           /\ \A i \in 1 .. Len(inners) : In(d, inners[i]) = In(c, outers[i])
<1> DEFINE d == setOutputs(c, outers, inners)
<1>1. OutputKinds \in SUBSET Kinds /\ Kinds \ OutputKinds = {2, 4} BY KindsAre
<1>2. \A i \in 1 .. Len(inners) : /\ At(c, OutputKinds, outers[i]) = In(c, outers[i])
                                  /\ Found(c, OutputKinds, outers[i]) # 0
  BY OutIsIn DEF At
<1>3. /\ CanSetOutputs(c, outers, inners)
      /\ AreDisjoint(d)
      /\ \A x : x \notin ToSet(inners) => IsSame(c, d, x)
      /\ \A x \in ToSet(inners) : x \notin DOMAIN d[2] /\ x \notin DOMAIN d[4]
      /\ \A i \in 1 .. Len(inners) : At(d, OutputKinds, inners[i]) = At(c, OutputKinds, outers[i])
  <2>1. \A x \in ToSet(inners), k \in Kinds \ OutputKinds : x \notin DOMAIN c[k] BY <1>1
  <2> DEFINE e == setEach(c, OutputKinds, outers, inners)[Len(inners)]
  <2>2. CanGive(c, OutputKinds, outers, inners) BY <1>2, <2>1 DEF CanGive
  <2>3. CanSetEach(c, OutputKinds, outers, inners) /\ IsGiven(c, e, OutputKinds, outers, inners)
    BY <1>1, <2>2, AsEach
  <2>4. \A x \in ToSet(inners) : x \notin DOMAIN e[2] /\ x \notin DOMAIN e[4]
    <3> HIDE DEF e
    <3> QED BY <1>1, <2>3 DEF IsGiven
  <2> QED BY <2>3, <2>4, Zenon DEF IsGiven, setOutputs, CanSetOutputs
<1>4. \A i \in 1 .. Len(inners) : inners[i] \in ToSet(inners)
  <2>1. DOMAIN inners = 1 .. Len(inners) BY DEF IsList, IsSequence
  <2> QED BY <2>1 DEF ToSet
<1> HIDE DEF d
<1>5. \A i \in 1 .. Len(inners) : In(d, inners[i]) = In(c, outers[i])
  BY <1>2, <1>3, <1>4, OutIsIn
<1> QED BY <1>3, <1>5 DEF d

-------------------------------------------------------------------------------
(* Plans *)

\* The inputs and outputs of model k, constants, and what can be written.
Ins(p, k) == ToSet(Of(k, p.models[k].ins))
Outs(p, k) == ToSet(Of(k, p.models[k].outs))
CopiesOf(p) == findControlFlowBoundaryConstants(p, "CONSTANT_COPY")
ReferencesOf(p) == findControlFlowBoundaryConstants(p, "CONSTANT_REFERENCE")
Writable == {"SUBGRAPH_OUTPUT", "TEMPORARY_VARIABLE"}

\* The operands of model k that have a place in memory.
IsOperand(p, k, x) ==
    /\ x = <<k, x[2]>>
    /\ \/ LifetimeOf(p, x) \in {"SUBGRAPH_INPUT", "SUBGRAPH_OUTPUT"}
       \/ LifetimeOf(p, x) = "TEMPORARY_VARIABLE" /\ x \in Temporaries(p)
       \/ x \in CopiesOf(p)
       \/ x \in ReferencesOf(p)

\* Where the lifetime of an operand comes from.
LEMMA LifetimeIs ==
    ASSUME NEW m, IsModel(m), NEW o
    PROVE  /\ Lifetime(m, o) = "SUBGRAPH_INPUT" <=> o \in ToSet(m.ins)
           /\ Lifetime(m, o) = "SUBGRAPH_OUTPUT" <=> o \in ToSet(m.outs)
           /\ Lifetime(m, o) \in {"SUBGRAPH_INPUT", "SUBGRAPH_OUTPUT", "CONSTANT_COPY",
                                  "CONSTANT_REFERENCE", "TEMPORARY_VARIABLE"}
           /\ Lifetime(m, o) \in {"CONSTANT_COPY", "CONSTANT_REFERENCE"} <=> o \in Constants(m)
<1> DEFINE i == o \in ToSet(m.ins)
           u == o \in ToSet(m.outs)
           a == o \in m.copies
           b == o \in m.references
<1>1. ~(i /\ u) /\ ~(i /\ a) /\ ~(i /\ b) /\ ~(u /\ a) /\ ~(u /\ b) /\ ~(a /\ b)
  BY DEF IsModel, Constants
<1>2. Constants(m) = m.copies \cup m.references BY DEF Constants
<1>3. /\ i => Lifetime(m, o) = "SUBGRAPH_INPUT"
      /\ u => Lifetime(m, o) = "SUBGRAPH_OUTPUT"
      /\ a => Lifetime(m, o) = "CONSTANT_COPY"
      /\ b => Lifetime(m, o) = "CONSTANT_REFERENCE"
      /\ ~i /\ ~u /\ ~a /\ ~b => Lifetime(m, o) = "TEMPORARY_VARIABLE"
  BY <1>1 DEF Lifetime
<1>4. o \in Constants(m) <=> a \/ b BY <1>2
<1> QED BY <1>1, <1>3, <1>4

\* A list of operands of a model, as operands of the plan.
LEMMA OfIs ==
    ASSUME NEW k, NEW os, IsList(os)
    PROVE  /\ IsList(Of(k, os)) /\ Len(Of(k, os)) = Len(os) /\ Len(os) \in Nat
           /\ \A i \in 1 .. Len(os) : Of(k, os)[i] = <<k, os[i]>> /\ os[i] \in ToSet(os)
           /\ ToSet(Of(k, os)) = {<<k, o>> : o \in ToSet(os)}
<1> DEFINE xs == Of(k, os)
<1>1. Len(os) \in Nat /\ DOMAIN os = 1 .. Len(os) BY DEF IsList, IsSequence
<1>2. xs = [i \in 1 .. Len(os) |-> <<k, os[i]>>] BY <1>1 DEF Of
<1>3. \A i \in 1 .. Len(os) : xs[i] \in ToSet(xs)  BY <1>2 DEF ToSet
<1>4. xs \in Seq(ToSet(xs)) /\ Len(xs) = Len(os)
  <2>1. xs \in [1 .. Len(os) -> ToSet(xs)]
    <3> HIDE DEF xs
    <3>1. DOMAIN xs = 1 .. Len(os) /\ xs = [i \in 1 .. Len(os) |-> xs[i]] BY <1>2
    <3> QED BY <1>3, <3>1
  <2> HIDE DEF xs
  <2> QED BY <1>1, <2>1
<1>5. IsInjective(xs)
  <2>1. \A i, j \in 1 .. Len(os) : os[i] = os[j] => i = j BY <1>1 DEF IsList, IsInjective
  <2>2. \A i, j \in 1 .. Len(os) : xs[i] = xs[j] => os[i] = os[j] BY <1>2
  <2> QED BY <1>2, <2>1, <2>2 DEF IsInjective
<1>6. ToSet(xs) = {<<k, o>> : o \in ToSet(os)} BY <1>1, <1>2 DEF ToSet
<1>7. \A i \in 1 .. Len(os) : os[i] \in ToSet(os) BY <1>1 DEF ToSet
<1> QED BY <1>1, <1>2, <1>4, <1>5, <1>6, <1>7 DEF IsList, IsSequence

\* What is known of a plan.
LEMMA PlanIs ==
    ASSUME NEW g, NEW p, IsPlan(g, p)
    PROVE  /\ Len(p.models) \in Nat /\ DOMAIN p.models = 1 .. Len(p.models)
           /\ Len(p.steps) \in Nat /\ DOMAIN p.steps = 1 .. Len(p.steps)
           /\ 1 \in DOMAIN p.models /\ 1 \in DOMAIN p.steps
           /\ p.models[1] = g.model
           /\ \A k \in DOMAIN p.models : IsModel(p.models[k])
           /\ \A i \in DOMAIN p.steps :
                  p.steps[i].kind \in {"execute", "simple", "goto", "if", "while"}
           /\ \A i \in StepsOf(p, "execute") : i \in DOMAIN p.steps /\ IsExecution(p, i)
           /\ \A i \in StepsOf(p, "goto") : i \in DOMAIN p.steps /\ IsJump(p, i, p.steps[i].to)
           /\ \A i \in StepsOf(p, "if") : i \in DOMAIN p.steps /\ IsIf(p, i)
           /\ \A i \in StepsOf(p, "while") : i \in DOMAIN p.steps /\ IsWhile(p, i)
           /\ \A i \in StepsOf(p, "simple") : i \in DOMAIN p.steps /\ IsJump(p, i, i + 1)
           /\ IsReferencedOnce(p)
           /\ Active(p, 1) = {1} /\ Active(p, Len(p.steps) + 1) = {1}
<1>1. /\ Len(p.models) \in Nat /\ DOMAIN p.models = 1 .. Len(p.models)
      /\ Len(p.steps) \in Nat /\ DOMAIN p.steps = 1 .. Len(p.steps)
  BY DEF IsPlan, IsSequence
<1>2. 1 \in DOMAIN p.models /\ 1 \in DOMAIN p.steps BY <1>1 DEF IsPlan
<1>3. ASSUME NEW i \in DOMAIN p.steps
      PROVE  /\ p.steps[i].kind = "execute" => IsExecution(p, i)
             /\ p.steps[i].kind = "goto" => IsJump(p, i, p.steps[i].to)
             /\ p.steps[i].kind = "if" => IsIf(p, i)
             /\ p.steps[i].kind = "while" => IsWhile(p, i)
             /\ p.steps[i].kind = "simple" => IsJump(p, i, i + 1)
  <2>1. IsStep(p, i) BY Zenon DEF IsPlan
  <2> QED BY <2>1 DEF IsStep
<1> QED BY <1>1, <1>2, <1>3, Zenon DEF IsPlan, StepsOf

\* Models that are active are models of the plan.
LEMMA ActiveIs ==
    ASSUME NEW g, NEW p, IsPlan(g, p), NEW i
    PROVE  /\ 1 \in Active(p, i)
           /\ \A k \in Active(p, i) : k \in DOMAIN p.models /\ k \in Nat
<1>1. 1 \in Active(p, i) BY DEF Active
<1>2. ASSUME NEW s \in StepsOf(p, "while"), NEW b \in {1, 2}
      PROVE  p.steps[s].models[b] \in DOMAIN p.models
  <2>1. IsWhile(p, s) BY PlanIs
  <2>2. IsEntry(p, s, p.steps[s].models[1], p.steps[s].condStep)
        /\ IsEntry(p, s, p.steps[s].models[2], p.steps[s].bodyStep)
    BY <2>1, Zenon DEF IsWhile
  <2> QED BY <2>2 DEF IsEntry
<1>3. ASSUME NEW s \in StepsOf(p, "if"), NEW b \in {1, 2}
      PROVE  p.steps[s].models[b] \in DOMAIN p.models
  <2>1. IsIf(p, s) BY PlanIs
  <2>2. IsEntry(p, s, p.steps[s].models[b], p.steps[s].steps[b]) BY <2>1, Zenon DEF IsIf
  <2> QED BY <2>2 DEF IsEntry
<1>4. \A k \in Active(p, i) : k \in DOMAIN p.models
  <2>1. \A step \in ControlSteps(p), b \in {1, 2} : step.models[b] \in DOMAIN p.models
    BY <1>2, <1>3 DEF ControlSteps, WhileSteps
  <2>2. 1 \in DOMAIN p.models BY PlanIs
  <2> QED BY <2>1, <2>2, Zenon DEF Active
<1>5. \A k \in DOMAIN p.models : k \in Nat
  <2>1. Len(p.models) \in Nat /\ DOMAIN p.models = 1 .. Len(p.models) BY PlanIs
  <2> QED BY <2>1
<1> QED BY <1>1, <1>4, <1>5

\* Inputs and outputs of a model, as operands of the plan.
LEMMA OperandsAre ==
    ASSUME NEW g, NEW p, IsPlan(g, p), NEW k \in DOMAIN p.models
    PROVE  /\ \A x \in Ins(p, k) : /\ x = <<k, x[2]>> /\ LifetimeOf(p, x) = "SUBGRAPH_INPUT"
                                   /\ IsOperand(p, k, x)
           /\ \A x \in Outs(p, k) : /\ x = <<k, x[2]>> /\ LifetimeOf(p, x) = "SUBGRAPH_OUTPUT"
                                    /\ IsOperand(p, k, x)
           /\ \A x : x = <<k, x[2]>> =>
                  /\ LifetimeOf(p, x) = "SUBGRAPH_INPUT" => x \in Ins(p, k)
                  /\ LifetimeOf(p, x) = "SUBGRAPH_OUTPUT" => x \in Outs(p, k)
                  /\ LifetimeOf(p, x) \in {"SUBGRAPH_INPUT", "SUBGRAPH_OUTPUT", "CONSTANT_COPY",
                                           "CONSTANT_REFERENCE", "TEMPORARY_VARIABLE"}
<1> DEFINE m == p.models[k]
<1>1. IsModel(m) BY PlanIs
<1>2. /\ Ins(p, k) = {<<k, o>> : o \in ToSet(m.ins)}
      /\ Outs(p, k) = {<<k, o>> : o \in ToSet(m.outs)}
  BY <1>1, OfIs DEF Ins, Outs, IsModel
<1>3. \A o : LifetimeOf(p, <<k, o>>) = Lifetime(m, o) BY DEF LifetimeOf
<1> HIDE DEF m
<1>4. \A x \in Ins(p, k) : x = <<k, x[2]>> /\ LifetimeOf(p, x) = "SUBGRAPH_INPUT"
  BY <1>1, <1>2, <1>3, LifetimeIs
<1>5. \A x \in Outs(p, k) : x = <<k, x[2]>> /\ LifetimeOf(p, x) = "SUBGRAPH_OUTPUT"
  BY <1>1, <1>2, <1>3, LifetimeIs
<1>6. ASSUME NEW x, x = <<k, x[2]>>
      PROVE  /\ LifetimeOf(p, x) = "SUBGRAPH_INPUT" => x \in Ins(p, k)
             /\ LifetimeOf(p, x) = "SUBGRAPH_OUTPUT" => x \in Outs(p, k)
             /\ LifetimeOf(p, x) \in {"SUBGRAPH_INPUT", "SUBGRAPH_OUTPUT", "CONSTANT_COPY",
                                      "CONSTANT_REFERENCE", "TEMPORARY_VARIABLE"}
  <2>1. LifetimeOf(p, x) = Lifetime(m, x[2]) BY <1>3, <1>6
  <2>2. x[2] \in ToSet(m.ins) => x \in Ins(p, k) BY <1>2, <1>6
  <2>3. x[2] \in ToSet(m.outs) => x \in Outs(p, k) BY <1>2, <1>6
  <2> QED BY <1>1, <2>1, <2>2, <2>3, LifetimeIs
<1> QED BY <1>4, <1>5, <1>6 DEF IsOperand

Inputs(p) == UNION {Ins(p, k) : k \in DOMAIN p.models}

\* Control flow refers to each model once, and the whole model to none.
LEMMA ReferencedAre ==
    ASSUME NEW g, NEW p, IsPlan(g, p),
           NEW s \in StepsOf(p, "while") \cup StepsOf(p, "if"), NEW a \in {1, 2}
    PROVE  /\ p.steps[s].models[a] \in DOMAIN p.models
           /\ p.steps[s].models[a] # 1
           /\ \A t \in StepsOf(p, "while") \cup StepsOf(p, "if"), b \in {1, 2} :
                  p.steps[s].models[a] = p.steps[t].models[b] => s = t /\ a = b
<1>1. p.steps[s].models[a] \in DOMAIN p.models
  <2>1. CASE s \in StepsOf(p, "while")
    <3>1. IsWhile(p, s) BY <2>1, PlanIs
    <3>2. IsEntry(p, s, p.steps[s].models[1], p.steps[s].condStep)
          /\ IsEntry(p, s, p.steps[s].models[2], p.steps[s].bodyStep)
      BY <3>1, Zenon DEF IsWhile
    <3> QED BY <3>2 DEF IsEntry
  <2>2. CASE s \in StepsOf(p, "if")
    <3>1. IsIf(p, s) BY <2>2, PlanIs
    <3>2. IsEntry(p, s, p.steps[s].models[a], p.steps[s].steps[a]) BY <3>1, Zenon DEF IsIf
    <3> QED BY <3>2 DEF IsEntry
  <2> QED BY <2>1, <2>2
<1>2. IsReferencedOnce(p) BY PlanIs
<1> QED BY <1>1, <1>2, Zenon DEF IsReferencedOnce

\* What control flow reads has a place in memory.
LEMMA OuterInsAre ==
    ASSUME NEW g, NEW p, IsPlan(g, p), NEW k \in DOMAIN p.models, NEW x, x = <<k, x[2]>>,
           x \in boundaryOperands(p), AreProvided(p, {x})
    PROVE  IsOperand(p, k, x)
<1>1. LifetimeOf(p, x) \in {"SUBGRAPH_INPUT", "SUBGRAPH_OUTPUT", "CONSTANT_COPY",
                            "CONSTANT_REFERENCE", "TEMPORARY_VARIABLE"}
  BY OperandsAre
<1>2. LifetimeOf(p, x) = "CONSTANT_COPY" => x \in CopiesOf(p)
  BY DEF CopiesOf, findControlFlowBoundaryConstants
<1>3. LifetimeOf(p, x) = "CONSTANT_REFERENCE" => x \in ReferencesOf(p)
  BY DEF ReferencesOf, findControlFlowBoundaryConstants
<1> QED BY <1>1, <1>2, <1>3 DEF IsOperand, AreProvided

\* What control flow gets and what it has to give.
LEMMA ArgumentsAre ==
    ASSUME NEW g, NEW p, IsPlan(g, p), NEW s \in StepsOf(p, "while") \cup StepsOf(p, "if"),
           NEW k \in DOMAIN p.models,
           AreArguments(p, k, p.steps[s].outerIns, p.steps[s].outerOuts)
    PROVE  LET ins == p.steps[s].outerIns
               outs == p.steps[s].outerOuts IN
           /\ Len(ins) \in Nat /\ DOMAIN ins = 1 .. Len(ins)
           /\ Len(outs) \in Nat /\ DOMAIN outs = 1 .. Len(outs)
           /\ \A i \in DOMAIN ins : IsOperand(p, k, ins[i]) /\ ins[i] \notin ToSet(outs)
           /\ \A i \in DOMAIN outs : /\ IsOperand(p, k, outs[i])
                                     /\ LifetimeOf(p, outs[i]) \in Writable
                                     /\ outs[i] \in ToSet(outs)
           /\ \A i, j \in DOMAIN outs : i # j => outs[i] # outs[j]
           /\ \A i \in DOMAIN ins, j \in DOMAIN outs : ins[i] # outs[j]
<1> DEFINE ins == p.steps[s].outerIns
           outs == p.steps[s].outerOuts
<1>1. /\ AreOf(k, ins) /\ AreProvided(p, ToSet(ins))
      /\ AreOf(k, outs) /\ IsInjective(outs)
      /\ \A x \in ToSet(outs) : LifetimeOf(p, x) \in Writable
      /\ ToSet(ins) \cap ToSet(outs) = {}
  BY DEF AreArguments, Writable
<1>2. /\ ToSet(ins) \subseteq boundaryOperands(p)
      /\ \A x \in ToSet(outs) : LifetimeOf(p, x) = "TEMPORARY_VARIABLE" => x \in Temporaries(p)
  <2>1. ToSet(ins) \subseteq boundaryOperands(p)
    <3>1. CASE s \in StepsOf(p, "while") BY <3>1, Zenon DEF boundaryOperands
    <3>2. CASE s \in StepsOf(p, "if")
      <4>1. ToSet(ins) \subseteq {p.steps[s].cond} \cup ToSet(p.steps[s].outerIns) OBVIOUS
      <4> QED BY <3>2, <4>1 DEF boundaryOperands
    <3> QED BY <3>1, <3>2
  <2>2. p.steps[s] \in ControlSteps(p) BY DEF ControlSteps, WhileSteps
  <2>3. ASSUME NEW x \in ToSet(outs), LifetimeOf(p, x) = "TEMPORARY_VARIABLE"
        PROVE  x \in Temporaries(p)
    <3>1. x \in OfControlFlow(p) BY <2>2, <2>3, Zenon DEF OfControlFlow
    <3> QED BY <3>1, Zenon DEF Temporaries
  <2> QED BY <2>1, <2>3
<1> HIDE DEF ins, outs
<1>3. /\ Len(ins) \in Nat /\ DOMAIN ins = 1 .. Len(ins)
      /\ Len(outs) \in Nat /\ DOMAIN outs = 1 .. Len(outs)
      /\ \A i \in DOMAIN ins : ins[i] = <<k, ins[i][2]>>
      /\ \A i \in DOMAIN outs : outs[i] = <<k, outs[i][2]>>
  BY <1>1 DEF AreOf, IsSequence
<1>4. /\ \A i \in DOMAIN ins : ins[i] \in ToSet(ins)
      /\ \A i \in DOMAIN outs : outs[i] \in ToSet(outs)
  BY DEF ToSet
<1>5. ASSUME NEW i \in DOMAIN ins PROVE IsOperand(p, k, ins[i])
  <2>1. AreProvided(p, {ins[i]}) BY <1>1, <1>4 DEF AreProvided
  <2>2. ins[i] = <<k, ins[i][2]>> /\ ins[i] \in boundaryOperands(p) BY <1>2, <1>3, <1>4
  <2> QED BY <2>1, <2>2, OuterInsAre
<1>6. ASSUME NEW i \in DOMAIN outs PROVE IsOperand(p, k, outs[i])
  <2>1. outs[i] = <<k, outs[i][2]>> BY <1>3
  <2>2. LifetimeOf(p, outs[i]) \in Writable BY <1>1, <1>4
  <2>3. LifetimeOf(p, outs[i]) = "TEMPORARY_VARIABLE" => outs[i] \in Temporaries(p) BY <1>2, <1>4
  <2> QED BY <2>1, <2>2, <2>3 DEF IsOperand, Writable
<1>7. \A i, j \in DOMAIN outs : i # j => outs[i] # outs[j] BY <1>1 DEF IsInjective
<1>8. \A i \in DOMAIN ins, j \in DOMAIN outs : ins[i] # outs[j] BY <1>1, <1>4
<1> QED BY <1>1, <1>3, <1>4, <1>5, <1>6, <1>7, <1>8 DEF ins, outs

\* Operands of different models are different.
LEMMA OtherModels ==
    ASSUME NEW g, NEW p, IsPlan(g, p), NEW k \in DOMAIN p.models, NEW x, x = <<k, x[2]>>,
           NEW e \in DOMAIN p.models, k # e
    PROVE  x \notin Ins(p, e) \cup Outs(p, e)
<1>1. \A y \in Ins(p, e) \cup Outs(p, e) : y = <<e, y[2]>> BY OperandsAre
<1> QED BY <1>1

\* No operand is an input and an output of a model.
LEMMA InsAndOuts ==
    ASSUME NEW g, NEW p, IsPlan(g, p), NEW k \in DOMAIN p.models
    PROVE  Ins(p, k) \cap Outs(p, k) = {}
BY OperandsAre

-------------------------------------------------------------------------------
(* Steps of control flow, temporaries and constants *)

\* What is known of a WHILE.
LEMMA WhileIs ==
    ASSUME NEW g, NEW p, IsPlan(g, p), NEW s \in StepsOf(p, "while")
    PROVE  LET step == p.steps[s]
               k == step.model
               m1 == step.models[1]
               m2 == step.models[2] IN
           /\ s \in DOMAIN p.steps
           /\ k \in Active(p, s) /\ k \in DOMAIN p.models
           /\ AreArguments(p, k, step.outerIns, step.outerOuts)
           /\ m1 \in DOMAIN p.models \ Active(p, s) /\ m2 \in DOMAIN p.models \ Active(p, s)
           /\ k < m1 /\ m1 < m2
           /\ IsEntry(p, s, m1, step.condStep) /\ IsEntry(p, s, m2, step.bodyStep)
           /\ IsJump(p, s, step.exitStep)
           /\ IsList(step.condIns) /\ ToSet(step.condIns) = Ins(p, m1)
           /\ Outs(p, m1) = {step.condOut}
           /\ IsList(step.bodyIns) /\ ToSet(step.bodyIns) = Ins(p, m2)
           /\ IsList(step.bodyOuts) /\ ToSet(step.bodyOuts) = Outs(p, m2)
           /\ Len(step.condIns) = Len(step.outerIns) /\ Len(step.bodyIns) = Len(step.outerIns)
           /\ Len(step.bodyOuts) <= Len(step.outerIns)
           /\ Len(step.outerOuts) <= Len(step.bodyOuts)
           /\ \A j \in 1 .. Len(p.steps) + 1, b \in {1, 2} :
                  step.models[b] \in Active(p, j) => k \in Active(p, j)
<1> DEFINE step == p.steps[s]
           k == step.model
           m1 == step.models[1]
           m2 == step.models[2]
<1>1. /\ s \in DOMAIN p.steps
      /\ k \in Active(p, s)
      /\ AreArguments(p, k, step.outerIns, step.outerOuts)
      /\ IsEntry(p, s, m1, step.condStep) /\ IsEntry(p, s, m2, step.bodyStep)
      /\ IsJump(p, s, step.exitStep)
      /\ m1 < m2
      /\ step.condIns = Of(m1, p.models[m1].ins)
      /\ Len(p.models[m1].outs) = 1 /\ step.condOut = <<m1, p.models[m1].outs[1]>>
      /\ step.bodyIns = Of(m2, p.models[m2].ins) /\ step.bodyOuts = Of(m2, p.models[m2].outs)
      /\ Len(step.condIns) = Len(step.outerIns) /\ Len(step.bodyIns) = Len(step.outerIns)
      /\ Len(step.bodyOuts) <= Len(step.outerIns)
      /\ Len(step.outerOuts) <= Len(step.bodyOuts)
      /\ \A j \in 1 .. Len(p.steps) + 1, b \in {1, 2} :
             step.models[b] \in Active(p, j) => k \in Active(p, j)
  <2>1. s \in DOMAIN p.steps /\ IsWhile(p, s) BY PlanIs
  <2> QED BY <2>1, Zenon DEF IsWhile
<1>2. k \in DOMAIN p.models BY <1>1, ActiveIs
<1>3. /\ m1 \in DOMAIN p.models \ Active(p, s) /\ m2 \in DOMAIN p.models \ Active(p, s)
      /\ k < m1
  BY <1>1 DEF IsEntry
<1>4. /\ IsList(p.models[m1].ins) /\ IsList(p.models[m1].outs)
      /\ IsList(p.models[m2].ins) /\ IsList(p.models[m2].outs)
  <2>1. IsModel(p.models[m1]) /\ IsModel(p.models[m2]) BY <1>3, PlanIs
  <2> QED BY <2>1, Zenon DEF IsModel
<1>5. IsList(step.condIns) /\ IsList(step.bodyIns) /\ IsList(step.bodyOuts)
  <2>1. /\ IsList(Of(m1, p.models[m1].ins)) /\ IsList(Of(m2, p.models[m2].ins))
        /\ IsList(Of(m2, p.models[m2].outs))
    BY <1>4, OfIs
  <2> QED BY <1>1, <2>1
<1>6. /\ ToSet(step.condIns) = Ins(p, m1) /\ ToSet(step.bodyIns) = Ins(p, m2)
      /\ ToSet(step.bodyOuts) = Outs(p, m2)
  BY <1>1 DEF Ins, Outs
<1>7. Outs(p, m1) = {step.condOut}
  <2> DEFINE os == p.models[m1].outs
  <2>1. IsList(os) BY <1>4
  <2>2. Len(os) = 1 /\ step.condOut = <<m1, os[1]>> BY <1>1
  <2>3. Outs(p, m1) = ToSet(Of(m1, os)) BY DEF Outs
  <2> HIDE DEF os
  <2>4. Outs(p, m1) = {<<m1, o>> : o \in ToSet(os)} BY <2>1, <2>3, OfIs
  <2>5. ToSet(os) = {os[1]}
    <3>1. DOMAIN os = 1 .. 1 BY <2>1, <2>2 DEF IsList, IsSequence
    <3>2. DOMAIN os = {1} BY <3>1
    <3> QED BY <3>2 DEF ToSet
  <2> QED BY <2>2, <2>4, <2>5
<1> HIDE DEF k, m1, m2, step
<1> QED BY <1>1, <1>2, <1>3, <1>5, <1>6, <1>7, Zenon DEF k, m1, m2, step

\* What is known of an IF.
LEMMA IfIs ==
    ASSUME NEW g, NEW p, IsPlan(g, p), NEW s \in StepsOf(p, "if"), NEW b \in {1, 2}
    PROVE  LET step == p.steps[s]
               k == step.model
               m == step.models[b] IN
           /\ s \in DOMAIN p.steps
           /\ k \in Active(p, s) /\ k \in DOMAIN p.models
           /\ AreArguments(p, k, step.outerIns, step.outerOuts)
           /\ IsOperand(p, k, step.cond)
           /\ m \in DOMAIN p.models \ Active(p, s) /\ k < m
           /\ IsEntry(p, s, m, step.steps[b])
           /\ IsList(step.ins[b]) /\ ToSet(step.ins[b]) = Ins(p, m)
           /\ IsList(step.outs[b]) /\ ToSet(step.outs[b]) = Outs(p, m)
           /\ Len(step.ins[b]) = Len(step.outerIns) /\ Len(step.outs[b]) = Len(step.outerOuts)
<1> DEFINE step == p.steps[s]
           k == step.model
           m == step.models[b]
<1>1. /\ s \in DOMAIN p.steps
      /\ k \in Active(p, s)
      /\ AreArguments(p, k, step.outerIns, step.outerOuts)
      /\ step.cond = <<k, step.cond[2]>> /\ AreProvided(p, {step.cond})
      /\ IsEntry(p, s, m, step.steps[b])
      /\ step.ins[b] = Of(m, p.models[m].ins)
      /\ step.outs[b] = Of(m, p.models[m].outs)
      /\ Len(step.ins[b]) = Len(step.outerIns) /\ Len(step.outs[b]) = Len(step.outerOuts)
  <2>1. s \in DOMAIN p.steps /\ IsIf(p, s) BY PlanIs
  <2> QED BY <2>1, Zenon DEF IsIf
<1>2. k \in DOMAIN p.models BY <1>1, ActiveIs
<1>3. m \in DOMAIN p.models \ Active(p, s) /\ k < m BY <1>1 DEF IsEntry
<1>4. IsList(p.models[m].ins) /\ IsList(p.models[m].outs)
  <2>1. IsModel(p.models[m]) BY <1>3, PlanIs
  <2> QED BY <2>1, Zenon DEF IsModel
<1>5. IsList(step.ins[b]) /\ IsList(step.outs[b])
  <2>1. IsList(Of(m, p.models[m].ins)) /\ IsList(Of(m, p.models[m].outs)) BY <1>4, OfIs
  <2> QED BY <1>1, <2>1
<1>6. ToSet(step.ins[b]) = Ins(p, m) /\ ToSet(step.outs[b]) = Outs(p, m) BY <1>1 DEF Ins, Outs
<1>7. step.cond \in boundaryOperands(p)
  <2>1. step.cond \in {step.cond} \cup ToSet(step.outerIns) OBVIOUS
  <2> QED BY <2>1, Zenon DEF boundaryOperands
<1>8. IsOperand(p, k, step.cond) BY <1>1, <1>2, <1>7, OuterInsAre
<1> HIDE DEF k, m, step
<1> QED BY <1>1, <1>2, <1>3, <1>5, <1>6, <1>8, Zenon DEF k, m, step

\* Temporaries are written by steps and control flow, or are what the models of loops put out.
LEMMA TemporariesAre ==
    ASSUME NEW g, NEW p, IsPlan(g, p), NEW x \in Temporaries(p)
    PROVE  \/ LifetimeOf(p, x) = "TEMPORARY_VARIABLE"
           \/ /\ LifetimeOf(p, x) = "SUBGRAPH_OUTPUT"
              /\ \E s \in StepsOf(p, "while"), b \in {1, 2} : x \in Outs(p, p.steps[s].models[b])
<1>1. CASE x \in OnlyOfSteps(p)
  <2>1. PICK i \in StepsOf(p, "execute") :
            x \in {<<p.steps[i].model, o>> : o \in tempsAsStepModelOutputs(p, p.steps[i])}
    BY <1>1 DEF OnlyOfSteps
  <2>2. PICK o \in tempsAsStepModelOutputs(p, p.steps[i]) : x = <<p.steps[i].model, o>> BY <2>1
  <2>3. LifetimeOf(p, x) = "TEMPORARY_VARIABLE"
    BY <2>2 DEF LifetimeOf, tempsAsStepModelOutputs
  <2> QED BY <2>3
<1>2. CASE x \in OfControlFlow(p) BY <1>2 DEF OfControlFlow
<1>3. CASE x \in BodyOutputs(p)
  <2>1. PICK step \in WhileSteps(p) : x \in ToSet(step.bodyOuts) BY <1>3 DEF BodyOutputs
  <2>2. PICK s \in StepsOf(p, "while") : step = p.steps[s] BY DEF WhileSteps
  <2>3. /\ x \in Outs(p, p.steps[s].models[2])
        /\ p.steps[s].models[2] \in DOMAIN p.models
    BY <2>1, <2>2, WhileIs
  <2> QED BY <2>3, OperandsAre
<1>4. CASE x \in {step.condOut : step \in WhileSteps(p)}
  <2>1. PICK s \in StepsOf(p, "while") : x = p.steps[s].condOut BY <1>4 DEF WhileSteps
  <2>2. /\ x \in Outs(p, p.steps[s].models[1])
        /\ p.steps[s].models[1] \in DOMAIN p.models
    BY <2>1, WhileIs
  <2> QED BY <2>2, OperandsAre
<1> QED BY <1>1, <1>2, <1>3, <1>4, Zenon DEF Temporaries

\* What is in the memory for temporaries, and the constants that control flow reads, are not
\* among the operands that change when a model is entered: inputs, and outputs of branches.
LEMMA PermanentAre ==
    ASSUME NEW g, NEW p, IsPlan(g, p), NEW k \in DOMAIN p.models,
           NEW x \in Temporaries(p) \cup CopiesOf(p) \cup ReferencesOf(p)
    PROVE  /\ x \notin Ins(p, k)
           /\ x \notin Temporaries(p) => x \notin Outs(p, k)
           /\ \A s \in StepsOf(p, "if"), b \in {1, 2} :
                  k = p.steps[s].models[b] => x \notin Outs(p, k)
<1>1. x \in CopiesOf(p) \cup ReferencesOf(p) =>
          LifetimeOf(p, x) \in {"CONSTANT_COPY", "CONSTANT_REFERENCE"}
  BY DEF CopiesOf, ReferencesOf, findControlFlowBoundaryConstants
<1>2. x \in Ins(p, k) => LifetimeOf(p, x) = "SUBGRAPH_INPUT" BY OperandsAre
<1>3. x \in Outs(p, k) => LifetimeOf(p, x) = "SUBGRAPH_OUTPUT" BY OperandsAre
<1>4. ASSUME NEW s \in StepsOf(p, "if"), NEW b \in {1, 2}, k = p.steps[s].models[b],
             x \in Outs(p, k)
      PROVE  FALSE
  <2>1. x \in Temporaries(p) /\ LifetimeOf(p, x) = "SUBGRAPH_OUTPUT" BY <1>1, <1>3, <1>4
  <2>2. PICK t \in StepsOf(p, "while"), a \in {1, 2} : x \in Outs(p, p.steps[t].models[a])
    BY <2>1, TemporariesAre
  <2> DEFINE m == p.steps[t].models[a]
  <2>3. m \in DOMAIN p.models BY ReferencedAre
  <2>4. m # k
    <3>1. m = k => s = t BY <1>4, ReferencedAre
    <3>2. s # t BY DEF StepsOf
    <3> QED BY <3>1, <3>2
  <2>5. x = <<k, x[2]>> BY <1>4, OperandsAre
  <2>6. x \notin Outs(p, m) BY <2>3, <2>4, <2>5, OtherModels
  <2> QED BY <2>2, <2>6
<1>5. LifetimeOf(p, x) # "SUBGRAPH_INPUT" BY <1>1, TemporariesAre
<1> QED BY <1>1, <1>2, <1>3, <1>4, <1>5

\* Temporaries with two places.
LEMMA BodyOutputsAre ==
    ASSUME NEW g, NEW p, IsPlan(g, p)
    PROVE  /\ BodyOutputs(p) \subseteq Temporaries(p)
           /\ \A s \in StepsOf(p, "while") :
                  /\ Outs(p, p.steps[s].models[2]) \subseteq BodyOutputs(p)
                  /\ p.steps[s].condOut \in Temporaries(p) \ BodyOutputs(p)
           /\ \A x \in BodyOutputs(p) : \E s \in StepsOf(p, "while") :
                  x \in Outs(p, p.steps[s].models[2])
<1>1. BodyOutputs(p) \subseteq Temporaries(p) BY Zenon DEF Temporaries
<1>2. ASSUME NEW x \in BodyOutputs(p)
      PROVE  \E s \in StepsOf(p, "while") : x \in Outs(p, p.steps[s].models[2])
  <2>1. PICK step \in WhileSteps(p) : x \in ToSet(step.bodyOuts) BY DEF BodyOutputs
  <2>2. PICK s \in StepsOf(p, "while") : step = p.steps[s] BY DEF WhileSteps
  <2>3. ToSet(p.steps[s].bodyOuts) = Outs(p, p.steps[s].models[2]) BY WhileIs
  <2> QED BY <2>1, <2>2, <2>3
<1>3. ASSUME NEW s \in StepsOf(p, "while")
      PROVE  /\ Outs(p, p.steps[s].models[2]) \subseteq BodyOutputs(p)
             /\ p.steps[s].condOut \in Temporaries(p) \ BodyOutputs(p)
  <2>1. p.steps[s] \in WhileSteps(p) BY DEF WhileSteps
  <2>2. ToSet(p.steps[s].bodyOuts) = Outs(p, p.steps[s].models[2]) BY WhileIs
  <2>3. Outs(p, p.steps[s].models[2]) \subseteq BodyOutputs(p) BY <2>1, <2>2 DEF BodyOutputs
  <2>4. p.steps[s].condOut \in Temporaries(p) BY <2>1, Zenon DEF Temporaries
  <2>5. ASSUME p.steps[s].condOut \in BodyOutputs(p) PROVE FALSE
    <3>1. PICK t \in StepsOf(p, "while") : p.steps[s].condOut \in Outs(p, p.steps[t].models[2])
      BY <1>2, <2>5
    <3>2. p.steps[s].condOut \in Outs(p, p.steps[s].models[1]) BY WhileIs
    <3>3. p.steps[s].models[1] \in DOMAIN p.models /\ p.steps[t].models[2] \in DOMAIN p.models
      BY ReferencedAre
    <3>4. p.steps[s].models[1] # p.steps[t].models[2]
      <4>1. 1 \in {1, 2} /\ 2 \in {1, 2} /\ 1 # 2 OBVIOUS
      <4> QED BY <4>1, ReferencedAre
    <3>5. p.steps[s].condOut = <<p.steps[s].models[1], p.steps[s].condOut[2]>>
      BY <3>2, <3>3, OperandsAre
    <3> DEFINE x == p.steps[s].condOut
               k == p.steps[s].models[1]
               e == p.steps[t].models[2]
    <3>6. k \in DOMAIN p.models /\ e \in DOMAIN p.models /\ k # e /\ x = <<k, x[2]>>
      BY <3>3, <3>4, <3>5
    <3>7. x \in Outs(p, e) BY <3>1
    <3> HIDE DEF x, k, e
    <3> QED BY <3>6, <3>7, OtherModels
  <2> QED BY <2>3, <2>4, <2>5
<1> QED BY <1>1, <1>2, <1>3

-------------------------------------------------------------------------------
(* What is known of the maps while the steps of a plan are executed *)

Stages == {"condition", "body"}
Iterations == {kOutsideLoop, "first", "later"}

\* Temporaries and constants are where makeController put them, except that outputs of bodies
\* may have changed their two places.
IsPermanent(p, c, two) ==
    /\ \A x \in (Temporaries(p) \ BodyOutputs(p)) \cup CopiesOf(p) :
           x \in DOMAIN c[1] /\ c[1][x] = Location("temporary", x)
    /\ \A x \in ReferencesOf(p) : x \in DOMAIN c[4] /\ c[4][x] = Location("constant", x)
    /\ \A x \in BodyOutputs(p) :
           /\ x \in DOMAIN c[1] /\ x \in DOMAIN two
           /\ \/ c[1][x] = Location("temporary", x) /\ two[x] = Location("second temporary", x)
              \/ c[1][x] = Location("second temporary", x) /\ two[x] = Location("temporary", x)

\* The maps for inputs and for constants have nothing that can be written.
AreMaps(p, c) ==
    /\ AreDisjoint(c)
    /\ DOMAIN c[2] \subseteq Inputs(p)
    /\ DOMAIN c[4] \subseteq Inputs(p) \cup ReferencesOf(p)

\* Of what model k gets, nothing was made for a later model, except that the condition of a
\* loop gets the outputs of the body.
NotLater(p, k, n) ==
    n <= k \/ \E s \in StepsOf(p, "while") : k = p.steps[s].models[1] /\ n <= p.steps[s].models[2]

Operands(p, k) == Ins(p, k) \cup Outs(p, k)

\* Inputs and outputs of model k have locations; none of them is that of a temporary or constant
\* of the model, and none is shared by an output with anything else.
IsSound(p, c, k) ==
    /\ \A x \in Operands(p, k) :
           /\ In(c, x) # Nowhere
           /\ In(c, x).for[1] \in Nat /\ NotLater(p, k, In(c, x).for[1])
           /\ In(c, x).for[1] = k => In(c, x).for \in Operands(p, k)
    /\ \A x \in Outs(p, k), y \in Operands(p, k) : x # y => In(c, x) # In(c, y)

\* While the condition of a loop is computed, its inputs are those of the WHILE or what the body
\* has put out.
HasCondition(c, step, state) ==
    state.stage = "body" => \A i \in DOMAIN step.condIns :
        In(c, step.condIns[i]) = IF state.iteration = "later" /\ i \in DOMAIN step.bodyOuts
                                 THEN c[1][step.bodyOuts[i]] ELSE In(c, step.outerIns[i])

\* A loop is going on only while one of its models is active, or at its WHILE.
IsInside(p, here, i, state) ==
    /\ state.iteration # kOutsideLoop =>
           here = i \/ \E b \in {1, 2} : p.steps[i].models[b] \in Active(p, here)
    /\ state.stage = "body" => /\ state.iteration # kOutsideLoop
                               /\ here = i \/ p.steps[i].models[1] \in Active(p, here)

\* What is true of an execution that is at step here.
RunInv(p, here, c, two, loops) ==
    /\ IsPermanent(p, c, two)
    /\ AreMaps(p, c)
    /\ \A k \in Active(p, here) : IsSound(p, c, k)
    /\ DOMAIN loops = StepsOf(p, "while")
    /\ \A i \in StepsOf(p, "while") : /\ HasCondition(c, p.steps[i], loops[i])
                                      /\ IsInside(p, here, i, loops[i])

\* Of a location it is known for which operand it was made.
LEMMA LocationIs ==
    ASSUME NEW place, NEW x
    PROVE  Location(place, x).for = x /\ (place # "nowhere" => Location(place, x) # Nowhere)
BY DEF Location, Nowhere

\* Temporaries and constants are where makeController put them.
LEMMA PermanentIn ==
    ASSUME NEW p, NEW c, NEW two, IsPermanent(p, c, two), AreDisjoint(c),
           BodyOutputs(p) \subseteq Temporaries(p),
           NEW x \in Temporaries(p) \cup CopiesOf(p) \cup ReferencesOf(p)
    PROVE  /\ In(c, x).for = x /\ In(c, x) # Nowhere
           /\ x \notin ReferencesOf(p) => x \in DOMAIN c[1] /\ In(c, x) = c[1][x]
<1>1. 1 \in InputKinds /\ 4 \in InputKinds /\ InputKinds \in SUBSET Kinds BY KindsAre
<1>2. CASE x \in ReferencesOf(p)
  <2>1. x \in DOMAIN c[4] /\ c[4][x] = Location("constant", x) BY <1>2 DEF IsPermanent
  <2>2. In(c, x) = Location("constant", x) BY <1>1, <2>1, FoundOnce DEF In
  <2> QED BY <1>2, <2>2, LocationIs
<1>3. CASE x \notin ReferencesOf(p)
  <2>1. x \in DOMAIN c[1]
        /\ (c[1][x] = Location("temporary", x) \/ c[1][x] = Location("second temporary", x))
    <3>1. CASE x \in BodyOutputs(p) BY <3>1 DEF IsPermanent
    <3>2. CASE x \notin BodyOutputs(p) BY <1>3, <3>2 DEF IsPermanent
    <3> QED BY <3>1, <3>2
  <2>2. In(c, x) = c[1][x] BY <1>1, <2>1, FoundOnce DEF In
  <2> QED BY <2>1, <2>2, LocationIs
<1> QED BY <1>2, <1>3

\* An operand of a model that is active has a location, made for the model or an earlier one.
LEMMA OperandIs ==
    ASSUME NEW g, NEW p, IsPlan(g, p), NEW c, NEW two, IsPermanent(p, c, two), AreMaps(p, c),
           NEW k \in DOMAIN p.models, IsSound(p, c, k), NEW x, IsOperand(p, k, x)
    PROVE  /\ x = <<k, x[2]>>
           /\ In(c, x) # Nowhere
           /\ In(c, x).for[1] \in Nat /\ NotLater(p, k, In(c, x).for[1])
           /\ \/ x \in Operands(p, k)
              \/ x \notin Operands(p, k) /\ In(c, x).for = x
           /\ LifetimeOf(p, x) \in Writable => x \notin DOMAIN c[2] /\ x \notin DOMAIN c[4]
<1>1. x = <<k, x[2]>> BY DEF IsOperand
<1>2. ASSUME x \in Operands(p, k)
      PROVE  /\ In(c, x) # Nowhere
             /\ In(c, x).for[1] \in Nat /\ NotLater(p, k, In(c, x).for[1])
             /\ x \notin Operands(p, k) => In(c, x).for = x
  BY <1>2, Zenon DEF IsSound
<1>3. ASSUME x \notin Operands(p, k)
      PROVE  /\ In(c, x) # Nowhere
             /\ In(c, x).for[1] \in Nat /\ NotLater(p, k, In(c, x).for[1])
             /\ x \notin Operands(p, k) => In(c, x).for = x
  <2>1. LifetimeOf(p, x) \notin {"SUBGRAPH_INPUT", "SUBGRAPH_OUTPUT"}
    BY <1>1, <1>3, OperandsAre DEF Operands
  <2>2. x \in Temporaries(p) \cup CopiesOf(p) \cup ReferencesOf(p) BY <2>1 DEF IsOperand
  <2>3. In(c, x).for = x /\ In(c, x) # Nowhere
    BY <2>2, BodyOutputsAre, PermanentIn DEF AreMaps
  <2>4. In(c, x).for[1] = k BY <1>1, <2>3
  <2>5. k \in Nat /\ NotLater(p, k, k)
    <3>1. k \in Nat
      <4>1. Len(p.models) \in Nat /\ DOMAIN p.models = 1 .. Len(p.models) BY PlanIs
      <4> QED BY <4>1
    <3> QED BY <3>1 DEF NotLater
  <2> QED BY <1>3, <2>3, <2>4, <2>5
<1>4. ASSUME LifetimeOf(p, x) \in Writable PROVE x \notin DOMAIN c[2] /\ x \notin DOMAIN c[4]
  <2>1. x \notin Inputs(p)
    <3>1. ASSUME NEW e \in DOMAIN p.models, x \in Ins(p, e) PROVE FALSE
      <4>1. LifetimeOf(p, x) = "SUBGRAPH_INPUT" BY <3>1, OperandsAre
      <4> QED BY <1>4, <4>1 DEF Writable
    <3> QED BY <3>1 DEF Inputs
  <2>2. x \notin ReferencesOf(p)
    BY <1>4 DEF Writable, ReferencesOf, findControlFlowBoundaryConstants
  <2> QED BY <2>1, <2>2 DEF AreMaps
<1> QED BY <1>1, <1>2, <1>3, <1>4

\* What can be written is in a place of its own.
LEMMA Separated ==
    ASSUME NEW g, NEW p, IsPlan(g, p), NEW c, NEW two, IsPermanent(p, c, two), AreMaps(p, c),
           NEW k \in DOMAIN p.models, IsSound(p, c, k),
           NEW x, IsOperand(p, k, x), LifetimeOf(p, x) \in Writable,
           NEW y, IsOperand(p, k, y), x # y
    PROVE  In(c, x) # In(c, y)
<1>1. /\ x = <<k, x[2]>> /\ y = <<k, y[2]>>
      /\ x \in Operands(p, k) \/ (x \notin Operands(p, k) /\ In(c, x).for = x)
      /\ y \in Operands(p, k) \/ (y \notin Operands(p, k) /\ In(c, y).for = y)
  BY OperandIs
<1>2. \A z \in Operands(p, k) : In(c, z).for[1] = k => In(c, z).for \in Operands(p, k)
  BY DEF IsSound
<1>3. CASE x \in Operands(p, k) /\ y \in Operands(p, k)
  <2>1. x \in Outs(p, k)
    <3>1. x \in Ins(p, k) => LifetimeOf(p, x) = "SUBGRAPH_INPUT" BY OperandsAre
    <3> QED BY <1>3, <3>1 DEF Operands, Writable
  <2> QED BY <1>3, <2>1 DEF IsSound
<1>4. CASE x \in Operands(p, k) /\ y \notin Operands(p, k)
  <2>1. In(c, y).for = y /\ y[1] = k BY <1>1, <1>4
  <2> QED BY <1>2, <1>4, <2>1
<1>5. CASE x \notin Operands(p, k) /\ y \in Operands(p, k)
  <2>1. In(c, x).for = x /\ x[1] = k BY <1>1, <1>5
  <2> QED BY <1>2, <1>5, <2>1
<1>6. CASE x \notin Operands(p, k) /\ y \notin Operands(p, k) BY <1>1, <1>6
<1> QED BY <1>3, <1>4, <1>5, <1>6

-------------------------------------------------------------------------------
(* Into a model and out of models *)

\* A jump leaves models, and with them perhaps the loop that it goes back to.
LEMMA Jump ==
    ASSUME NEW p, NEW c, NEW two, NEW here, NEW j, NEW loops, NEW left,
           RunInv(p, here, c, two, loops), IsJump(p, here, j),
           DOMAIN left = StepsOf(p, "while"),
           \A i \in StepsOf(p, "while") :
               IF i = here THEN left[i].stage = "condition" /\ left[i].iteration = kOutsideLoop
               ELSE left[i] = loops[i]
    PROVE  RunInv(p, j, c, two, left)
<1>1. /\ IsPermanent(p, c, two) /\ AreMaps(p, c)
      /\ \A k \in Active(p, here) : IsSound(p, c, k)
      /\ \A i \in StepsOf(p, "while") : /\ HasCondition(c, p.steps[i], loops[i])
                                        /\ IsInside(p, here, i, loops[i])
  BY Zenon DEF RunInv
<1>2. /\ Active(p, j) \subseteq Active(p, here)
      /\ \A s \in StepsOf(p, "while"), b \in {1, 2} :
             p.steps[s].models[b] \in Active(p, here) \ Active(p, j) => j = s
  BY DEF IsJump
<1>3. \A k \in Active(p, j) : IsSound(p, c, k) BY <1>1, <1>2
<1>4. ASSUME NEW i \in StepsOf(p, "while")
      PROVE  HasCondition(c, p.steps[i], left[i]) /\ IsInside(p, j, i, left[i])
  <2>1. CASE i = here
    <3>1. left[i].stage = "condition" /\ left[i].iteration = kOutsideLoop BY <2>1
    <3>2. left[i].stage # "body" BY <3>1
    <3> QED BY <3>1, <3>2, Zenon DEF HasCondition, IsInside
  <2>2. CASE i # here
    <3>1. left[i] = loops[i] /\ HasCondition(c, p.steps[i], loops[i]) BY <1>1, <2>2
    <3> DEFINE Has(b) == p.steps[i].models[b] \in Active(p, here)
               Keeps(b) == p.steps[i].models[b] \in Active(p, j)
    <3>2. \A b \in {1, 2} : Has(b) => j = i \/ Keeps(b) BY <1>2
    <3>3. /\ loops[i].iteration # kOutsideLoop => \E b \in {1, 2} : Has(b)
          /\ loops[i].stage = "body" => loops[i].iteration # kOutsideLoop /\ Has(1)
      BY <1>1, <2>2 DEF IsInside
    <3> HIDE DEF Has, Keeps
    <3>4. /\ loops[i].iteration # kOutsideLoop => j = i \/ \E b \in {1, 2} : Keeps(b)
          /\ loops[i].stage = "body" => loops[i].iteration # kOutsideLoop /\ (j = i \/ Keeps(1))
      BY <3>2, <3>3
    <3>5. IsInside(p, j, i, loops[i]) BY <3>4, Zenon DEF IsInside, Keeps
    <3> QED BY <3>1, <3>5
  <2> QED BY <2>1, <2>2
<1> QED BY <1>1, <1>3, <1>4, Zenon DEF RunInv

\* Into a model that is not active go new locations for its operands, and nothing else changes.
LEMMA Enter ==
    ASSUME NEW g, NEW p, IsPlan(g, p), NEW c, NEW two, NEW d, NEW other, NEW loops, NEW entered,
           NEW s \in StepsOf(p, "while") \cup StepsOf(p, "if"), NEW b \in {1, 2}, NEW j,
           RunInv(p, s, c, two, loops),
           IsEntry(p, s, p.steps[s].models[b], j), s \in 1 .. Len(p.steps) + 1,
           AreMaps(p, d), IsPermanent(p, d, other), IsSound(p, d, p.steps[s].models[b]),
           \A x : x \notin Operands(p, p.steps[s].models[b]) => IsSame(c, d, x),
           DOMAIN entered = StepsOf(p, "while"),
           \A i \in StepsOf(p, "while") : i # s => entered[i] = loops[i],
           s \in StepsOf(p, "while") => /\ HasCondition(d, p.steps[s], entered[s])
                                        /\ IsInside(p, j, s, entered[s])
    PROVE  RunInv(p, j, d, other, entered)
<1> DEFINE e == p.steps[s].models[b]
<1>1. /\ IsPermanent(p, c, two) /\ AreMaps(p, c)
      /\ \A k \in Active(p, s) : IsSound(p, c, k)
      /\ \A i \in StepsOf(p, "while") : /\ HasCondition(c, p.steps[i], loops[i])
                                        /\ IsInside(p, s, i, loops[i])
  BY Zenon DEF RunInv
<1>2. /\ e \in DOMAIN p.models /\ e \notin Active(p, s)
      /\ Active(p, j) = Active(p, s) \cup {e}
  BY DEF IsEntry
<1>3. \A k \in Active(p, s) : k \in DOMAIN p.models /\ k # e BY <1>2, ActiveIs
<1>4. ASSUME NEW k \in DOMAIN p.models, k # e, NEW x, x = <<k, x[2]>>
      PROVE  x \notin Operands(p, e) /\ IsSame(c, d, x) /\ In(d, x) = In(c, x)
  <2>1. x \notin Operands(p, e) BY <1>2, <1>4, OtherModels DEF Operands
  <2>2. IsSame(c, d, x) BY <2>1
  <2>3. InputKinds \in SUBSET Kinds BY KindsAre
  <2> QED BY <2>1, <2>2, <2>3, SameIsFound DEF In
<1>5. ASSUME NEW k \in Active(p, s) PROVE IsSound(p, d, k)
  <2>1. k \in DOMAIN p.models /\ k # e /\ IsSound(p, c, k) BY <1>1, <1>3
  <2>2. \A x \in Operands(p, k) : In(d, x) = In(c, x)
    <3>1. \A x \in Operands(p, k) : x = <<k, x[2]>> BY <2>1, OperandsAre DEF Operands
    <3> QED BY <1>4, <2>1, <3>1
  <2>3. Outs(p, k) \subseteq Operands(p, k) BY DEF Operands
  <2> QED BY <2>1, <2>2, <2>3 DEF IsSound
<1>6. \A k \in Active(p, j) : IsSound(p, d, k) BY <1>2, <1>5
<1>7. ASSUME NEW i \in StepsOf(p, "while"), i # s
      PROVE  HasCondition(d, p.steps[i], entered[i]) /\ IsInside(p, j, i, entered[i])
  <2>1. entered[i] = loops[i] BY <1>7
  <2>2. HasCondition(c, p.steps[i], loops[i]) /\ IsInside(p, s, i, loops[i]) BY <1>1
  <2>3. IsInside(p, j, i, loops[i])
    <3> DEFINE Has(a) == p.steps[i].models[a] \in Active(p, s)
               Keeps(a) == p.steps[i].models[a] \in Active(p, j)
    <3>1. \A a \in {1, 2} : Has(a) => Keeps(a) BY <1>2
    <3>2. /\ loops[i].iteration # kOutsideLoop => \E a \in {1, 2} : Has(a)
          /\ loops[i].stage = "body" => loops[i].iteration # kOutsideLoop /\ Has(1)
      BY <1>7, <2>2 DEF IsInside
    <3> HIDE DEF Has, Keeps
    <3>3. /\ loops[i].iteration # kOutsideLoop => \E a \in {1, 2} : Keeps(a)
          /\ loops[i].stage = "body" => loops[i].iteration # kOutsideLoop /\ Keeps(1)
      BY <3>1, <3>2
    <3> QED BY <3>3, Zenon DEF IsInside, Keeps
  <2>4. ASSUME loops[i].stage = "body" PROVE HasCondition(d, p.steps[i], loops[i])
    <3> DEFINE step == p.steps[i]
               k == step.model
               m1 == step.models[1]
               m2 == step.models[2]
    <3>1. m1 \in Active(p, s) BY <1>7, <2>2, <2>4 DEF IsInside
    <3>2. /\ k \in DOMAIN p.models /\ AreArguments(p, k, step.outerIns, step.outerOuts)
          /\ m1 \in DOMAIN p.models /\ m2 \in DOMAIN p.models
          /\ IsList(step.condIns) /\ ToSet(step.condIns) = Ins(p, m1)
          /\ IsList(step.bodyOuts) /\ ToSet(step.bodyOuts) = Outs(p, m2)
          /\ Len(step.condIns) = Len(step.outerIns)
          /\ \A a \in {1, 2} : step.models[a] \in Active(p, s) => k \in Active(p, s)
      BY WhileIs
    <3>3. k \in Active(p, s)
      <4>1. 1 \in {1, 2} OBVIOUS
      <4> QED BY <3>1, <3>2, <4>1
    <3>4. k # e /\ m1 # e BY <1>3, <3>1, <3>3
    <3>5. m2 # e BY <1>7, ReferencedAre
    <3>6. \A n \in DOMAIN step.outerIns : IsOperand(p, k, step.outerIns[n])
          /\ DOMAIN step.outerIns = 1 .. Len(step.outerIns)
      BY <3>2, ArgumentsAre
    <3>7. DOMAIN step.condIns = 1 .. Len(step.condIns) BY <3>2 DEF IsList, IsSequence
    <3>8. ASSUME NEW n \in DOMAIN step.condIns
          PROVE  /\ In(d, step.condIns[n]) = In(c, step.condIns[n])
                 /\ In(d, step.outerIns[n]) = In(c, step.outerIns[n])
      <4>1. step.condIns[n] = <<m1, step.condIns[n][2]>>
        <5>1. step.condIns[n] \in Ins(p, m1) BY <3>2 DEF ToSet
        <5> QED BY <3>2, <5>1, OperandsAre
      <4>2. step.outerIns[n] = <<k, step.outerIns[n][2]>>
        <5>1. n \in DOMAIN step.outerIns BY <3>2, <3>6, <3>7
        <5> QED BY <3>6, <5>1 DEF IsOperand
      <4> HIDE DEF step, k, m1, e
      <4> QED BY <1>4, <3>2, <3>4, <4>1, <4>2
    <3>9. ASSUME NEW n \in DOMAIN step.bodyOuts
          PROVE  d[1][step.bodyOuts[n]] = c[1][step.bodyOuts[n]]
      <4> DEFINE x == step.bodyOuts[n]
      <4>1. x \in Outs(p, m2) BY <3>2 DEF ToSet
      <4>2. x = <<m2, x[2]>> BY <3>2, <4>1, OperandsAre
      <4>3. IsSame(c, d, x)
        <5> HIDE DEF x, m2, e
        <5> QED BY <1>4, <3>2, <3>5, <4>2
      <4>4. x \in DOMAIN c[1] BY <1>1, <4>1, BodyOutputsAre DEF IsPermanent
      <4>5. 1 \in Kinds BY KindsAre
      <4> QED BY <4>3, <4>4, <4>5 DEF IsSame
    <3> HIDE DEF step, k, m1, m2
    <3>10. HasCondition(c, step, loops[i]) BY <2>2 DEF step
    <3> QED BY <3>8, <3>9, <3>10 DEF HasCondition, step
  <2>5. HasCondition(d, p.steps[i], loops[i])
    BY <2>4, Zenon DEF HasCondition
  <2> QED BY <2>1, <2>3, <2>5
<1>8. \A i \in StepsOf(p, "while") : /\ HasCondition(d, p.steps[i], entered[i])
                                     /\ IsInside(p, j, i, entered[i])
  BY <1>7
<1> HIDE DEF e
<1> QED BY <1>6, <1>8, Zenon DEF RunInv

\* A model that is entered is later than all whose locations the step knows.
LEMMA Later ==
    ASSUME NEW g, NEW p, IsPlan(g, p), NEW s \in StepsOf(p, "while") \cup StepsOf(p, "if"),
           NEW b \in {1, 2}, NEW j, IsEntry(p, s, p.steps[s].models[b], j),
           p.steps[s].model \in DOMAIN p.models,
           NEW n \in Nat, NotLater(p, p.steps[s].model, n)
    PROVE  n < p.steps[s].models[b]
<1> DEFINE e == p.steps[s].models[b]
           k == p.steps[s].model
<1>1. /\ e \in DOMAIN p.models /\ k < e
      /\ \A step \in WhileSteps(p), a \in {1, 2} : k = step.models[a] => step.models[2] < e
  BY DEF IsEntry
<1>2. e \in Nat /\ k \in Nat
  <2>1. Len(p.models) \in Nat /\ DOMAIN p.models = 1 .. Len(p.models) BY PlanIs
  <2> QED BY <1>1, <2>1
<1>3. CASE n <= k BY <1>1, <1>2, <1>3
<1>4. ASSUME NEW t \in StepsOf(p, "while"), k = p.steps[t].models[1], n <= p.steps[t].models[2]
      PROVE  n < e
  <2> DEFINE m == p.steps[t].models[2]
  <2>1. m < e
    <3>1. p.steps[t] \in WhileSteps(p) /\ 1 \in {1, 2} BY DEF WhileSteps
    <3> QED BY <1>1, <1>4, <3>1
  <2>2. m \in Nat
    <3>1. m \in DOMAIN p.models BY ReferencedAre
    <3>2. Len(p.models) \in Nat /\ DOMAIN p.models = 1 .. Len(p.models) BY PlanIs
    <3> QED BY <3>1, <3>2
  <2> QED BY <1>2, <1>4, <2>1, <2>2
<1> QED BY <1>3, <1>4 DEF NotLater

\* SetMaps puts four maps together again.
LEMMA Tuple ==
    ASSUME NEW d, AreDisjoint(d)
    PROVE  LET t == <<d[1], d[2], d[3], d[4]>> IN
           /\ AreDisjoint(t)
           /\ \A k \in Kinds : t[k] = d[k]
           /\ \A x : IsSame(d, t, x) /\ In(t, x) = In(d, x)
<1> DEFINE t == <<d[1], d[2], d[3], d[4]>>
<1>1. Kinds = {1, 2, 3, 4} /\ InputKinds \in SUBSET Kinds BY KindsAre
<1>2. t[1] = d[1] /\ t[2] = d[2] /\ t[3] = d[3] /\ t[4] = d[4] /\ DOMAIN t = {1, 2, 3, 4}
  OBVIOUS
<1> HIDE DEF t
<1>3. \A k \in Kinds : t[k] = d[k] BY <1>1, <1>2
<1>4. DOMAIN t = Kinds BY <1>1, <1>2
<1>5. AreDisjoint(t) BY <1>3, <1>4 DEF AreDisjoint
<1>6. \A x : IsSame(d, t, x) BY <1>3 DEF IsSame
<1>7. \A x : In(t, x) = In(d, x) BY <1>1, <1>6, SameIsFound DEF In
<1> QED BY <1>3, <1>5, <1>6, <1>7 DEF t

\* What can be written is never found among the inputs and constants.
LEMMA OutputsAre ==
    ASSUME NEW g, NEW p, IsPlan(g, p), NEW c, AreMaps(p, c), NEW x,
           LifetimeOf(p, x) \in Writable
    PROVE  x \notin DOMAIN c[2] /\ x \notin DOMAIN c[4]
<1>1. x \notin Inputs(p)
  <2>1. ASSUME NEW e \in DOMAIN p.models, x \in Ins(p, e) PROVE FALSE
    <3>1. LifetimeOf(p, x) = "SUBGRAPH_INPUT" BY <2>1, OperandsAre
    <3> QED BY <3>1 DEF Writable
  <2> QED BY <2>1 DEF Inputs
<1>2. x \notin ReferencesOf(p) BY DEF Writable, ReferencesOf, findControlFlowBoundaryConstants
<1> QED BY <1>1, <1>2 DEF AreMaps

\* Giving locations to the operands of a model keeps the maps apart.
LEMMA MapsStay ==
    ASSUME NEW g, NEW p, IsPlan(g, p), NEW c, AreMaps(p, c), NEW d, AreDisjoint(d),
           NEW e \in DOMAIN p.models,
           \A x : x \notin Operands(p, e) => IsSame(c, d, x),
           \A x \in Outs(p, e) : x \notin DOMAIN d[2] /\ x \notin DOMAIN d[4]
    PROVE  AreMaps(p, d)
<1>1. 2 \in Kinds /\ 4 \in Kinds BY KindsAre
<1>2. Ins(p, e) \subseteq Inputs(p) BY DEF Inputs
<1>3. ASSUME NEW x \in DOMAIN d[2] PROVE x \in Inputs(p)
  <2>1. CASE x \in Operands(p, e) BY <1>2, <2>1 DEF Operands
  <2>2. CASE x \notin Operands(p, e)
    <3>1. x \in DOMAIN c[2] BY <1>1, <2>2 DEF IsSame
    <3> QED BY <3>1 DEF AreMaps
  <2> QED BY <2>1, <2>2
<1>4. ASSUME NEW x \in DOMAIN d[4] PROVE x \in Inputs(p) \cup ReferencesOf(p)
  <2>1. CASE x \in Operands(p, e) BY <1>2, <2>1 DEF Operands
  <2>2. CASE x \notin Operands(p, e)
    <3>1. x \in DOMAIN c[4] BY <1>1, <2>2 DEF IsSame
    <3> QED BY <3>1 DEF AreMaps
  <2> QED BY <2>1, <2>2
<1> QED BY <1>3, <1>4 DEF AreMaps

\* Maps that agree on what is permanent have it in the same places.
LEMMA PermanentStays ==
    ASSUME NEW p, NEW c, NEW two, IsPermanent(p, c, two), NEW d,
           BodyOutputs(p) \subseteq Temporaries(p),
           \A x \in Temporaries(p) \cup CopiesOf(p) \cup ReferencesOf(p) : IsSame(c, d, x)
    PROVE  IsPermanent(p, d, two)
<1>1. 1 \in Kinds /\ 4 \in Kinds BY KindsAre
<1>2. ASSUME NEW x \in (Temporaries(p) \ BodyOutputs(p)) \cup CopiesOf(p)
      PROVE  x \in DOMAIN d[1] /\ d[1][x] = Location("temporary", x)
  <2>1. x \in DOMAIN c[1] /\ c[1][x] = Location("temporary", x) BY DEF IsPermanent
  <2>2. IsSame(c, d, x) OBVIOUS
  <2> QED BY <1>1, <2>1, <2>2 DEF IsSame
<1>3. ASSUME NEW x \in ReferencesOf(p)
      PROVE  x \in DOMAIN d[4] /\ d[4][x] = Location("constant", x)
  <2>1. x \in DOMAIN c[4] /\ c[4][x] = Location("constant", x) BY DEF IsPermanent
  <2>2. IsSame(c, d, x) OBVIOUS
  <2> QED BY <1>1, <2>1, <2>2 DEF IsSame
<1>4. ASSUME NEW x \in BodyOutputs(p) PROVE x \in DOMAIN d[1] /\ d[1][x] = c[1][x]
  <2>1. x \in DOMAIN c[1] BY DEF IsPermanent
  <2>2. IsSame(c, d, x) OBVIOUS
  <2> QED BY <1>1, <2>1, <2>2 DEF IsSame
<1>5. ASSUME NEW x \in BodyOutputs(p)
      PROVE  /\ x \in DOMAIN d[1] /\ x \in DOMAIN two
             /\ \/ d[1][x] = Location("temporary", x) /\ two[x] = Location("second temporary", x)
                \/ d[1][x] = Location("second temporary", x) /\ two[x] = Location("temporary", x)
  BY <1>4, Zenon DEF IsPermanent
<1> QED BY <1>2, <1>3, <1>5, Zenon DEF IsPermanent

\* An IF: the branch gets the locations of the inputs and outputs of the operation.
LEMMA Branch ==
    ASSUME NEW g, NEW p, IsPlan(g, p), NEW c, NEW two, NEW loops,
           NEW s \in StepsOf(p, "if"), NEW b \in {1, 2}, RunInv(p, s, c, two, loops)
    PROVE  LET step == p.steps[s]
               a == setInputs(c, step.outerIns, step.ins[b])
               d == setOutputs(a, step.outerOuts, step.outs[b]) IN
           /\ CanSetInputs(c, step.outerIns, step.ins[b])
           /\ CanSetOutputs(a, step.outerOuts, step.outs[b])
           /\ RunInv(p, step.steps[b], <<d[1], d[2], d[3], d[4]>>, two, loops)
<1> DEFINE step == p.steps[s]
           k == step.model
           e == step.models[b]
           ins == step.ins[b]
           outs == step.outs[b]
           outerIns == step.outerIns
           outerOuts == step.outerOuts
           a == setInputs(c, outerIns, ins)
           d == setOutputs(a, outerOuts, outs)
           t == <<d[1], d[2], d[3], d[4]>>
<1>1. /\ s \in DOMAIN p.steps
      /\ k \in Active(p, s) /\ k \in DOMAIN p.models
      /\ AreArguments(p, k, outerIns, outerOuts)
      /\ e \in DOMAIN p.models \ Active(p, s) /\ k < e
      /\ IsEntry(p, s, e, step.steps[b])
      /\ IsList(ins) /\ ToSet(ins) = Ins(p, e)
      /\ IsList(outs) /\ ToSet(outs) = Outs(p, e)
      /\ Len(ins) = Len(outerIns) /\ Len(outs) = Len(outerOuts)
  BY IfIs
<1>2. /\ IsPermanent(p, c, two) /\ AreMaps(p, c) /\ AreDisjoint(c) /\ IsSound(p, c, k)
      /\ DOMAIN loops = StepsOf(p, "while")
  BY <1>1 DEF RunInv, AreMaps
<1>3. /\ Len(outerIns) \in Nat /\ DOMAIN outerIns = 1 .. Len(outerIns)
      /\ Len(outerOuts) \in Nat /\ DOMAIN outerOuts = 1 .. Len(outerOuts)
      /\ \A i \in DOMAIN outerIns : IsOperand(p, k, outerIns[i])
      /\ \A i \in DOMAIN outerOuts : /\ IsOperand(p, k, outerOuts[i])
                                     /\ LifetimeOf(p, outerOuts[i]) \in Writable
      /\ \A i, l \in DOMAIN outerOuts : i # l => outerOuts[i] # outerOuts[l]
      /\ \A i \in DOMAIN outerIns, l \in DOMAIN outerOuts : outerIns[i] # outerOuts[l]
  BY <1>1, ArgumentsAre
<1>4. \A x : IsOperand(p, k, x) => /\ x \notin Operands(p, e)
                                   /\ In(c, x) # Nowhere
                                   /\ In(c, x).for[1] \in Nat /\ NotLater(p, k, In(c, x).for[1])
                                   /\ In(c, x).for[1] < e
  <2> SUFFICES ASSUME NEW x, IsOperand(p, k, x)
               PROVE  /\ x \notin Operands(p, e)
                      /\ In(c, x) # Nowhere
                      /\ In(c, x).for[1] \in Nat /\ NotLater(p, k, In(c, x).for[1])
                      /\ In(c, x).for[1] < e
    OBVIOUS
  <2>1. /\ x = <<k, x[2]>> /\ In(c, x) # Nowhere
        /\ In(c, x).for[1] \in Nat /\ NotLater(p, k, In(c, x).for[1])
    BY <1>1, <1>2, OperandIs
  <2>2. k # e /\ e \in DOMAIN p.models BY <1>1
  <2>3. x \notin Operands(p, e)
    <3> HIDE DEF k, e
    <3> QED BY <1>1, <2>1, <2>2, OtherModels DEF Operands
  <2>4. In(c, x).for[1] < e BY <1>1, <2>1, Later
  <2> QED BY <2>1, <2>3, <2>4
<1>5. Operands(p, e) = ToSet(ins) \cup ToSet(outs) /\ ToSet(ins) \cap ToSet(outs) = {}
  BY <1>1, InsAndOuts DEF Operands
<1>6. /\ DOMAIN ins = 1 .. Len(ins) /\ DOMAIN outs = 1 .. Len(outs)
      /\ \A i \in 1 .. Len(ins) : ins[i] \in ToSet(ins)
      /\ \A i \in 1 .. Len(outs) : outs[i] \in ToSet(outs)
      /\ \A x \in ToSet(ins) : \E i \in 1 .. Len(ins) : x = ins[i]
      /\ \A x \in ToSet(outs) : \E i \in 1 .. Len(outs) : x = outs[i]
  <2>1. DOMAIN ins = 1 .. Len(ins) /\ DOMAIN outs = 1 .. Len(outs)
    BY <1>1 DEF IsList, IsSequence
  <2> HIDE DEF ins, outs
  <2> QED BY <2>1 DEF ToSet
<1>7. \A x \in ToSet(outs) : LifetimeOf(p, x) \in Writable BY <1>1, OperandsAre DEF Writable
<1> HIDE DEF step, k, e, ins, outs, outerIns, outerOuts, a, d
<1>8. /\ CanSetInputs(c, outerIns, ins)
      /\ AreDisjoint(a)
      /\ \A x : x \notin ToSet(ins) => IsSame(c, a, x)
      /\ \A i \in 1 .. Len(ins) : In(a, ins[i]) = In(c, outerIns[i])
  <2>1. \A i \in 1 .. Len(ins) : outerIns[i] \notin ToSet(ins) /\ In(c, outerIns[i]) # Nowhere
    BY <1>1, <1>3, <1>4, <1>5
  <2> QED BY <1>1, <1>2, <2>1, AsInputs DEF a
<1>9. \A x : x \notin ToSet(ins) =>
          /\ In(a, x) = In(c, x)
          /\ LifetimeOf(p, x) \in Writable => x \notin DOMAIN a[2] /\ x \notin DOMAIN a[4]
  <2>1. InputKinds \in SUBSET Kinds /\ 2 \in Kinds /\ 4 \in Kinds BY KindsAre
  <2> SUFFICES ASSUME NEW x, x \notin ToSet(ins)
               PROVE  /\ In(a, x) = In(c, x)
                      /\ LifetimeOf(p, x) \in Writable =>
                             x \notin DOMAIN a[2] /\ x \notin DOMAIN a[4]
    OBVIOUS
  <2>2. IsSame(c, a, x) BY <1>8
  <2>3. In(a, x) = In(c, x) BY <2>1, <2>2, SameIsFound DEF In
  <2>4. LifetimeOf(p, x) \in Writable => x \notin DOMAIN c[2] /\ x \notin DOMAIN c[4]
    BY <1>2, OutputsAre
  <2> QED BY <2>1, <2>2, <2>3, <2>4 DEF IsSame
<1>10. /\ CanSetOutputs(a, outerOuts, outs)
       /\ AreDisjoint(d)
       /\ \A x : x \notin ToSet(outs) => IsSame(a, d, x)
       /\ \A x \in ToSet(outs) : x \notin DOMAIN d[2] /\ x \notin DOMAIN d[4]
       /\ \A i \in 1 .. Len(outs) : In(d, outs[i]) = In(c, outerOuts[i])
  <2>1. \A i \in 1 .. Len(outs) :
            /\ outerOuts[i] \notin ToSet(outs)
            /\ In(a, outerOuts[i]) = In(c, outerOuts[i])
            /\ In(a, outerOuts[i]) # Nowhere
            /\ outerOuts[i] \notin DOMAIN a[2] /\ outerOuts[i] \notin DOMAIN a[4]
    BY <1>1, <1>3, <1>4, <1>5, <1>9
  <2>2. \A x \in ToSet(outs) : x \notin DOMAIN a[2] /\ x \notin DOMAIN a[4] BY <1>5, <1>7, <1>9
  <2>3. /\ CanSetOutputs(a, outerOuts, outs)
        /\ AreDisjoint(d)
        /\ \A x : x \notin ToSet(outs) => IsSame(a, d, x)
        /\ \A x \in ToSet(outs) : x \notin DOMAIN d[2] /\ x \notin DOMAIN d[4]
        /\ \A i \in 1 .. Len(outs) : In(d, outs[i]) = In(a, outerOuts[i])
    BY <1>1, <1>8, <2>1, <2>2, AsOutputs DEF d
  <2> QED BY <2>1, <2>3
<1>11. \A x : x \notin Operands(p, e) => IsSame(c, d, x)
  BY <1>5, <1>8, <1>10 DEF IsSame
<1>12. \A i \in 1 .. Len(ins) : In(d, ins[i]) = In(c, outerIns[i])
  <2>1. InputKinds \in SUBSET Kinds BY KindsAre
  <2>2. ASSUME NEW i \in 1 .. Len(ins) PROVE In(d, ins[i]) = In(a, ins[i])
    <3>1. IsSame(a, d, ins[i]) BY <1>5, <1>6, <1>10
    <3> QED BY <2>1, <3>1, SameIsFound DEF In
  <2> QED BY <1>8, <2>2
<1>13. /\ AreDisjoint(t)
       /\ \A l \in Kinds : t[l] = d[l]
       /\ \A x : IsSame(d, t, x) /\ In(t, x) = In(d, x)
  BY <1>10, Tuple
<1> HIDE DEF t
<1>14. \A x : x \notin Operands(p, e) => IsSame(c, t, x) BY <1>11, <1>13 DEF IsSame
<1>15. /\ \A i \in 1 .. Len(ins) : In(t, ins[i]) = In(c, outerIns[i])
       /\ \A i \in 1 .. Len(outs) : In(t, outs[i]) = In(c, outerOuts[i])
  BY <1>10, <1>12, <1>13
<1>16. AreMaps(p, t)
  <2>1. \A x \in Outs(p, e) : x \notin DOMAIN t[2] /\ x \notin DOMAIN t[4]
    <3>1. 2 \in Kinds /\ 4 \in Kinds BY KindsAre
    <3>2. t[2] = d[2] /\ t[4] = d[4] BY <1>13, <3>1
    <3> QED BY <1>1, <1>10, <3>2
  <2> QED BY <1>1, <1>2, <1>13, <1>14, <2>1, MapsStay
<1>17. IsPermanent(p, t, two)
  <2>1. ASSUME NEW x \in Temporaries(p) \cup CopiesOf(p) \cup ReferencesOf(p) PROVE IsSame(c, t, x)
    <3>1. e = p.steps[s].models[b] BY DEF e, step
    <3>2. e \in DOMAIN p.models BY <1>1
    <3>3. x \notin Ins(p, e) BY <3>2, PermanentAre
    <3>4. x \notin Outs(p, e) BY <3>1, <3>2, PermanentAre
    <3> QED BY <1>14, <3>3, <3>4 DEF Operands
  <2>2. BodyOutputs(p) \subseteq Temporaries(p) BY BodyOutputsAre
  <2> QED BY <1>2, <2>1, <2>2, PermanentStays
<1>18. IsSound(p, t, e)
  <2>1. ASSUME NEW x \in Operands(p, e)
        PROVE  \E y : IsOperand(p, k, y) /\ In(t, x) = In(c, y)
    <3>1. CASE x \in ToSet(ins)
      <4>1. PICK i \in 1 .. Len(ins) : x = ins[i] BY <1>6, <3>1
      <4>2. i \in DOMAIN outerIns BY <1>1, <1>3
      <4> QED BY <1>3, <1>15, <4>1, <4>2
    <3>2. CASE x \in ToSet(outs)
      <4>1. PICK i \in 1 .. Len(outs) : x = outs[i] BY <1>6, <3>2
      <4>2. i \in DOMAIN outerOuts BY <1>1, <1>3
      <4> QED BY <1>3, <1>15, <4>1, <4>2
    <3> QED BY <1>5, <3>1, <3>2
  <2>2. ASSUME NEW x \in Operands(p, e)
        PROVE  /\ In(t, x) # Nowhere
               /\ In(t, x).for[1] \in Nat /\ NotLater(p, e, In(t, x).for[1])
               /\ In(t, x).for[1] = e => In(t, x).for \in Operands(p, e)
    <3>1. PICK y : IsOperand(p, k, y) /\ In(t, x) = In(c, y) BY <2>1
    <3>2. /\ In(t, x) # Nowhere
          /\ In(t, x).for[1] \in Nat /\ In(t, x).for[1] < e
      BY <1>4, <3>1
    <3>3. e \in Nat
      <4>1. Len(p.models) \in Nat /\ DOMAIN p.models = 1 .. Len(p.models) BY PlanIs
      <4> QED BY <1>1, <4>1
    <3> QED BY <3>2, <3>3 DEF NotLater
  <2>3. ASSUME NEW x \in Outs(p, e), NEW y \in Operands(p, e), x # y
        PROVE  In(t, x) # In(t, y)
    <3>1. PICK i \in 1 .. Len(outs) : x = outs[i] BY <1>1, <1>6
    <3>2. /\ i \in DOMAIN outerOuts /\ In(t, x) = In(c, outerOuts[i])
          /\ IsOperand(p, k, outerOuts[i]) /\ LifetimeOf(p, outerOuts[i]) \in Writable
      BY <1>1, <1>3, <1>15, <3>1
    <3>3. PICK z : IsOperand(p, k, z) /\ In(t, y) = In(c, z) /\ z # outerOuts[i]
      <4>1. CASE y \in ToSet(ins)
        <5>1. PICK l \in 1 .. Len(ins) : y = ins[l] BY <1>6, <4>1
        <5>2. l \in DOMAIN outerIns BY <1>1, <1>3
        <5>3. IsOperand(p, k, outerIns[l]) /\ In(t, y) = In(c, outerIns[l])
              /\ outerIns[l] # outerOuts[i]
          BY <1>3, <1>15, <3>2, <5>1, <5>2
        <5> QED BY <5>3
      <4>2. CASE y \in ToSet(outs)
        <5>1. PICK l \in 1 .. Len(outs) : y = outs[l] BY <1>6, <4>2
        <5>2. l \in DOMAIN outerOuts /\ l # i BY <1>1, <1>3, <2>3, <3>1, <5>1
        <5>3. IsOperand(p, k, outerOuts[l]) /\ In(t, y) = In(c, outerOuts[l])
              /\ outerOuts[l] # outerOuts[i]
          BY <1>3, <1>15, <3>2, <5>1, <5>2
        <5> QED BY <5>3
      <4> QED BY <1>5, <4>1, <4>2
    <3>4. In(c, outerOuts[i]) # In(c, z) BY <1>1, <1>2, <3>2, <3>3, Separated
    <3> QED BY <3>2, <3>3, <3>4
  <2> QED BY <2>2, <2>3, Zenon DEF IsSound
<1>19. RunInv(p, step.steps[b], t, two, loops)
  <2> DEFINE j == step.steps[b]
  <2> HIDE DEF j
  <2>1. s \in StepsOf(p, "while") \cup StepsOf(p, "if") /\ s \notin StepsOf(p, "while")
    BY DEF StepsOf
  <2>2. e = p.steps[s].models[b] BY DEF e, step
  <2>3. s \in 1 .. Len(p.steps) + 1
    <3>1. Len(p.steps) \in Nat /\ DOMAIN p.steps = 1 .. Len(p.steps) BY PlanIs
    <3> QED BY <1>1, <3>1
  <2>4. /\ IsEntry(p, s, p.steps[s].models[b], j)
        /\ IsSound(p, t, p.steps[s].models[b])
        /\ \A x : x \notin Operands(p, p.steps[s].models[b]) => IsSame(c, t, x)
    BY <1>1, <1>14, <1>18, <2>2 DEF j
  <2>5. RunInv(p, j, t, two, loops) BY <1>2, <1>16, <1>17, <2>1, <2>3, <2>4, Enter
  <2> QED BY <2>5 DEF j
<1> QED BY <1>8, <1>10, <1>19 DEF step, k, e, ins, outs, outerIns, outerOuts, a, d, t

-------------------------------------------------------------------------------
(* The condition and the body of a loop *)

\* What the condition of a loop gets.
Vars(step, it) == [i \in DOMAIN step.condIns |->
                       IF it = "later" /\ i \in DOMAIN step.bodyOuts
                       THEN step.bodyOuts[i] ELSE step.outerIns[i]]

\* A WHILE at the beginning of an iteration: the condition gets the inputs of the operation or
\* the outputs of the body.
LEMMA Condition ==
    ASSUME NEW g, NEW p, IsPlan(g, p), NEW c, NEW two, NEW loops, NEW entered,
           NEW s \in StepsOf(p, "while"), NEW it \in {"first", "later"},
           RunInv(p, s, c, two, loops),
           DOMAIN entered = StepsOf(p, "while"),
           \A i \in StepsOf(p, "while") : i # s => entered[i] = loops[i],
           entered[s] = [stage |-> "body", iteration |-> it]
    PROVE  LET step == p.steps[s]
               outers == Vars(step, it)
               d == setInputs(c, outers, step.condIns) IN
           /\ CanSetInputs(c, outers, step.condIns)
           /\ RunInv(p, step.condStep, <<d[1], d[2], d[3], d[4]>>, two, entered)
<1> DEFINE step == p.steps[s]
           k == step.model
           e == step.models[1]
           m == step.models[2]
           ins == step.condIns
           out == step.condOut
           body == step.bodyOuts
           outerIns == step.outerIns
           outerOuts == step.outerOuts
           outers == Vars(step, it)
           d == setInputs(c, outers, ins)
           t == <<d[1], d[2], d[3], d[4]>>
           j == step.condStep
<1>1. /\ s \in DOMAIN p.steps
      /\ k \in DOMAIN p.models /\ k \in Active(p, s)
      /\ AreArguments(p, k, outerIns, outerOuts)
      /\ e \in DOMAIN p.models \ Active(p, s) /\ m \in DOMAIN p.models
      /\ k < e /\ e < m
      /\ IsEntry(p, s, e, j)
      /\ IsList(ins) /\ ToSet(ins) = Ins(p, e)
      /\ Outs(p, e) = {out}
      /\ IsList(body) /\ ToSet(body) = Outs(p, m)
      /\ Len(ins) = Len(outerIns)
  BY WhileIs
<1>2. /\ IsPermanent(p, c, two) /\ AreMaps(p, c) /\ AreDisjoint(c) /\ IsSound(p, c, k)
  BY <1>1 DEF RunInv, AreMaps
<1>3. /\ Len(outerIns) \in Nat /\ DOMAIN outerIns = 1 .. Len(outerIns)
      /\ \A i \in DOMAIN outerIns : IsOperand(p, k, outerIns[i])
  BY <1>1, ArgumentsAre
<1>4. k \in Nat /\ e \in Nat /\ m \in Nat
  <2>1. Len(p.models) \in Nat /\ DOMAIN p.models = 1 .. Len(p.models) BY PlanIs
  <2> QED BY <1>1, <2>1
<1>5. /\ DOMAIN ins = 1 .. Len(ins) /\ DOMAIN body = 1 .. Len(body)
      /\ Len(ins) \in Nat /\ Len(body) \in Nat
      /\ \A i \in 1 .. Len(ins) : ins[i] \in ToSet(ins)
      /\ \A i \in DOMAIN body : body[i] \in ToSet(body)
      /\ \A x \in ToSet(ins) : \E i \in 1 .. Len(ins) : x = ins[i]
  <2>1. /\ DOMAIN ins = 1 .. Len(ins) /\ DOMAIN body = 1 .. Len(body)
        /\ Len(ins) \in Nat /\ Len(body) \in Nat
    BY <1>1 DEF IsList, IsSequence
  <2> HIDE DEF ins, body
  <2> QED BY <2>1 DEF ToSet
<1>6. BodyOutputs(p) \subseteq Temporaries(p) /\ Outs(p, m) \subseteq BodyOutputs(p)
      /\ out \in Temporaries(p)
  BY BodyOutputsAre
<1>7. \A i \in DOMAIN body : /\ body[i] \in Temporaries(p) /\ body[i] = <<m, body[i][2]>>
                             /\ In(c, body[i]) = c[1][body[i]] /\ body[i] \in DOMAIN c[1]
                             /\ In(c, body[i]) # Nowhere /\ In(c, body[i]).for = body[i]
  <2> SUFFICES ASSUME NEW i \in DOMAIN body
               PROVE  /\ body[i] \in Temporaries(p) /\ body[i] = <<m, body[i][2]>>
                      /\ In(c, body[i]) = c[1][body[i]] /\ body[i] \in DOMAIN c[1]
                      /\ In(c, body[i]) # Nowhere /\ In(c, body[i]).for = body[i]
    OBVIOUS
  <2> DEFINE x == body[i]
  <2>1. x \in Outs(p, m) BY <1>1, <1>5
  <2>2. x \in Temporaries(p) BY <1>6, <2>1
  <2>3. x = <<m, x[2]>> /\ LifetimeOf(p, x) = "SUBGRAPH_OUTPUT" BY <1>1, <2>1, OperandsAre
  <2>4. x \notin ReferencesOf(p)
    BY <2>3 DEF ReferencesOf, findControlFlowBoundaryConstants
  <2>5. /\ In(c, x).for = x /\ In(c, x) # Nowhere
        /\ x \in DOMAIN c[1] /\ In(c, x) = c[1][x]
    <3> HIDE DEF x
    <3> QED BY <1>2, <1>6, <2>2, <2>4, PermanentIn
  <2> HIDE DEF x
  <2> QED BY <2>2, <2>3, <2>5 DEF x
<1>8. e = p.steps[s].models[1] /\ k = p.steps[s].model /\ j = p.steps[s].condStep OBVIOUS
<1>9. \A x : IsOperand(p, k, x) => /\ x = <<k, x[2]>>
                                   /\ In(c, x) # Nowhere
                                   /\ In(c, x).for[1] \in Nat /\ In(c, x).for[1] < e
  <2> SUFFICES ASSUME NEW x, IsOperand(p, k, x)
               PROVE  /\ x = <<k, x[2]>>
                      /\ In(c, x) # Nowhere
                      /\ In(c, x).for[1] \in Nat /\ In(c, x).for[1] < e
    OBVIOUS
  <2>1. /\ x = <<k, x[2]>> /\ In(c, x) # Nowhere
        /\ In(c, x).for[1] \in Nat /\ NotLater(p, k, In(c, x).for[1])
    BY <1>1, <1>2, OperandIs
  <2>2. In(c, x).for[1] < e BY <1>1, <2>1, Later
  <2> QED BY <2>1, <2>2
<1>10. /\ Len(outers) = Len(ins)
       /\ \A i \in 1 .. Len(ins) : outers[i] = IF it = "later" /\ i \in DOMAIN body
                                               THEN body[i] ELSE outerIns[i]
  <2>1. /\ DOMAIN outers = 1 .. Len(ins)
        /\ outers = [i \in 1 .. Len(ins) |-> outers[i]]
        /\ \A i \in 1 .. Len(ins) : outers[i] = IF it = "later" /\ i \in DOMAIN body
                                               THEN body[i] ELSE outerIns[i]
    BY <1>5 DEF Vars
  <2>2. outers \in [1 .. Len(ins) -> {outers[i] : i \in 1 .. Len(ins)}] BY <2>1
  <2>3. outers \in Seq({outers[i] : i \in 1 .. Len(ins)}) /\ Len(outers) = Len(ins)
    <3> HIDE DEF ins, body, outerIns, outers
    <3> QED BY <1>5, <2>2
  <2> QED BY <2>1, <2>3
<1> HIDE DEF step, k, e, m, ins, out, body, outerIns, outerOuts, outers, d, t, j
<1>11. ASSUME NEW i \in 1 .. Len(ins)
       PROVE  /\ outers[i] \notin ToSet(ins) /\ In(c, outers[i]) # Nowhere
              /\ In(c, outers[i]).for[1] \in Nat /\ In(c, outers[i]).for[1] # e
              /\ NotLater(p, e, In(c, outers[i]).for[1])
  <2>1. CASE it = "later" /\ i \in DOMAIN body
    <3>1. outers[i] = body[i] BY <1>10, <2>1
    <3>2. /\ body[i] = <<m, body[i][2]>> /\ In(c, body[i]) # Nowhere /\ In(c, body[i]).for = body[i]
      BY <1>7, <2>1
    <3>3. e # m BY <1>1, <1>4
    <3>4. body[i] \notin ToSet(ins)
      <4>1. body[i] \notin Operands(p, e) BY <1>1, <3>2, <3>3, OtherModels DEF Operands
      <4> QED BY <1>1, <4>1 DEF Operands
    <3>5. In(c, body[i]).for[1] = m BY <3>2
    <3>6. NotLater(p, e, m)
      <4>1. e = p.steps[s].models[1] /\ m <= p.steps[s].models[2] BY <1>4 DEF e, m, step
      <4> QED BY <4>1 DEF NotLater
    <3> QED BY <1>4, <3>1, <3>2, <3>3, <3>4, <3>5, <3>6
  <2>2. CASE ~(it = "later" /\ i \in DOMAIN body)
    <3>1. outers[i] = outerIns[i] BY <1>10, <2>2
    <3>2. IsOperand(p, k, outerIns[i]) BY <1>1, <1>3
    <3>3. e # k BY <1>1, <1>4
    <3>4. outerIns[i] \notin ToSet(ins)
      <4>1. outerIns[i] = <<k, outerIns[i][2]>> BY <1>9, <3>2
      <4>2. outerIns[i] \notin Operands(p, e) BY <1>1, <3>3, <4>1, OtherModels DEF Operands
      <4> QED BY <1>1, <4>2 DEF Operands
    <3>5. /\ In(c, outerIns[i]) # Nowhere
          /\ In(c, outerIns[i]).for[1] \in Nat /\ In(c, outerIns[i]).for[1] < e
      BY <1>9, <3>2
    <3> QED BY <1>4, <3>1, <3>4, <3>5 DEF NotLater
  <2> QED BY <2>1, <2>2
<1>12. /\ CanSetInputs(c, outers, ins)
       /\ AreDisjoint(d)
       /\ \A x : x \notin ToSet(ins) => IsSame(c, d, x)
       /\ \A i \in 1 .. Len(ins) : In(d, ins[i]) = In(c, outers[i])
  <2>1. \A i \in 1 .. Len(ins) : outers[i] \notin ToSet(ins) /\ In(c, outers[i]) # Nowhere
    BY <1>11
  <2> QED BY <1>1, <1>2, <1>10, <2>1, AsInputs DEF d
<1>13. /\ AreDisjoint(t)
       /\ \A l \in Kinds : t[l] = d[l]
       /\ \A x : IsSame(d, t, x) /\ In(t, x) = In(d, x)
  BY <1>12, Tuple DEF t
<1>14. /\ \A x : x \notin Ins(p, e) => IsSame(c, t, x) /\ In(t, x) = In(c, x)
       /\ \A i \in 1 .. Len(ins) : In(t, ins[i]) = In(c, outers[i])
  <2>1. \A x : x \notin Ins(p, e) => IsSame(c, t, x)
    BY <1>1, <1>12, <1>13 DEF IsSame
  <2>2. InputKinds \in SUBSET Kinds BY KindsAre
  <2>3. \A x : x \notin Ins(p, e) => In(t, x) = In(c, x) BY <2>1, <2>2, SameIsFound DEF In
  <2> QED BY <1>12, <1>13, <2>1, <2>3
<1>15. AreMaps(p, t)
  <2>1. ASSUME NEW x \in Outs(p, e) PROVE x \notin DOMAIN t[2] /\ x \notin DOMAIN t[4]
    <3>1. 2 \in Kinds /\ 4 \in Kinds BY KindsAre
    <3>2. LifetimeOf(p, x) \in Writable BY <1>1, OperandsAre DEF Writable
    <3>3. x \notin DOMAIN c[2] /\ x \notin DOMAIN c[4] BY <1>2, <3>2, OutputsAre
    <3>4. x \notin Ins(p, e) BY <1>1, InsAndOuts
    <3> QED BY <1>14, <3>1, <3>3, <3>4 DEF IsSame
  <2>2. \A x : x \notin Operands(p, e) => IsSame(c, t, x) BY <1>14 DEF Operands
  <2> QED BY <1>1, <1>2, <1>13, <2>1, <2>2, MapsStay
<1>16. IsPermanent(p, t, two)
  <2>1. ASSUME NEW x \in Temporaries(p) \cup CopiesOf(p) \cup ReferencesOf(p) PROVE IsSame(c, t, x)
    <3>1. e \in DOMAIN p.models BY <1>1
    <3>2. x \notin Ins(p, e) BY <3>1, PermanentAre
    <3> QED BY <1>14, <3>2
  <2> QED BY <1>2, <1>6, <2>1, PermanentStays
<1>17. In(t, out).for = out /\ In(t, out) # Nowhere /\ out[1] = e
  <2>1. out = <<e, out[2]>> BY <1>1, OperandsAre
  <2>2. In(t, out).for = out /\ In(t, out) # Nowhere
    BY <1>6, <1>13, <1>16, PermanentIn
  <2> QED BY <2>1, <2>2
<1>18. IsSound(p, t, e)
  <2>1. ASSUME NEW x \in Ins(p, e)
        PROVE  /\ In(t, x) # Nowhere
               /\ In(t, x).for[1] \in Nat /\ NotLater(p, e, In(t, x).for[1])
               /\ In(t, x).for[1] # e
    <3>1. PICK i \in 1 .. Len(ins) : x = ins[i] BY <1>1, <1>5
    <3> QED BY <1>11, <1>14, <3>1
  <2>2. NotLater(p, e, e) BY <1>4 DEF NotLater
  <2>3. ASSUME NEW x \in Operands(p, e)
        PROVE  /\ In(t, x) # Nowhere
               /\ In(t, x).for[1] \in Nat /\ NotLater(p, e, In(t, x).for[1])
               /\ In(t, x).for[1] = e => In(t, x).for \in Operands(p, e)
    <3>1. CASE x \in Ins(p, e) BY <2>1, <3>1
    <3>2. CASE x = out BY <1>1, <1>4, <1>17, <2>2, <3>2 DEF Operands
    <3> QED BY <1>1, <3>1, <3>2 DEF Operands
  <2>4. ASSUME NEW x \in Outs(p, e), NEW y \in Operands(p, e), x # y
        PROVE  In(t, x) # In(t, y)
    <3>1. x = out /\ y \in Ins(p, e) BY <1>1, <2>4 DEF Operands
    <3> QED BY <1>17, <2>1, <3>1
  <2> QED BY <2>3, <2>4, Zenon DEF IsSound
<1>19. HasCondition(t, p.steps[s], entered[s])
  <2>1. entered[s].stage = "body" /\ entered[s].iteration = it OBVIOUS
  <2>2. ASSUME NEW i \in DOMAIN ins
        PROVE  In(t, ins[i]) = IF it = "later" /\ i \in DOMAIN body
                               THEN t[1][body[i]] ELSE In(t, outerIns[i])
    <3>1. i \in 1 .. Len(ins) /\ In(t, ins[i]) = In(c, outers[i]) BY <1>5, <1>14
    <3>2. CASE it = "later" /\ i \in DOMAIN body
      <4>1. outers[i] = body[i] BY <1>10, <3>1, <3>2
      <4>2. In(c, body[i]) = c[1][body[i]] /\ body[i] \in DOMAIN c[1] BY <1>7, <3>2
      <4>3. IsSame(c, t, body[i]) BY <1>11, <1>1, <1>14, <3>1, <4>1
      <4>4. 1 \in Kinds BY KindsAre
      <4>5. t[1][body[i]] = c[1][body[i]] BY <4>2, <4>3, <4>4 DEF IsSame
      <4> QED BY <3>1, <3>2, <4>1, <4>2, <4>5
    <3>3. CASE ~(it = "later" /\ i \in DOMAIN body)
      <4>1. outers[i] = outerIns[i] BY <1>10, <3>1, <3>3
      <4>2. In(t, outerIns[i]) = In(c, outerIns[i]) BY <1>1, <1>11, <1>14, <3>1, <4>1
      <4> QED BY <3>1, <3>3, <4>1, <4>2
    <3> QED BY <3>2, <3>3
  <2> QED BY <2>1, <2>2 DEF HasCondition, ins, body, outerIns, step
<1>20. IsInside(p, j, s, entered[s])
  <2>1. e \in Active(p, j) BY <1>1 DEF IsEntry
  <2>2. entered[s].iteration # kOutsideLoop BY DEF kOutsideLoop
  <2>3. p.steps[s].models[1] \in Active(p, j) BY <1>8, <2>1
  <2>4. \E b \in {1, 2} : p.steps[s].models[b] \in Active(p, j) BY <2>3
  <2> QED BY <2>2, <2>3, <2>4, Zenon DEF IsInside
<1>21. RunInv(p, j, t, two, entered)
  <2>1. /\ IsEntry(p, s, p.steps[s].models[1], j)
        /\ IsSound(p, t, p.steps[s].models[1])
        /\ \A x : x \notin Operands(p, p.steps[s].models[1]) => IsSame(c, t, x)
    BY <1>1, <1>8, <1>14, <1>18 DEF Operands
  <2>2. s \in 1 .. Len(p.steps) + 1
    <3>1. Len(p.steps) \in Nat /\ DOMAIN p.steps = 1 .. Len(p.steps) BY PlanIs
    <3> QED BY <1>1, <3>1
  <2>3. 1 \in {1, 2} OBVIOUS
  <2> QED BY <1>15, <1>16, <1>19, <1>20, <2>1, <2>2, <2>3, Enter
<1> QED BY <1>12, <1>21 DEF step, k, e, m, ins, out, body, outerIns, outerOuts, outers, d, t, j

\* The outputs of a loop's body, when they change between their two places.
Exchanged(c, two, outs) ==
    [c EXCEPT ![1] = [x \in DOMAIN c[1] |-> IF x \in outs THEN two[x] ELSE c[1][x]]]
Spare(c, two, outs) == [x \in DOMAIN two |-> IF x \in outs THEN c[1][x] ELSE two[x]]

\* When outputs of bodies change places, everything stays in one place, and in its own.
LEMMA Exchange ==
    ASSUME NEW g, NEW p, IsPlan(g, p), NEW c, NEW two, NEW outs \in SUBSET BodyOutputs(p),
           AreDisjoint(c), IsPermanent(p, c, two)
    PROVE  LET d == Exchanged(c, two, outs) IN
           /\ AreDisjoint(d)
           /\ \A k \in Kinds : DOMAIN d[k] = DOMAIN c[k] /\ (k # 1 => d[k] = c[k])
           /\ \A x : x \notin outs => IsSame(c, d, x)
           /\ \A x \in outs : x \in DOMAIN d[1] /\ d[1][x] = two[x] /\ d[1][x] # c[1][x]
           /\ IsPermanent(p, d, Spare(c, two, outs))
<1> DEFINE d == Exchanged(c, two, outs)
           other == Spare(c, two, outs)
<1>1. DOMAIN c = Kinds /\ 1 \in Kinds /\ 4 \in Kinds /\ 4 # 1 BY KindsAre DEF AreDisjoint
<1>2. /\ DOMAIN d = Kinds
      /\ \A k \in Kinds : k # 1 => d[k] = c[k]
      /\ d[1] = [x \in DOMAIN c[1] |-> IF x \in outs THEN two[x] ELSE c[1][x]]
  BY <1>1 DEF Exchanged
<1>3. /\ DOMAIN other = DOMAIN two
      /\ \A x \in DOMAIN two : other[x] = IF x \in outs THEN c[1][x] ELSE two[x]
  BY Zenon DEF Spare
<1> HIDE DEF d, other
<1>4. \A k \in Kinds : DOMAIN d[k] = DOMAIN c[k]
  <2>1. DOMAIN d[1] = DOMAIN c[1] BY <1>2
  <2> QED BY <1>2, <2>1
<1>5. AreDisjoint(d) BY <1>2, <1>4 DEF AreDisjoint
<1>6. /\ \A x \in DOMAIN c[1] : x \notin outs => d[1][x] = c[1][x]
      /\ \A x \in DOMAIN c[1] : x \in outs => d[1][x] = two[x]
  BY <1>2
<1>7. \A x : x \notin outs => IsSame(c, d, x)
  <2> SUFFICES ASSUME NEW x, x \notin outs, NEW k \in Kinds
               PROVE  /\ x \in DOMAIN d[k] <=> x \in DOMAIN c[k]
                      /\ x \in DOMAIN c[k] => d[k][x] = c[k][x]
    BY DEF IsSame
  <2>1. CASE k = 1 BY <1>4, <1>6, <2>1
  <2>2. CASE k # 1 BY <1>2, <2>2
  <2> QED BY <2>1, <2>2
<1>8. \A x \in BodyOutputs(p) :
          /\ x \in DOMAIN c[1] /\ x \in DOMAIN two
          /\ \/ c[1][x] = Location("temporary", x) /\ two[x] = Location("second temporary", x)
             \/ c[1][x] = Location("second temporary", x) /\ two[x] = Location("temporary", x)
  BY Zenon DEF IsPermanent
<1>9. \A x : Location("temporary", x) # Location("second temporary", x) BY DEF Location
<1>10. \A x \in outs : x \in DOMAIN d[1] /\ d[1][x] = two[x] /\ d[1][x] # c[1][x]
  <2> SUFFICES ASSUME NEW x \in outs
               PROVE  x \in DOMAIN d[1] /\ d[1][x] = two[x] /\ d[1][x] # c[1][x]
    OBVIOUS
  <2>1. x \in BodyOutputs(p) OBVIOUS
  <2>2. x \in DOMAIN c[1] /\ two[x] # c[1][x] BY <1>8, <1>9, <2>1
  <2> QED BY <1>1, <1>4, <1>6, <2>2
<1>11. ASSUME NEW x \in (Temporaries(p) \ BodyOutputs(p)) \cup CopiesOf(p), x \notin outs
       PROVE  x \in DOMAIN d[1] /\ d[1][x] = Location("temporary", x)
  <2>1. x \in DOMAIN c[1] /\ c[1][x] = Location("temporary", x) BY DEF IsPermanent
  <2> QED BY <1>1, <1>4, <1>6, <1>11, <2>1
<1>12. ASSUME NEW x \in ReferencesOf(p)
       PROVE  x \in DOMAIN d[4] /\ d[4][x] = Location("constant", x)
  <2>1. x \in DOMAIN c[4] /\ c[4][x] = Location("constant", x) BY DEF IsPermanent
  <2> QED BY <1>1, <1>2, <2>1
<1>13. ASSUME NEW x \in BodyOutputs(p)
       PROVE  /\ x \in DOMAIN d[1] /\ x \in DOMAIN other
              /\ \/ d[1][x] = Location("temporary", x) /\ other[x] = Location("second temporary", x)
                 \/ d[1][x] = Location("second temporary", x) /\ other[x] = Location("temporary", x)
  <2>1. x \in DOMAIN d[1] /\ x \in DOMAIN other BY <1>1, <1>3, <1>4, <1>8
  <2>2. CASE x \in outs
    <3>1. d[1][x] = two[x] /\ other[x] = c[1][x] BY <1>3, <1>8, <1>10, <2>2
    <3> QED BY <1>8, <2>1, <3>1
  <2>3. CASE x \notin outs
    <3>1. d[1][x] = c[1][x] /\ other[x] = two[x] BY <1>3, <1>6, <1>8, <2>3
    <3> QED BY <1>8, <2>1, <3>1
  <2> QED BY <2>2, <2>3
<1>14. \A x \in CopiesOf(p) : x \notin outs
  <2>1. ASSUME NEW x \in CopiesOf(p), x \in BodyOutputs(p) PROVE FALSE
    <3>1. LifetimeOf(p, x) = "CONSTANT_COPY" BY DEF CopiesOf, findControlFlowBoundaryConstants
    <3>2. x \in Temporaries(p) BY <2>1, BodyOutputsAre
    <3> QED BY <3>1, <3>2, TemporariesAre
  <2> QED BY <2>1
<1>15. IsPermanent(p, d, other)
  BY <1>11, <1>12, <1>13, <1>14, Zenon DEF IsPermanent
<1> QED BY <1>2, <1>4, <1>5, <1>7, <1>10, <1>15 DEF d, other

\* The body of a loop is entered without a CHECK that fails.
EntersBody(p, s, it, c, two, entered) ==
    LET step == p.steps[s]
        outs == IF it # "first" THEN ToSet(step.bodyOuts) ELSE {}
        a == setInputs(c, step.condIns, step.bodyIns)
        d == Exchanged(a, two, outs)
    IN  /\ CanSetInputs(c, step.condIns, step.bodyIns)
        /\ outs \subseteq (DOMAIN a[1] \cap DOMAIN two) \ (DOMAIN a[2] \cup DOMAIN a[3])
        /\ RunInv(p, step.bodyStep, <<d[1], d[2], d[3], d[4]>>, Spare(a, two, outs), entered)

\* A WHILE whose condition is true: the body gets the inputs of the condition, and from the
\* second iteration on puts its outputs where they were not the last time.
LEMMA Body ==
    ASSUME NEW g, NEW p, IsPlan(g, p), NEW c, NEW two, NEW loops, NEW entered,
           NEW s \in StepsOf(p, "while"), NEW it \in {"first", "later"},
           RunInv(p, s, c, two, loops), loops[s] = [stage |-> "body", iteration |-> it],
           DOMAIN entered = StepsOf(p, "while"),
           \A i \in StepsOf(p, "while") : i # s => entered[i] = loops[i],
           entered[s] = [stage |-> "condition", iteration |-> it]
    PROVE  EntersBody(p, s, it, c, two, entered)
<1> DEFINE step == p.steps[s]
           k == step.model
           e1 == step.models[1]
           e == step.models[2]
           ins == step.bodyIns
           cond == step.condIns
           body == step.bodyOuts
           outs == IF it # "first" THEN ToSet(step.bodyOuts) ELSE {}
           outerIns == step.outerIns
           outerOuts == step.outerOuts
           a == setInputs(c, cond, ins)
           d == Exchanged(a, two, outs)
           other == Spare(a, two, outs)
           t == <<d[1], d[2], d[3], d[4]>>
           j == step.bodyStep
<1>1. /\ s \in DOMAIN p.steps
      /\ k \in DOMAIN p.models /\ k \in Active(p, s)
      /\ AreArguments(p, k, outerIns, outerOuts)
      /\ e1 \in DOMAIN p.models /\ e \in DOMAIN p.models
      /\ k < e1 /\ e1 < e
      /\ IsEntry(p, s, e, j)
      /\ IsList(cond) /\ ToSet(cond) = Ins(p, e1)
      /\ IsList(ins) /\ ToSet(ins) = Ins(p, e)
      /\ IsList(body) /\ ToSet(body) = Outs(p, e)
      /\ Len(cond) = Len(outerIns) /\ Len(ins) = Len(outerIns)
  BY WhileIs
<1>2. /\ IsPermanent(p, c, two) /\ AreMaps(p, c) /\ AreDisjoint(c) /\ IsSound(p, c, k)
      /\ HasCondition(c, step, loops[s])
  BY <1>1 DEF RunInv, AreMaps
<1>3. /\ Len(outerIns) \in Nat /\ DOMAIN outerIns = 1 .. Len(outerIns)
      /\ \A i \in DOMAIN outerIns : IsOperand(p, k, outerIns[i])
  BY <1>1, ArgumentsAre
<1>4. k \in Nat /\ e1 \in Nat /\ e \in Nat
  <2>1. Len(p.models) \in Nat /\ DOMAIN p.models = 1 .. Len(p.models) BY PlanIs
  <2> QED BY <1>1, <2>1
<1>5. /\ DOMAIN cond = 1 .. Len(cond) /\ DOMAIN ins = 1 .. Len(ins)
      /\ DOMAIN body = 1 .. Len(body)
      /\ \A i \in DOMAIN cond : cond[i] \in ToSet(cond)
      /\ \A i \in DOMAIN body : body[i] \in ToSet(body)
      /\ \A x \in ToSet(ins) : \E i \in DOMAIN ins : x = ins[i]
      /\ \A x \in ToSet(body) : \E i \in DOMAIN body : x = body[i]
  <2>1. /\ DOMAIN cond = 1 .. Len(cond) /\ DOMAIN ins = 1 .. Len(ins)
        /\ DOMAIN body = 1 .. Len(body)
    BY <1>1 DEF IsList, IsSequence
  <2> HIDE DEF cond, ins, body
  <2> QED BY <2>1 DEF ToSet
<1>6. BodyOutputs(p) \subseteq Temporaries(p) /\ Outs(p, e) \subseteq BodyOutputs(p)
  BY BodyOutputsAre
<1>7. e = p.steps[s].models[2] /\ k = p.steps[s].model /\ j = p.steps[s].bodyStep OBVIOUS
<1>8. outs = {} \/ (it = "later" /\ outs = Outs(p, e)) BY <1>1
<1>9. \A i \in DOMAIN cond :
          In(c, cond[i]) = IF it = "later" /\ i \in DOMAIN body THEN c[1][body[i]]
                           ELSE In(c, outerIns[i])
  <2>1. loops[s].stage = "body" /\ loops[s].iteration = it OBVIOUS
  <2> QED BY <1>2, <2>1 DEF HasCondition
<1> HIDE DEF step, k, e1, e, ins, cond, body, outs, outerIns, outerOuts, a, d, other, t, j
<1>10. \A x \in Outs(p, e) : /\ x \in Temporaries(p) /\ x[1] = e
                             /\ x \in DOMAIN c[1] /\ x \in DOMAIN two /\ x \notin Ins(p, e)
                             /\ c[1][x] # Nowhere /\ c[1][x].for = x
                             /\ two[x] # Nowhere /\ two[x].for = x
  <2> SUFFICES ASSUME NEW x \in Outs(p, e)
               PROVE  /\ x \in Temporaries(p) /\ x[1] = e
                      /\ x \in DOMAIN c[1] /\ x \in DOMAIN two /\ x \notin Ins(p, e)
                      /\ c[1][x] # Nowhere /\ c[1][x].for = x
                      /\ two[x] # Nowhere /\ two[x].for = x
    OBVIOUS
  <2>1. x \in BodyOutputs(p) /\ x \in Temporaries(p) /\ x \notin Ins(p, e)
    BY <1>1, <1>6, InsAndOuts
  <2>2. x = <<e, x[2]>> BY <1>1, OperandsAre
  <2>3. /\ x \in DOMAIN c[1] /\ x \in DOMAIN two
        /\ \/ c[1][x] = Location("temporary", x) /\ two[x] = Location("second temporary", x)
           \/ c[1][x] = Location("second temporary", x) /\ two[x] = Location("temporary", x)
    BY <1>2, <2>1, Zenon DEF IsPermanent
  <2>4. /\ c[1][x] # Nowhere /\ c[1][x].for = x
        /\ two[x] # Nowhere /\ two[x].for = x
    <3>1. \A place \in {"temporary", "second temporary"} :
              Location(place, x).for = x /\ Location(place, x) # Nowhere
      BY LocationIs
    <3> QED BY <2>3, <3>1
  <2>5. x[1] = e BY <2>2
  <2> QED BY <2>1, <2>3, <2>4, <2>5
<1>11. \A x : IsOperand(p, k, x) => /\ In(c, x) # Nowhere
                                    /\ In(c, x).for[1] \in Nat /\ In(c, x).for[1] < e
  <2> SUFFICES ASSUME NEW x, IsOperand(p, k, x)
               PROVE  /\ In(c, x) # Nowhere
                      /\ In(c, x).for[1] \in Nat /\ In(c, x).for[1] < e
    OBVIOUS
  <2>1. /\ In(c, x) # Nowhere
        /\ In(c, x).for[1] \in Nat /\ NotLater(p, k, In(c, x).for[1])
    BY <1>1, <1>2, OperandIs
  <2>2. IsEntry(p, s, p.steps[s].models[2], j) /\ p.steps[s].model \in DOMAIN p.models
        /\ NotLater(p, p.steps[s].model, In(c, x).for[1])
    BY <1>1, <1>7, <2>1
  <2>3. In(c, x).for[1] < e BY <1>7, <2>1, <2>2, Later
  <2> QED BY <2>1, <2>3
\* The inputs of the body are what the operation got, or what the body has put out before.
<1>12. ASSUME NEW i \in DOMAIN ins
       PROVE  /\ i \in DOMAIN cond
              /\ cond[i] \notin ToSet(ins) /\ In(c, cond[i]) # Nowhere
              /\ \/ In(c, cond[i]).for[1] \in Nat /\ In(c, cond[i]).for[1] < e
                 \/ /\ it = "later"
                    /\ \E x \in Outs(p, e) : In(c, cond[i]) = c[1][x]
  <2>1. i \in DOMAIN cond /\ i \in DOMAIN outerIns BY <1>1, <1>3, <1>5
  <2>2. cond[i] \notin ToSet(ins)
    <3>1. cond[i] \in Ins(p, e1) BY <1>1, <1>5, <2>1
    <3>2. cond[i] = <<e1, cond[i][2]>> BY <1>1, <3>1, OperandsAre
    <3>3. e1 # e BY <1>1, <1>4
    <3>4. cond[i] \notin Ins(p, e) \cup Outs(p, e) BY <1>1, <3>2, <3>3, OtherModels
    <3> QED BY <1>1, <3>4
  <2>3. CASE it = "later" /\ i \in DOMAIN body
    <3>1. body[i] \in Outs(p, e) /\ In(c, cond[i]) = c[1][body[i]] BY <1>1, <1>5, <1>9, <2>1, <2>3
    <3> QED BY <1>10, <2>1, <2>2, <2>3, <3>1
  <2>4. CASE ~(it = "later" /\ i \in DOMAIN body)
    <3>1. In(c, cond[i]) = In(c, outerIns[i]) BY <1>9, <2>1, <2>4
    <3> QED BY <1>3, <1>11, <2>1, <2>2, <3>1
  <2> QED BY <2>3, <2>4
<1>13. /\ CanSetInputs(c, cond, ins)
       /\ AreDisjoint(a)
       /\ \A x : x \notin Ins(p, e) => IsSame(c, a, x)
       /\ \A i \in DOMAIN ins : In(a, ins[i]) = In(c, cond[i])
  <2>1. \A i \in 1 .. Len(ins) : cond[i] \notin ToSet(ins) /\ In(c, cond[i]) # Nowhere
    BY <1>5, <1>12
  <2> QED BY <1>1, <1>2, <1>5, <2>1, AsInputs DEF a
<1>14. IsPermanent(p, a, two)
  <2>1. ASSUME NEW x \in Temporaries(p) \cup CopiesOf(p) \cup ReferencesOf(p) PROVE IsSame(c, a, x)
    <3>1. x \notin Ins(p, e) BY <1>1, PermanentAre
    <3> QED BY <1>13, <3>1
  <2> QED BY <1>2, <1>6, <2>1, PermanentStays
<1>15. \A x \in Outs(p, e) : /\ x \in DOMAIN a[1] /\ a[1][x] = c[1][x]
                             /\ x \notin DOMAIN a[2] /\ x \notin DOMAIN a[3] /\ x \notin DOMAIN a[4]
  <2> SUFFICES ASSUME NEW x \in Outs(p, e)
               PROVE  /\ x \in DOMAIN a[1] /\ a[1][x] = c[1][x]
                      /\ x \notin DOMAIN a[2] /\ x \notin DOMAIN a[3] /\ x \notin DOMAIN a[4]
    OBVIOUS
  <2>1. IsSame(c, a, x) /\ x \in DOMAIN c[1] BY <1>10, <1>13
  <2>2. 1 \in Kinds /\ 2 \in Kinds /\ 3 \in Kinds /\ 4 \in Kinds BY KindsAre
  <2>3. x \in DOMAIN a[1] /\ a[1][x] = c[1][x] BY <2>1, <2>2 DEF IsSame
  <2>4. \A l \in Kinds : l # 1 => x \notin DOMAIN a[l] BY <1>13, <2>2, <2>3 DEF AreDisjoint
  <2> QED BY <2>2, <2>3, <2>4
<1>16. outs \subseteq (DOMAIN a[1] \cap DOMAIN two) \ (DOMAIN a[2] \cup DOMAIN a[3])
  BY <1>8, <1>10, <1>15
<1>17. outs \in SUBSET BodyOutputs(p) BY <1>6, <1>8
<1>18. /\ AreDisjoint(d)
       /\ \A l \in Kinds : DOMAIN d[l] = DOMAIN a[l] /\ (l # 1 => d[l] = a[l])
       /\ \A x : x \notin outs => IsSame(a, d, x)
       /\ \A x \in outs : x \in DOMAIN d[1] /\ d[1][x] = two[x] /\ d[1][x] # a[1][x]
       /\ IsPermanent(p, d, other)
  BY <1>13, <1>14, <1>17, Exchange DEF d, other
<1>19. /\ AreDisjoint(t)
       /\ \A l \in Kinds : t[l] = d[l]
       /\ \A x : IsSame(d, t, x) /\ In(t, x) = In(d, x)
  BY <1>18, Tuple DEF t
<1>20. \A x : x \notin Operands(p, e) => IsSame(c, t, x)
  <2> SUFFICES ASSUME NEW x, x \notin Operands(p, e) PROVE IsSame(c, t, x)
    OBVIOUS
  <2>1. x \notin Ins(p, e) /\ x \notin outs BY <1>8 DEF Operands
  <2>2. IsSame(c, a, x) /\ IsSame(a, d, x) /\ IsSame(d, t, x) BY <1>13, <1>18, <1>19, <2>1
  <2> QED BY <2>2 DEF IsSame
<1>21. \A i \in DOMAIN ins : In(t, ins[i]) = In(c, cond[i])
  <2> SUFFICES ASSUME NEW i \in DOMAIN ins PROVE In(t, ins[i]) = In(c, cond[i])
    OBVIOUS
  <2>1. ins[i] \in Ins(p, e)
    <3> HIDE DEF ins
    <3>1. ins[i] \in ToSet(ins) BY DEF ToSet
    <3> QED BY <1>1, <3>1
  <2>2. ins[i] \notin outs BY <1>8, <1>10, <2>1
  <2>3. IsSame(a, d, ins[i]) BY <1>18, <2>2
  <2>4. InputKinds \in SUBSET Kinds BY KindsAre
  <2>5. In(d, ins[i]) = In(a, ins[i]) BY <2>3, <2>4, SameIsFound DEF In
  <2> QED BY <1>13, <1>19, <2>5
\* Outputs go to one of their places, not to that in which the inputs are.
<1>22. \A x \in Outs(p, e) : /\ In(t, x) # Nowhere /\ In(t, x).for = x
                             /\ it = "later" => In(t, x) # c[1][x]
  <2> SUFFICES ASSUME NEW x \in Outs(p, e)
               PROVE  /\ In(t, x) # Nowhere /\ In(t, x).for = x
                      /\ it = "later" => In(t, x) # c[1][x]
    OBVIOUS
  <2>1. x \in DOMAIN d[1] /\ 1 \in Kinds /\ InputKinds \in SUBSET Kinds /\ 1 \in InputKinds
    BY <1>15, <1>18, KindsAre
  <2>2. In(d, x) = d[1][x]
    <3>1. AreDisjoint(d) BY <1>18
    <3> QED BY <2>1, <3>1, FoundOnce DEF In
  <2>3. CASE it = "later"
    <3>1. x \in outs BY <1>1, <2>3 DEF outs, body, step
    <3>2. d[1][x] = two[x] /\ d[1][x] # c[1][x] BY <1>15, <1>18, <3>1
    <3> QED BY <1>10, <1>19, <2>2, <3>2
  <2>4. CASE it = "first"
    <3>1. x \notin outs BY <2>4 DEF outs
    <3>2. IsSame(a, d, x) BY <1>18, <3>1
    <3>3. d[1][x] = c[1][x] BY <1>15, <2>1, <3>2 DEF IsSame
    <3> QED BY <1>10, <1>19, <2>2, <2>4, <3>3
  <2> QED BY <2>3, <2>4
<1>23. AreMaps(p, t)
  <2>1. ASSUME NEW x \in Outs(p, e) PROVE x \notin DOMAIN t[2] /\ x \notin DOMAIN t[4]
    <3>1. 2 \in Kinds /\ 4 \in Kinds BY KindsAre
    <3>2. /\ t[2] = d[2] /\ t[4] = d[4]
          /\ DOMAIN d[2] = DOMAIN a[2] /\ DOMAIN d[4] = DOMAIN a[4]
      BY <1>18, <1>19, <3>1
    <3> QED BY <1>15, <3>2
  <2> QED BY <1>1, <1>2, <1>19, <1>20, <2>1, MapsStay
<1>24. IsPermanent(p, t, other)
  <2>1. \A x : IsSame(d, t, x) BY <1>19
  <2> QED BY <1>6, <1>18, <2>1, PermanentStays
<1>25. IsSound(p, t, e)
  <2>1. ASSUME NEW y \in Ins(p, e)
        PROVE  /\ In(t, y) # Nowhere
               /\ \/ In(t, y).for[1] \in Nat /\ In(t, y).for[1] < e
                  \/ /\ it = "later"
                     /\ \E x \in Outs(p, e) : In(t, y) = c[1][x]
    <3>1. PICK i \in DOMAIN ins : y = ins[i] BY <1>1, <1>5
    <3> QED BY <1>12, <1>21, <3>1
  <2>2. NotLater(p, e, e) BY <1>4 DEF NotLater
  <2>3. ASSUME NEW y \in Operands(p, e)
        PROVE  /\ In(t, y) # Nowhere
               /\ In(t, y).for[1] \in Nat /\ NotLater(p, e, In(t, y).for[1])
               /\ In(t, y).for[1] = e => In(t, y).for \in Operands(p, e)
    <3>1. CASE y \in Ins(p, e) /\ In(t, y).for[1] \in Nat /\ In(t, y).for[1] < e
      BY <1>4, <2>1, <3>1 DEF NotLater
    <3>2. ASSUME NEW x \in Outs(p, e), y \in Ins(p, e), In(t, y) = c[1][x]
          PROVE  /\ In(t, y) # Nowhere
                 /\ In(t, y).for[1] \in Nat /\ NotLater(p, e, In(t, y).for[1])
                 /\ In(t, y).for[1] = e => In(t, y).for \in Operands(p, e)
      BY <1>4, <1>10, <2>2, <3>2 DEF Operands
    <3>3. CASE y \in Outs(p, e) BY <1>4, <1>10, <1>22, <2>2, <3>3 DEF Operands
    <3>4. y \in Ins(p, e) \/ y \in Outs(p, e) BY DEF Operands
    <3> QED BY <2>1, <3>1, <3>2, <3>3, <3>4
  <2>4. ASSUME NEW x \in Outs(p, e), NEW y \in Operands(p, e), x # y
        PROVE  In(t, x) # In(t, y)
    <3>1. In(t, x).for = x /\ x[1] = e BY <1>10, <1>22
    <3>2. CASE y \in Outs(p, e) BY <1>22, <2>4, <3>1, <3>2
    <3>3. CASE y \in Ins(p, e) /\ In(t, y).for[1] \in Nat /\ In(t, y).for[1] < e
      BY <1>4, <3>1, <3>3
    <3>4. ASSUME NEW z \in Outs(p, e), it = "later", In(t, y) = c[1][z]
          PROVE  In(t, x) # In(t, y)
      <4>1. c[1][z].for = z BY <1>10
      <4>2. CASE z = x BY <1>22, <3>4, <4>2
      <4>3. CASE z # x BY <3>1, <3>4, <4>1, <4>3
      <4> QED BY <4>2, <4>3
    <3>5. y \in Ins(p, e) \/ y \in Outs(p, e) BY DEF Operands
    <3> QED BY <2>1, <3>2, <3>3, <3>4, <3>5
  <2> QED BY <2>3, <2>4, Zenon DEF IsSound
<1>26. HasCondition(t, p.steps[s], entered[s])
  <2>1. entered[s].stage # "body" OBVIOUS
  <2> QED BY <2>1, Zenon DEF HasCondition
<1>27. IsInside(p, j, s, entered[s])
  <2>1. p.steps[s].models[2] \in Active(p, j) BY <1>1, <1>7 DEF IsEntry
  <2>2. entered[s].stage # "body" OBVIOUS
  <2>3. \E b \in {1, 2} : p.steps[s].models[b] \in Active(p, j) BY <2>1
  <2> QED BY <2>2, <2>3, Zenon DEF IsInside
<1>28. RunInv(p, j, t, other, entered)
  <2>1. /\ IsEntry(p, s, p.steps[s].models[2], j)
        /\ IsSound(p, t, p.steps[s].models[2])
        /\ \A x : x \notin Operands(p, p.steps[s].models[2]) => IsSame(c, t, x)
    BY <1>1, <1>7, <1>20, <1>25
  <2>2. s \in 1 .. Len(p.steps) + 1
    <3>1. Len(p.steps) \in Nat /\ DOMAIN p.steps = 1 .. Len(p.steps) BY PlanIs
    <3> QED BY <1>1, <3>1
  <2>3. 2 \in {1, 2} /\ s \in StepsOf(p, "while") \cup StepsOf(p, "if") OBVIOUS
  <2>4. /\ DOMAIN entered = StepsOf(p, "while")
        /\ \A i \in StepsOf(p, "while") : i # s => entered[i] = loops[i]
    OBVIOUS
  <2> QED BY <1>23, <1>24, <1>26, <1>27, <2>1, <2>2, <2>3, <2>4, Enter
<1>29. /\ CanSetInputs(c, cond, ins)
       /\ outs \subseteq (DOMAIN a[1] \cap DOMAIN two) \ (DOMAIN a[2] \cup DOMAIN a[3])
       /\ RunInv(p, j, <<d[1], d[2], d[3], d[4]>>, Spare(a, two, outs), entered)
  BY <1>13, <1>16, <1>28 DEF t, other
<1> QED BY <1>29, Zenon
        DEF EntersBody, step, ins, cond, body, outs, a, d, j
-------------------------------------------------------------------------------
(* What can be written *)

\* No constant is at location l, nor an argument that is only read.
CanWrite(p, l) == l.place \notin {"input", "constant"} /\ l.for \notin CopiesOf(p)

\* What outputs and temporaries have got can be written.
Protects(p, c) ==
    /\ DOMAIN c = Kinds
    /\ \A k \in Kinds : \A x \in DOMAIN c[k] :
           LifetimeOf(p, x) \in Writable => k \in OutputKinds /\ CanWrite(p, c[k][x])
IsSpare(p, two) == \A x \in DOMAIN two : CanWrite(p, two[x])

\* An operand that setInput or setOutput gives a location is only read, or gets that of one
\* which can be written.
IsCareful(p, kinds, outer, inner) ==
    LifetimeOf(p, inner) \in Writable =>
        kinds = OutputKinds /\ LifetimeOf(p, outer) \in Writable

\* One call of setInput or setOutput.
LEMMA ProtectsAs ==
    ASSUME NEW p, NEW c, Protects(p, c), NEW kinds \in SUBSET Kinds, NEW outer, NEW inner,
           IsCareful(p, kinds, outer, inner)
    PROVE  Protects(p, setAs(c, kinds, outer, inner))
<1> DEFINE e == Erased(c, kinds, inner)
           f == Found(e, kinds, outer)
           d == setAs(c, kinds, outer, inner)
<1>1. /\ DOMAIN e = Kinds
      /\ \A k \in Kinds : DOMAIN e[k] \subseteq DOMAIN c[k]
      /\ \A k \in Kinds : \A x \in DOMAIN e[k] : e[k][x] = c[k][x]
  BY Zenon DEF Erased, Erase, Kinds
<1>2. Protects(p, e) BY <1>1 DEF Protects
<1>3. f # 0 => f \in kinds /\ outer \in DOMAIN e[f] BY FoundIs
<1> HIDE DEF e, f
<1>4. CASE f = 0
  <2>1. d = e BY <1>4, Zenon DEF setAs, e, f
  <2> QED BY <1>2, <2>1
<1>5. CASE f # 0
  <2>1. d = [e EXCEPT ![f] = With(e[f], inner, e[f][outer])] BY <1>5, Zenon DEF setAs, e, f
  <2> HIDE DEF d
  <2>2. f \in Kinds /\ f \in kinds /\ outer \in DOMAIN e[f] BY <1>3, <1>5
  <2>3. /\ DOMAIN d = Kinds
        /\ \A k \in Kinds : k # f => d[k] = e[k]
        /\ d[f] = With(e[f], inner, e[f][outer])
    BY <1>1, <2>1, <2>2
  <2>4. /\ DOMAIN d[f] = DOMAIN e[f] \cup {inner}
        /\ \A x \in DOMAIN e[f] : x # inner => d[f][x] = e[f][x]
        /\ d[f][inner] = e[f][outer]
    BY <2>3, Zenon DEF With
  <2>5. ASSUME NEW k \in Kinds, NEW x \in DOMAIN d[k], LifetimeOf(p, x) \in Writable
        PROVE  k \in OutputKinds /\ CanWrite(p, d[k][x])
    <3>1. CASE k # f BY <1>2, <2>3, <2>5, <3>1 DEF Protects
    <3>2. CASE k = f /\ x # inner BY <1>2, <2>4, <2>5, <3>2 DEF Protects
    <3>3. CASE k = f /\ x = inner
      <4>1. f \in OutputKinds /\ LifetimeOf(p, outer) \in Writable
        BY <2>2, <2>5, <3>3 DEF IsCareful
      <4> QED BY <1>2, <2>2, <2>4, <3>3, <4>1 DEF Protects
    <3> QED BY <3>1, <3>2, <3>3
  <2> QED BY <2>3, <2>5 DEF Protects, d
<1> QED BY <1>4, <1>5 DEF d

\* The calls for all inputs or outputs of a model.
LEMMA ProtectsEach ==
    ASSUME NEW p, NEW c, Protects(p, c), NEW kinds \in SUBSET Kinds, NEW outers, NEW inners,
           Len(inners) \in Nat,
           \A i \in 1 .. Len(inners) : IsCareful(p, kinds, outers[i], inners[i])
    PROVE  Protects(p, setEach(c, kinds, outers, inners)[Len(inners)])
<1> DEFINE n == Len(inners)
           set == setEach(c, kinds, outers, inners)
           S == {i \in 0 .. n : Protects(p, set[i])}
<1>1. /\ set[0] = c
      /\ \A i \in 1 .. n : set[i] = setAs(set[i - 1], kinds, outers[i], inners[i])
  BY SetEach
<1> HIDE DEF set
<1>2. 0 \in S BY <1>1
<1>3. ASSUME NEW i \in 0 .. n, i \in S, i < n PROVE i + 1 \in S
  <2>1. i + 1 \in 1 .. n /\ (i + 1) - 1 = i /\ i + 1 \in 0 .. n BY <1>3
  <2>2. set[i + 1] = setAs(set[i], kinds, outers[i + 1], inners[i + 1]) BY <1>1, <2>1
  <2>3. Protects(p, set[i]) /\ IsCareful(p, kinds, outers[i + 1], inners[i + 1]) BY <1>3, <2>1
  <2>4. Protects(p, set[i + 1]) BY <2>2, <2>3, ProtectsAs
  <2> QED BY <2>1, <2>4
<1>4. n \in S
  <2>1. \A i \in 0 .. n : i \in S /\ i < n => i + 1 \in S
    <3> HIDE DEF S
    <3> QED BY <1>3
  <2>2. 0 .. n \subseteq S
    <3> HIDE DEF S
    <3> QED BY <1>2, <2>1, UpTo
  <2> QED BY <2>2
<1> QED BY <1>4 DEF set

\* Inputs of a model, which are only read, may get any location.
LEMMA ProtectsInputs ==
    ASSUME NEW g, NEW p, IsPlan(g, p), NEW c, Protects(p, c), NEW k \in DOMAIN p.models,
           NEW outers, NEW inners, IsList(inners), ToSet(inners) = Ins(p, k)
    PROVE  Protects(p, setInputs(c, outers, inners))
<1>1. Len(inners) \in Nat /\ DOMAIN inners = 1 .. Len(inners) BY DEF IsList, IsSequence
<1>2. ASSUME NEW i \in 1 .. Len(inners) PROVE IsCareful(p, InputKinds, outers[i], inners[i])
  <2>1. inners[i] \in Ins(p, k) BY <1>1 DEF ToSet
  <2>2. LifetimeOf(p, inners[i]) = "SUBGRAPH_INPUT" BY <2>1, OperandsAre
  <2> QED BY <2>2 DEF IsCareful, Writable
<1>3. InputKinds \in SUBSET Kinds BY KindsAre
<1> QED BY <1>1, <1>2, <1>3, ProtectsEach DEF setInputs

\* Outputs of a model get the locations of outputs and temporaries.
LEMMA ProtectsOutputs ==
    ASSUME NEW p, NEW c, Protects(p, c), NEW outers, NEW inners, Len(inners) \in Nat,
           \A i \in 1 .. Len(inners) : LifetimeOf(p, outers[i]) \in Writable
    PROVE  Protects(p, setOutputs(c, outers, inners))
<1>1. \A i \in 1 .. Len(inners) : IsCareful(p, OutputKinds, outers[i], inners[i])
  BY DEF IsCareful
<1>2. OutputKinds \in SUBSET Kinds BY KindsAre
<1> QED BY <1>1, <1>2, ProtectsEach DEF setOutputs

\* Outputs of a body change places.
LEMMA ProtectsExchanged ==
    ASSUME NEW p, NEW c, Protects(p, c), NEW two, IsSpare(p, two), NEW outs,
           outs \subseteq DOMAIN c[1] \cap DOMAIN two,
           \A x \in outs : LifetimeOf(p, x) \in Writable
    PROVE  Protects(p, Exchanged(c, two, outs)) /\ IsSpare(p, Spare(c, two, outs))
<1> DEFINE d == Exchanged(c, two, outs)
           other == Spare(c, two, outs)
<1>1. 1 \in Kinds /\ DOMAIN c = Kinds BY KindsAre DEF Protects
<1>2. /\ DOMAIN d = Kinds
      /\ \A k \in Kinds : k # 1 => d[k] = c[k]
      /\ d[1] = [x \in DOMAIN c[1] |-> IF x \in outs THEN two[x] ELSE c[1][x]]
  BY <1>1 DEF Exchanged
<1> HIDE DEF d
<1>3. ASSUME NEW k \in Kinds, NEW x \in DOMAIN d[k], LifetimeOf(p, x) \in Writable
      PROVE  k \in OutputKinds /\ CanWrite(p, d[k][x])
  <2>1. CASE k # 1 BY <1>2, <1>3, <2>1 DEF Protects
  <2>2. CASE k = 1 /\ x \in outs BY <1>2, <2>2, KindsAre DEF IsSpare
  <2>3. CASE k = 1 /\ x \notin outs BY <1>2, <1>3, <2>3 DEF Protects
  <2> QED BY <2>1, <2>2, <2>3
<1>4. ASSUME NEW x \in DOMAIN two PROVE CanWrite(p, other[x])
  <2>1. x \in outs => other[x] = c[1][x] /\ x \in DOMAIN c[1] BY DEF Spare
  <2>2. x \notin outs => other[x] = two[x] BY DEF Spare
  <2> QED BY <1>1, <2>1, <2>2 DEF Protects, IsSpare
<1>5. DOMAIN other = DOMAIN two BY DEF Spare
<1> QED BY <1>2, <1>3, <1>4, <1>5 DEF Protects, IsSpare, d

\* The maps as a tuple.
LEMMA ProtectsTuple ==
    ASSUME NEW p, NEW d, Protects(p, d)
    PROVE  Protects(p, <<d[1], d[2], d[3], d[4]>>)
<1> DEFINE t == <<d[1], d[2], d[3], d[4]>>
<1>1. DOMAIN t = {1, 2, 3, 4} /\ t[1] = d[1] /\ t[2] = d[2] /\ t[3] = d[3] /\ t[4] = d[4] OBVIOUS
<1> HIDE DEF t
<1>2. DOMAIN t = Kinds /\ \A k \in Kinds : t[k] = d[k] BY <1>1, KindsAre
<1> QED BY <1>2 DEF Protects, t

\* What can be written is found in a place that can be, or nowhere.
LEMMA WritesThere ==
    ASSUME NEW p, NEW c, Protects(p, c), NEW kinds \in SUBSET Kinds, NEW x,
           LifetimeOf(p, x) \in Writable
    PROVE  At(c, kinds, x) = Nowhere \/ CanWrite(p, At(c, kinds, x))
<1> DEFINE k == Found(c, kinds, x)
<1>1. k # 0 => k \in Kinds /\ x \in DOMAIN c[k] BY FoundIs
<1> HIDE DEF k
<1>2. k # 0 => CanWrite(p, c[k][x]) BY <1>1 DEF Protects
<1> QED BY <1>2 DEF At, k
===============================================================================

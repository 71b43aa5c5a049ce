--------------------------- MODULE RouteSolverProofs ---------------------------
(***************************************************************************)
(* The route solver, for every input, metric and fleet: what the search    *)
(* holds can be driven and costs what it says, and its answer is the       *)
(* heuristic's or a full plan that is shorter; and of equal vehicles, what *)
(* the search leaves out without its lower bound is no better than the     *)
(* best.  The arguments are about the length and the load of a route with  *)
(* one more stop in it, and of the parts of a route.                       *)
(***************************************************************************)
EXTENDS RouteSolver, FiniteSetTheorems, SequenceTheorems, WellFoundedInduction, TLAPS

-----------------------------------------------------------------------------
(* Sums over finite sets, as the folds of the community modules form them *)

Picked(s) == CHOOSE x \in s : TRUE

\* f[s] is the sum of the weights of s, for each part s of S.
IsSum(f, weight, S) ==
  f = [s \in SUBSET S |-> IF s = {} THEN 0 ELSE weight[Picked(s)] + f[s \ {Picked(s)}]]

SumOver(weight, S) == (CHOOSE f : IsSum(f, weight, S))[S]

\* A set of numbers that is not empty has a least one.
LEMMA LeastNumber ==
  ASSUME NEW S \in SUBSET Nat, S # {}
  PROVE  \E n \in S : \A k \in S : n <= k
<1>1. PICK n \in S : \A k \in S : ~ (<<k, n>> \in OpToRel(<, Nat))
  BY NatLessThanWellFounded, WFMin
<1>2. \A k \in S : ~ (k < n)
  BY <1>1 DEF OpToRel
<1>3. QED BY <1>2

\* Induction on finite sets: a smallest one of those that are bad, all parts of it less one element good.
LEMMA SmallestSet ==
  ASSUME NEW S, IsFiniteSet(S), NEW Bad \in SUBSET (SUBSET S), Bad # {}
  PROVE  \E s \in Bad : \A x \in s : s \ {x} \notin Bad
<1> DEFINE Sizes == {Cardinality(s) : s \in Bad}
<1>1. \A s \in Bad : IsFiniteSet(s) /\ Cardinality(s) \in Nat
  BY FS_Subset, FS_CardinalityType
<1>2. Sizes \in SUBSET Nat /\ Sizes # {}
  BY <1>1
<1>3. PICK n \in Sizes : \A k \in Sizes : n <= k
  BY <1>2, LeastNumber
<1>4. PICK s \in Bad : n = Cardinality(s)
  BY <1>3
<1>5. ASSUME NEW x \in s, s \ {x} \in Bad PROVE FALSE
  <2>1. Cardinality(s \ {x}) = n - 1
    BY <1>1, <1>4, FS_RemoveElement
  <2>2. n <= Cardinality(s \ {x})
    BY <1>3, <1>5
  <2>3. QED BY <1>1, <1>4, <2>1, <2>2
<1>6. QED BY <1>5

\* There are such sums: by induction on the size of the parts.
LEMMA SumExists ==
  ASSUME NEW S, IsFiniteSet(S), NEW weight
  PROVE  \E f : IsSum(f, weight, S)
<1> DEFINE Small(n) == {s \in SUBSET S : Cardinality(s) <= n}
           SumsTo(f, n) == f = [s \in Small(n) |->
                                  IF s = {} THEN 0 ELSE weight[Picked(s)] + f[s \ {Picked(s)}]]
           Without == {n \in Nat : ~ \E f : SumsTo(f, n)}
<1>1. \A s \in SUBSET S : IsFiniteSet(s) /\ Cardinality(s) \in Nat
  BY FS_Subset, FS_CardinalityType
<1>2. \E f : SumsTo(f, 0)
  <2>1. \A s \in Small(0) : s = {}
    BY <1>1, FS_EmptySet
  <2>2. SumsTo([s \in Small(0) |-> 0], 0)
    BY <2>1
  <2>3. QED BY <2>2
<1>3. ASSUME NEW n \in Nat, NEW g, SumsTo(g, n) PROVE \E f : SumsTo(f, n + 1)
  <2> DEFINE f == [s \in Small(n + 1) |-> IF s = {} THEN 0 ELSE weight[Picked(s)] + g[s \ {Picked(s)}]]
  <2>1. ASSUME NEW s \in Small(n + 1), s # {} PROVE f[s \ {Picked(s)}] = g[s \ {Picked(s)}]
    <3> DEFINE r == s \ {Picked(s)}
    <3>1. Picked(s) \in s
      BY <2>1 DEF Picked
    <3>2. Cardinality(r) = Cardinality(s) - 1 /\ r \in SUBSET S
      BY <1>1, <3>1, FS_RemoveElement
    <3>3. r \in Small(n) /\ r \in Small(n + 1)
      BY <1>1, <3>2
    <3> HIDE DEF r, Small
    <3>4. g[r] = IF r = {} THEN 0 ELSE weight[Picked(r)] + g[r \ {Picked(r)}]
      BY <1>3, <3>3
    <3>5. f[r] = IF r = {} THEN 0 ELSE weight[Picked(r)] + g[r \ {Picked(r)}]
      BY <3>3
    <3>6. QED BY <3>4, <3>5 DEF r
  <2>2. f = [s \in Small(n + 1) |-> IF s = {} THEN 0 ELSE weight[Picked(s)] + f[s \ {Picked(s)}]]
    <3> HIDE DEF Small
    <3>1. \A s \in Small(n + 1) : f[s] = IF s = {} THEN 0 ELSE weight[Picked(s)] + f[s \ {Picked(s)}]
      BY <2>1
    <3>2. QED BY <3>1
  <2>3. QED BY <2>2
<1>4. Without = {}
  <2> SUFFICES ASSUME Without # {} PROVE FALSE
    OBVIOUS
  <2> HIDE DEF SumsTo
  <2>1. PICK n \in Without : \A k \in Without : n <= k
    BY LeastNumber
  <2>2. n # 0 /\ n \in Nat /\ n - 1 \in Nat
    BY <1>2, <2>1
  <2>3. n - 1 \notin Without
    BY <2>1, <2>2
  <2>4. PICK g : SumsTo(g, n - 1)
    BY <2>2, <2>3
  <2>5. \E f : SumsTo(f, (n - 1) + 1)
    BY <1>3, <2>2, <2>4
  <2>6. (n - 1) + 1 = n
    BY <2>2
  <2>7. QED BY <2>1, <2>5, <2>6
<1>5. Small(Cardinality(S)) = SUBSET S
  BY FS_Subset
<1>6. Cardinality(S) \in Nat
  BY FS_CardinalityType
<1>7. PICK f : SumsTo(f, Cardinality(S))
  <2> HIDE DEF SumsTo
  <2>1. QED BY <1>4, <1>6
<1>8. IsSum(f, weight, S)
  BY <1>5, <1>7 DEF IsSum
<1>9. QED BY <1>8

\* Its equation.
LEMMA SumAt ==
  ASSUME NEW f, NEW weight, NEW S, IsSum(f, weight, S), NEW s \in SUBSET S
  PROVE  /\ s = {} => f[s] = 0
         /\ s # {} => Picked(s) \in s /\ f[s] = weight[Picked(s)] + f[s \ {Picked(s)}]
<1>1. f[s] = IF s = {} THEN 0 ELSE weight[Picked(s)] + f[s \ {Picked(s)}]
  BY DEF IsSum
<1>2. s # {} => Picked(s) \in s
  BY DEF Picked
<1>3. QED BY <1>1, <1>2

\* They are unique, so the sum of a part is what the sum of the whole set has for it.
LEMMA SumOfSubset ==
  ASSUME NEW S, IsFiniteSet(S), NEW weight, NEW f, IsSum(f, weight, S), NEW r \in SUBSET S
  PROVE  SumOver(weight, r) = f[r]
<1>1. IsFiniteSet(r)
  BY FS_Subset
<1>2. PICK g : IsSum(g, weight, r) /\ SumOver(weight, r) = g[r]
  <2>1. IsSum(CHOOSE g : IsSum(g, weight, r), weight, r)
    BY <1>1, SumExists
  <2>2. QED BY <2>1 DEF SumOver
<1> DEFINE Bad == {s \in SUBSET r : g[s] # f[s]}
<1>3. Bad = {}
  <2> SUFFICES ASSUME Bad # {} PROVE FALSE
    OBVIOUS
  <2>1. PICK s \in Bad : \A x \in s : s \ {x} \notin Bad
    BY <1>1, SmallestSet
  <2>2. s \in SUBSET r /\ s \in SUBSET S /\ g[s] # f[s]
    BY <2>1
  <2>3. /\ s = {} => f[s] = 0 /\ g[s] = 0
        /\ s # {} => /\ Picked(s) \in s
                     /\ f[s] = weight[Picked(s)] + f[s \ {Picked(s)}]
                     /\ g[s] = weight[Picked(s)] + g[s \ {Picked(s)}]
    <3> HIDE DEF Bad
    <3>1. s = {} => f[s] = 0 /\ g[s] = 0
      BY <1>2, <2>2, SumAt
    <3>2. ASSUME s # {}
          PROVE /\ Picked(s) \in s
                /\ f[s] = weight[Picked(s)] + f[s \ {Picked(s)}]
                /\ g[s] = weight[Picked(s)] + g[s \ {Picked(s)}]
      BY <1>2, <2>2, <3>2, SumAt
    <3>3. QED BY <3>1, <3>2
  <2>4. s # {} => g[s \ {Picked(s)}] = f[s \ {Picked(s)}]
    BY <2>1, <2>2, <2>3
  <2>5. QED BY <2>2, <2>3, <2>4
<1>4. r \in SUBSET r
  OBVIOUS
<1>5. QED BY <1>2, <1>3, <1>4

\* The empty sum, and the element that is taken out first.
LEMMA SumPicks ==
  ASSUME NEW S, IsFiniteSet(S), NEW weight
  PROVE  /\ S = {} => SumOver(weight, S) = 0
         /\ S # {} => /\ Picked(S) \in S
                      /\ SumOver(weight, S) = weight[Picked(S)] + SumOver(weight, S \ {Picked(S)})
<1>1. PICK f : IsSum(f, weight, S)
  BY SumExists
<1>2. S \in SUBSET S /\ S \ {Picked(S)} \in SUBSET S
  OBVIOUS
<1>3. SumOver(weight, S) = f[S] /\ SumOver(weight, S \ {Picked(S)}) = f[S \ {Picked(S)}]
  BY <1>1, <1>2, SumOfSubset
<1>4. /\ S = {} => f[S] = 0
      /\ S # {} => Picked(S) \in S /\ f[S] = weight[Picked(S)] + f[S \ {Picked(S)}]
  BY <1>1, <1>2, SumAt
<1>5. QED BY <1>3, <1>4

\* A sum of natural numbers, of integers, is one.
LEMMA SumIsNat ==
  ASSUME NEW S, IsFiniteSet(S), NEW weight, \A x \in S : weight[x] \in Nat
  PROVE  SumOver(weight, S) \in Nat
<1> DEFINE Bad == {s \in SUBSET S : SumOver(weight, s) \notin Nat}
<1> SUFFICES ASSUME Bad # {} PROVE FALSE
  <2>1. S \in SUBSET S
    OBVIOUS
  <2>2. QED BY <2>1
<1>1. PICK s \in Bad : \A x \in s : s \ {x} \notin Bad
  BY SmallestSet
<1>2. s \in SUBSET S /\ SumOver(weight, s) \notin Nat /\ IsFiniteSet(s)
  BY <1>1, FS_Subset
<1>3. s # {} /\ Picked(s) \in s /\ SumOver(weight, s) = weight[Picked(s)] + SumOver(weight, s \ {Picked(s)})
  <2>1. /\ s = {} => SumOver(weight, s) = 0
        /\ s # {} => /\ Picked(s) \in s
                     /\ SumOver(weight, s) = weight[Picked(s)] + SumOver(weight, s \ {Picked(s)})
    BY <1>2, SumPicks
  <2>2. QED BY <1>2, <2>1
<1>4. SumOver(weight, s \ {Picked(s)}) \in Nat /\ weight[Picked(s)] \in Nat
  BY <1>1, <1>2, <1>3
<1>5. QED BY <1>2, <1>3, <1>4

LEMMA SumIsInt ==
  ASSUME NEW S, IsFiniteSet(S), NEW weight, \A x \in S : weight[x] \in Int
  PROVE  SumOver(weight, S) \in Int
<1> DEFINE Bad == {s \in SUBSET S : SumOver(weight, s) \notin Int}
<1> SUFFICES ASSUME Bad # {} PROVE FALSE
  <2>1. S \in SUBSET S
    OBVIOUS
  <2>2. QED BY <2>1
<1>1. PICK s \in Bad : \A x \in s : s \ {x} \notin Bad
  BY SmallestSet
<1>2. s \in SUBSET S /\ SumOver(weight, s) \notin Int /\ IsFiniteSet(s)
  BY <1>1, FS_Subset
<1>3. s # {} /\ Picked(s) \in s /\ SumOver(weight, s) = weight[Picked(s)] + SumOver(weight, s \ {Picked(s)})
  <2>1. /\ s = {} => SumOver(weight, s) = 0
        /\ s # {} => /\ Picked(s) \in s
                     /\ SumOver(weight, s) = weight[Picked(s)] + SumOver(weight, s \ {Picked(s)})
    BY <1>2, SumPicks
  <2>2. QED BY <1>2, <2>1
<1>4. SumOver(weight, s \ {Picked(s)}) \in Int /\ weight[Picked(s)] \in Int
  BY <1>1, <1>2, <1>3
<1>5. QED BY <1>2, <1>3, <1>4

\* Any element can be taken out of a sum.
LEMMA SumWithout ==
  ASSUME NEW S, IsFiniteSet(S), NEW weight, \A x \in S : weight[x] \in Int, NEW t \in S
  PROVE  SumOver(weight, S) = weight[t] + SumOver(weight, S \ {t})
<1> DEFINE Bad == {s \in SUBSET S : \E y \in s : SumOver(weight, s) # weight[y] + SumOver(weight, s \ {y})}
<1> SUFFICES ASSUME Bad # {} PROVE FALSE
  <2>1. S \in SUBSET S
    OBVIOUS
  <2>2. QED BY <2>1
<1>1. PICK s \in Bad : \A x \in s : s \ {x} \notin Bad
  BY SmallestSet
<1>2. PICK y \in s : SumOver(weight, s) # weight[y] + SumOver(weight, s \ {y})
  BY <1>1
<1>3. s \in SUBSET S /\ IsFiniteSet(s) /\ s # {}
  BY <1>1, <1>2, FS_Subset
<1> DEFINE x == Picked(s)
<1>4. x \in s /\ SumOver(weight, s) = weight[x] + SumOver(weight, s \ {x})
  <2>1. s # {} => /\ Picked(s) \in s
                  /\ SumOver(weight, s) = weight[Picked(s)] + SumOver(weight, s \ {Picked(s)})
    BY <1>3, SumPicks
  <2>2. QED BY <1>3, <2>1
<1> HIDE DEF x
<1>5. x # y
  BY <1>2, <1>4
<1>6. SumOver(weight, s \ {x}) = weight[y] + SumOver(weight, (s \ {x}) \ {y})
  <2>1. s \ {x} \in SUBSET S /\ s \ {x} \notin Bad /\ y \in s \ {x}
    BY <1>1, <1>2, <1>3, <1>4, <1>5
  <2>2. QED BY <2>1
<1>7. SumOver(weight, s \ {y}) = weight[x] + SumOver(weight, (s \ {y}) \ {x})
  <2>1. s \ {y} \in SUBSET S /\ s \ {y} \notin Bad /\ x \in s \ {y}
    BY <1>1, <1>2, <1>3, <1>4, <1>5
  <2>2. QED BY <2>1
<1>8. (s \ {x}) \ {y} = (s \ {y}) \ {x}
  OBVIOUS
<1>9. SumOver(weight, (s \ {y}) \ {x}) \in Int /\ weight[x] \in Int /\ weight[y] \in Int
  <2>1. (s \ {y}) \ {x} \in SUBSET S /\ x \in S /\ y \in S
    BY <1>2, <1>3, <1>4
  <2>2. IsFiniteSet((s \ {y}) \ {x}) /\ \A z \in (s \ {y}) \ {x} : weight[z] \in Int
    BY <2>1, FS_Subset
  <2>3. QED BY <2>1, <2>2, SumIsInt
<1>10. PICK k \in Int : k = SumOver(weight, (s \ {y}) \ {x})
  BY <1>9
<1>11. SumOver(weight, s) = weight[x] + (weight[y] + k) /\ SumOver(weight, s \ {y}) = weight[x] + k
  BY <1>4, <1>6, <1>7, <1>8, <1>10
<1>12. weight[x] + (weight[y] + k) = weight[y] + (weight[x] + k)
  BY <1>9, <1>10
<1>13. QED BY <1>2, <1>11, <1>12

\* What is summed can be renamed.
LEMMA SumRenamed ==
  ASSUME NEW D, IsFiniteSet(D), NEW weight, NEW at, NEW c,
         \A x \in D : c[x] \in Int /\ c[x] = weight[at[x]],
         \A x, y \in D : at[x] = at[y] => x = y
  PROVE  SumOver(c, D) = SumOver(weight, {at[x] : x \in D})
<1> DEFINE Image(s) == {at[x] : x \in s}
           Bad == {s \in SUBSET D : SumOver(c, s) # SumOver(weight, Image(s))}
<1>1. Bad = {}
  <2> SUFFICES ASSUME Bad # {} PROVE FALSE
    OBVIOUS
  <2>1. PICK s \in Bad : \A x \in s : s \ {x} \notin Bad
    <3> HIDE DEF Image
    <3>1. QED BY SmallestSet
  <2>2. s \in SUBSET D /\ SumOver(c, s) # SumOver(weight, Image(s))
    BY <2>1
  <2>3. IsFiniteSet(s) /\ IsFiniteSet(Image(s))
    <3>1. IsFiniteSet(s)
      BY <2>2, FS_Subset
    <3>2. [x \in s |-> at[x]] \in Surjection(s, Image(s))
      BY DEF Surjection
    <3> HIDE DEF Image
    <3>3. QED BY <3>1, <3>2, FS_Surjection
  <2>4. s # {}
    <3>1. Image({}) = {}
      OBVIOUS
    <3>2. SumOver(c, {}) = 0 /\ SumOver(weight, {}) = 0
      BY FS_EmptySet, SumPicks
    <3> HIDE DEF Image
    <3>3. QED BY <2>2, <3>1, <3>2
  <2>5. PICK x \in s : TRUE
    BY <2>4
  <2> DEFINE r == s \ {x}
  <2>6. r \in SUBSET D /\ x \in D /\ SumOver(c, r) = SumOver(weight, Image(r))
    <3> HIDE DEF Image
    <3>1. QED BY <2>1, <2>5
  <2>7. at[x] \in Image(s) /\ Image(r) = Image(s) \ {at[x]}
    <3>1. \A y \in r : at[y] # at[x]
      BY <2>2, <2>5
    <3>2. QED BY <2>2, <2>5, <3>1
  <2>8. \A z \in Image(s) : weight[z] \in Int
    BY <2>2
  <2>9. SumOver(c, s) = c[x] + SumOver(c, r)
    <3>1. \A y \in s : c[y] \in Int
      BY <2>2
    <3> HIDE DEF Image
    <3>2. QED BY <2>3, <2>5, <3>1, SumWithout
  <2> HIDE DEF r, Bad, Image
  <2>10. SumOver(weight, Image(s)) = weight[at[x]] + SumOver(weight, Image(r))
    BY <2>3, <2>7, <2>8, SumWithout
  <2>11. QED BY <2>2, <2>6, <2>9, <2>10
<1>2. D \in SUBSET D
  OBVIOUS
<1>3. QED
  <2> HIDE DEF Image
  <2>1. SumOver(c, D) = SumOver(weight, Image(D))
    BY <1>1, <1>2
  <2>2. QED BY <2>1 DEF Image

\* It depends only on the weights of the elements.
LEMMA SumsAgree ==
  ASSUME NEW S, IsFiniteSet(S), NEW weight, NEW c, \A x \in S : c[x] \in Int /\ c[x] = weight[x]
  PROVE  SumOver(c, S) = SumOver(weight, S)
<1> DEFINE at == [x \in S |-> x]
<1>1. /\ \A x \in S : c[x] \in Int /\ c[x] = weight[at[x]]
      /\ \A x, y \in S : at[x] = at[y] => x = y
  OBVIOUS
<1>2. {at[x] : x \in S} = S
  OBVIOUS
<1> HIDE DEF at
<1>3. SumOver(c, S) = SumOver(weight, {at[x] : x \in S})
  BY <1>1, SumRenamed
<1>4. QED BY <1>2, <1>3

\* A sum of greater numbers is greater, and so is one of more numbers.
LEMMA SumAtMost ==
  ASSUME NEW S, IsFiniteSet(S), NEW c, NEW weight, \A x \in S : c[x] \in Nat /\ weight[x] \in Nat /\ c[x] <= weight[x]
  PROVE  SumOver(c, S) <= SumOver(weight, S)
<1> DEFINE Bad == {s \in SUBSET S : ~ (SumOver(c, s) <= SumOver(weight, s))}
<1> SUFFICES ASSUME Bad # {} PROVE FALSE
  <2>1. S \in SUBSET S
    OBVIOUS
  <2>2. QED BY <2>1
<1>1. PICK s \in Bad : \A x \in s : s \ {x} \notin Bad
  BY SmallestSet
<1>2. s \in SUBSET S /\ IsFiniteSet(s) /\ ~ (SumOver(c, s) <= SumOver(weight, s))
  BY <1>1, FS_Subset
<1>3. s # {}
  <2>1. s = {} => SumOver(c, s) = 0 /\ SumOver(weight, s) = 0
    BY <1>2, SumPicks
  <2>2. QED BY <1>2, <2>1
<1>4. PICK x \in s : TRUE
  BY <1>3
<1>5. /\ SumOver(c, s) = c[x] + SumOver(c, s \ {x})
      /\ SumOver(weight, s) = weight[x] + SumOver(weight, s \ {x})
  <2>1. (\A y \in s : c[y] \in Int) /\ (\A y \in s : weight[y] \in Int)
    BY <1>2
  <2>2. QED BY <1>2, <2>1, SumWithout
<1>6. SumOver(c, s \ {x}) <= SumOver(weight, s \ {x})
  <2>1. s \ {x} \in SUBSET S /\ s \ {x} \notin Bad
    BY <1>1, <1>2
  <2>2. QED BY <2>1
<1>7. SumOver(c, s \ {x}) \in Nat /\ SumOver(weight, s \ {x}) \in Nat
  <2>1. IsFiniteSet(s \ {x}) /\ (\A y \in s \ {x} : c[y] \in Nat) /\ (\A y \in s \ {x} : weight[y] \in Nat)
    BY <1>2, FS_RemoveElement
  <2>2. QED BY <2>1, SumIsNat
<1>8. c[x] \in Nat /\ weight[x] \in Nat /\ c[x] <= weight[x]
  BY <1>2
<1>9. QED BY <1>2, <1>5, <1>6, <1>7, <1>8

LEMMA SumOfPart ==
  ASSUME NEW S, IsFiniteSet(S), NEW weight, \A x \in S : weight[x] \in Nat, NEW T \in SUBSET S
  PROVE  SumOver(weight, T) <= SumOver(weight, S)
<1> DEFINE Bad == {s \in SUBSET S : T \in SUBSET s /\ ~ (SumOver(weight, T) <= SumOver(weight, s))}
<1> SUFFICES ASSUME Bad # {} PROVE FALSE
  <2>1. S \in SUBSET S
    OBVIOUS
  <2>2. QED BY <2>1
<1>1. PICK s \in Bad : \A x \in s : s \ {x} \notin Bad
  <2>1. Bad \in SUBSET (SUBSET S)
    OBVIOUS
  <2> HIDE DEF Bad
  <2>2. QED BY <2>1, SmallestSet
<1>2. s \in SUBSET S /\ IsFiniteSet(s) /\ T \in SUBSET s /\ ~ (SumOver(weight, T) <= SumOver(weight, s))
  BY <1>1, FS_Subset
<1>3. SumOver(weight, T) \in Nat /\ IsFiniteSet(T)
  <2>1. IsFiniteSet(T) /\ \A x \in T : weight[x] \in Nat
    BY FS_Subset
  <2>2. QED BY <2>1, SumIsNat
<1>4. T # s
  BY <1>2, <1>3
<1>5. PICK x \in s : x \notin T
  BY <1>2, <1>4
<1>6. SumOver(weight, T) <= SumOver(weight, s \ {x})
  <2>1. s \ {x} \in SUBSET S /\ s \ {x} \notin Bad /\ T \in SUBSET (s \ {x})
    BY <1>1, <1>2, <1>5
  <2>2. QED BY <2>1
<1>7. SumOver(weight, s) = weight[x] + SumOver(weight, s \ {x})
  <2>1. \A y \in s : weight[y] \in Int
    BY <1>2
  <2>2. QED BY <1>2, <2>1, SumWithout
<1>8. SumOver(weight, s \ {x}) \in Nat /\ weight[x] \in Nat
  <2>1. IsFiniteSet(s \ {x}) /\ \A y \in s \ {x} : weight[y] \in Nat
    BY <1>2, FS_RemoveElement
  <2>2. QED BY <1>2, <2>1, SumIsNat
<1>9. QED BY <1>2, <1>3, <1>6, <1>7, <1>8

\* One more weight among the others: of those that were there, at most the one it comes
\* before changes.
OneMore(c, weight, n, pos) ==
  /\ n \in Nat /\ pos \in 0..n
  /\ \A k \in 1..n : weight[k] \in Int
  /\ \A k \in 1..n + 1 : c[k] \in Int
  /\ \A k \in 1..pos : c[k] = weight[k]
  /\ \A k \in pos + 2..n : c[k + 1] = weight[k]

Added(c, weight, n, pos) == c[pos + 1] + (IF pos = n THEN 0 ELSE c[pos + 2] - weight[pos + 1])

LEMMA SumInserted ==
  ASSUME NEW n, NEW pos, NEW weight, NEW c, OneMore(c, weight, n, pos)
  PROVE  SumOver(c, 1..n + 1) = SumOver(weight, 1..n) + Added(c, weight, n, pos)
<1> n \in Nat /\ pos \in 0..n
  BY DEF OneMore
<1> /\ \A k \in 1..n : weight[k] \in Int
    /\ \A k \in 1..n + 1 : c[k] \in Int
    /\ \A k \in 1..pos : c[k] = weight[k]
    /\ \A k \in pos + 2..n : c[k + 1] = weight[k]
  BY DEF OneMore
<1> SUFFICES SumOver(c, 1..n + 1)
               = SumOver(weight, 1..n) + (c[pos + 1] + (IF pos = n THEN 0 ELSE c[pos + 2] - weight[pos + 1]))
  BY DEF Added
<1>1. IsFiniteSet(1..n) /\ IsFiniteSet(1..n + 1)
  BY FS_Interval
<1>2. SumOver(c, 1..n + 1) = c[pos + 1] + SumOver(c, (1..n + 1) \ {pos + 1})
  <2>1. pos + 1 \in 1..n + 1
    OBVIOUS
  <2>2. QED BY <1>1, <2>1, SumWithout
<1>3. CASE pos = n
  <2>1. (1..n + 1) \ {pos + 1} = 1..n
    BY <1>3
  <2>2. SumOver(weight, 1..n) = SumOver(c, 1..n)
    BY <1>1, <1>3, SumsAgree
  <2>3. PICK whole \in Int : whole = SumOver(c, 1..n)
    <3>1. \A k \in 1..n : c[k] \in Int
      OBVIOUS
    <3>2. QED BY <1>1, <3>1, SumIsInt
  <2>4. PICK new \in Int : new = c[pos + 1]
    OBVIOUS
  <2>5. SumOver(c, 1..n + 1) = new + whole /\ SumOver(weight, 1..n) = whole
    BY <1>2, <2>1, <2>2, <2>3, <2>4
  <2>6. new + whole = whole + (new + 0)
    BY <2>3, <2>4
  <2>7. QED BY <1>3, <2>4, <2>5, <2>6
<1>4. CASE pos < n
  <2> DEFINE D == (1..n) \ {pos + 1}
             rest == ((1..n + 1) \ {pos + 1}) \ {pos + 2}
             at == [k \in D |-> IF k <= pos THEN k ELSE k + 1]
  <2>1. IsFiniteSet(D) /\ IsFiniteSet((1..n + 1) \ {pos + 1}) /\ IsFiniteSet(rest)
    BY <1>1, FS_Subset
  <2>2. SumOver(weight, 1..n) = weight[pos + 1] + SumOver(weight, D)
    <3>1. pos + 1 \in 1..n
      BY <1>4
    <3>2. QED BY <1>1, <3>1, SumWithout
  <2>3. SumOver(c, (1..n + 1) \ {pos + 1}) = c[pos + 2] + SumOver(c, rest)
    <3>1. pos + 2 \in (1..n + 1) \ {pos + 1} /\ \A k \in (1..n + 1) \ {pos + 1} : c[k] \in Int
      BY <1>4
    <3> HIDE DEF D, at
    <3>2. QED BY <2>1, <3>1, SumWithout
  <2>4. {at[k] : k \in D} = rest
    <3>1. \A k \in D : at[k] \in rest
      OBVIOUS
    <3>2. ASSUME NEW m \in rest PROVE \E k \in D : at[k] = m
      <4>1. CASE m <= pos
        <5>1. m \in D /\ at[m] = m
          BY <4>1
        <5>2. QED BY <5>1
      <4>2. CASE m > pos + 2
        <5>1. m - 1 \in D /\ at[m - 1] = m
          BY <4>2
        <5>2. QED BY <5>1
      <4>3. QED BY <4>1, <4>2
    <3> HIDE DEF D, at, rest
    <3>3. QED BY <3>1, <3>2
  <2>5. SumOver(weight, D) = SumOver(c, {at[k] : k \in D})
    <3>1. \A k \in D : weight[k] \in Int /\ weight[k] = c[at[k]]
      <4>1. ASSUME NEW k \in D PROVE weight[k] \in Int /\ weight[k] = c[at[k]]
        <5>1. CASE k <= pos
          BY <5>1
        <5>2. CASE k > pos
          <6>1. k \in pos + 2..n /\ at[k] = k + 1
            BY <5>2
          <6>2. QED BY <6>1
        <5>3. QED BY <5>1, <5>2
      <4>2. QED BY <4>1
    <3>2. \A k, m \in D : at[k] = at[m] => k = m
      OBVIOUS
    <3> HIDE DEF D, at
    <3>3. QED BY <2>1, <3>1, <3>2, SumRenamed
  <2>6. SumOver(c, rest) \in Int
    <3>1. \A k \in rest : c[k] \in Int
      OBVIOUS
    <3> HIDE DEF rest
    <3>2. QED BY <2>1, <3>1, SumIsInt
  <2>7. c[pos + 1] \in Int /\ c[pos + 2] \in Int /\ weight[pos + 1] \in Int
    BY <1>4
  <2> HIDE DEF D, at, rest
  <2>8. PICK whole \in Int, new \in Int, next \in Int, old \in Int :
          whole = SumOver(c, rest) /\ new = c[pos + 1] /\ next = c[pos + 2] /\ old = weight[pos + 1]
    BY <2>6, <2>7
  <2>9. SumOver(c, 1..n + 1) = new + (next + whole) /\ SumOver(weight, 1..n) = old + whole
    BY <1>2, <2>2, <2>3, <2>4, <2>5, <2>8
  <2>10. new + (next + whole) = (old + whole) + (new + (next - old))
    BY <2>8
  <2>11. QED BY <1>4, <2>8, <2>9, <2>10
<1>5. QED BY <1>3, <1>4

-----------------------------------------------------------------------------
(* A route with one more stop *)

\* The stop comes after the first pos ones.
Longer(longer, stops, pos, s) ==
  /\ DOMAIN longer = 1..Len(stops) + 1
  /\ \A k \in 1..Len(stops) + 1 :
       longer[k] = IF k <= pos THEN stops[k] ELSE IF k = pos + 1 THEN s ELSE stops[k - 1]

LEMMA InsertAtIsLonger ==
  ASSUME NEW S, NEW stops \in Seq(S), NEW s \in S, NEW pos \in 0..Len(stops)
  PROVE  /\ Longer(InsertAt(stops, pos + 1, s), stops, pos, s)
         /\ InsertAt(stops, pos + 1, s) \in Seq(S)
<1> DEFINE n == Len(stops)
           before == SubSeq(stops, 1, (pos + 1) - 1)
           after == SubSeq(stops, pos + 1, n)
<1>1. n \in Nat /\ \A k \in 1..n : stops[k] \in S
  BY LenProperties, ElementOfSeq
<1>2. before \in Seq(S) /\ Len(before) = pos /\ \A k \in 1..pos : before[k] = stops[k]
  <2>1. /\ SubSeq(stops, 1, pos) \in Seq(S)
        /\ Len(SubSeq(stops, 1, pos)) = IF 1 <= pos THEN pos - 1 + 1 ELSE 0
        /\ \A k \in 1..pos - 1 + 1 : SubSeq(stops, 1, pos)[k] = stops[1 + k - 1]
    BY <1>1, SubSeqProperties
  <2>2. (pos + 1) - 1 = pos
    BY <1>1
  <2>3. QED BY <1>1, <2>1, <2>2
<1>3. after \in Seq(S) /\ Len(after) = n - pos /\ \A k \in 1..n - pos : after[k] = stops[pos + k]
  <2>1. /\ after \in Seq(S)
        /\ Len(after) = IF pos + 1 <= n THEN n - (pos + 1) + 1 ELSE 0
        /\ \A k \in 1..n - (pos + 1) + 1 : after[k] = stops[pos + 1 + k - 1]
    BY <1>1, SubSeqProperties
  <2>2. \A k \in 1..n - pos : pos + 1 + k - 1 = pos + k
    BY <1>1
  <2>3. QED BY <1>1, <2>1, <2>2
<1>4. <<s>> \in Seq(S) /\ Len(<<s>>) = 1 /\ <<s>>[1] = s
  OBVIOUS
<1> HIDE DEF before, after
<1>5. /\ before \o <<s>> \in Seq(S) /\ Len(before \o <<s>>) = pos + 1
      /\ \A k \in 1..pos + 1 : (before \o <<s>>)[k] = IF k <= pos THEN before[k] ELSE <<s>>[k - pos]
  BY <1>2, <1>4, ConcatProperties
<1> DEFINE longer == (before \o <<s>>) \o after
<1>6. /\ longer \in Seq(S) /\ Len(longer) = (pos + 1) + (n - pos)
      /\ \A k \in 1..(pos + 1) + (n - pos) :
           longer[k] = IF k <= pos + 1 THEN (before \o <<s>>)[k] ELSE after[k - (pos + 1)]
  <2> DEFINE first == before \o <<s>>
  <2>1. first \in Seq(S) /\ Len(first) = pos + 1
    BY <1>5
  <2> HIDE DEF first
  <2>2. /\ first \o after \in Seq(S) /\ Len(first \o after) = Len(first) + Len(after)
        /\ \A k \in 1..Len(first) + Len(after) :
             (first \o after)[k] = IF k <= Len(first) THEN first[k] ELSE after[k - Len(first)]
    BY <1>3, <2>1, ConcatProperties
  <2>3. QED BY <1>3, <2>1, <2>2 DEF first
<1>7. InsertAt(stops, pos + 1, s) = longer
  BY DEF InsertAt, before, after
<1> HIDE DEF longer
<1>8. (pos + 1) + (n - pos) = n + 1
  BY <1>1
<1>9. DOMAIN longer = 1..n + 1
  BY <1>6, <1>8, LenProperties
<1>10. ASSUME NEW k \in 1..n + 1
       PROVE  longer[k] = IF k <= pos THEN stops[k] ELSE IF k = pos + 1 THEN s ELSE stops[k - 1]
  <2>1. CASE k <= pos
    <3>1. k \in 1..pos /\ k \in 1..pos + 1 /\ k <= pos + 1
      BY <1>1, <2>1
    <3>2. longer[k] = (before \o <<s>>)[k]
      BY <1>6, <1>8, <3>1
    <3>3. (before \o <<s>>)[k] = before[k]
      BY <1>5, <2>1, <3>1
    <3>4. before[k] = stops[k]
      BY <1>2, <3>1
    <3>5. QED BY <2>1, <3>2, <3>3, <3>4
  <2>2. CASE k = pos + 1
    <3>1. k - pos = 1 /\ ~ (k <= pos) /\ k <= pos + 1 /\ k \in 1..pos + 1
      BY <1>1, <2>2
    <3>2. longer[k] = <<s>>[1]
      BY <1>5, <1>6, <1>8, <3>1
    <3>3. QED BY <1>4, <2>2, <3>1, <3>2
  <2>3. CASE k > pos + 1
    <3>1. k - (pos + 1) \in 1..n - pos /\ pos + (k - (pos + 1)) = k - 1 /\ ~ (k <= pos + 1) /\ ~ (k <= pos)
      BY <1>1, <2>3
    <3>2. longer[k] = after[k - (pos + 1)]
      BY <1>6, <1>8, <3>1
    <3>3. after[k - (pos + 1)] = stops[pos + (k - (pos + 1))]
      BY <1>3, <3>1
    <3>4. QED BY <2>3, <3>1, <3>2, <3>3
  <2>4. QED BY <1>1, <2>1, <2>2, <2>3
<1>11. QED BY <1>6, <1>7, <1>9, <1>10 DEF Longer

\* The input has the types that the model gives it.
InputOK ==
  /\ Len(place) \in Nat /\ Stops = 1..Len(place)
  /\ \A s \in Stops : place[s] \in Places /\ demand[s] \in Nat
  /\ Len(capacity) \in Nat /\ Vehicles = 1..Len(capacity)
  /\ \A v \in Vehicles : capacity[v] \in Nat

Legs(stops) == [i \in DOMAIN stops |-> Distance[At(stops, i - 1), At(stops, i)]]
Demand(stops) == [i \in DOMAIN stops |-> demand[stops[i]]]

LEMMA LengthIs ==
  ASSUME NEW stops
  PROVE  Length(stops) = SumOver(Legs(stops), DOMAIN stops)
BY DEF Length, MapThenSumSet, MapThenFoldSet, SumOver, IsSum, Picked, Legs

LEMMA LoadIs ==
  ASSUME NEW stops
  PROVE  Load(stops) = SumOver(Demand(stops), DOMAIN stops)
BY DEF Load, MapThenSumSet, MapThenFoldSet, SumOver, IsSum, Picked, Demand

LEMMA DistanceIsNat ==
  ASSUME NEW p \in Places, NEW q \in Places
  PROVE  Distance[p, q] \in Nat
BY SolverConstants

\* What a route of stops of the input consists of.
LEMMA RouteParts ==
  ASSUME InputOK, NEW stops \in Seq(Stops)
  PROVE  /\ Len(stops) \in Nat /\ DOMAIN stops = 1..Len(stops) /\ IsFiniteSet(DOMAIN stops)
         /\ \A k \in 1..Len(stops) : stops[k] \in Stops
         /\ \A k \in 0..Len(stops) : At(stops, k) \in Places
         /\ \A k \in 1..Len(stops) : Legs(stops)[k] \in Nat /\ Demand(stops)[k] \in Nat
<1>1. Len(stops) \in Nat /\ DOMAIN stops = 1..Len(stops) /\ \A k \in 1..Len(stops) : stops[k] \in Stops
  BY LenProperties, ElementOfSeq
<1>2. IsFiniteSet(DOMAIN stops)
  BY <1>1, FS_Interval
<1>3. \A k \in 0..Len(stops) : At(stops, k) \in Places
  <2>1. Warehouse \in Places
    BY SolverConstants
  <2>2. \A k \in 1..Len(stops) : place[stops[k]] \in Places
    BY <1>1 DEF InputOK
  <2>3. ASSUME NEW k \in 0..Len(stops), k # 0 PROVE k \in 1..Len(stops)
    BY <1>1, <2>3
  <2>4. QED BY <2>1, <2>2, <2>3 DEF At
<1>4. ASSUME NEW k \in 1..Len(stops) PROVE Legs(stops)[k] \in Nat /\ Demand(stops)[k] \in Nat
  <2>1. k - 1 \in 0..Len(stops) /\ k \in 0..Len(stops) /\ k \in DOMAIN stops
    BY <1>1
  <2>2. At(stops, k - 1) \in Places /\ At(stops, k) \in Places
    BY <1>3, <2>1
  <2>3. Legs(stops)[k] = Distance[At(stops, k - 1), At(stops, k)] /\ Demand(stops)[k] = demand[stops[k]]
    BY <2>1 DEF Legs, Demand
  <2>4. demand[stops[k]] \in Nat
    BY <1>1 DEF InputOK
  <2>5. QED BY <2>2, <2>3, <2>4, DistanceIsNat
<1>5. QED BY <1>1, <1>2, <1>3, <1>4

\* A route has a length and a load.
LEMMA LengthIsNat ==
  ASSUME InputOK, NEW stops \in Seq(Stops)
  PROVE  Length(stops) \in Nat /\ Load(stops) \in Nat
<1>1. /\ IsFiniteSet(DOMAIN stops)
      /\ \A k \in DOMAIN stops : Legs(stops)[k] \in Nat /\ Demand(stops)[k] \in Nat
  BY RouteParts
<1>2. SumOver(Legs(stops), DOMAIN stops) \in Nat
  BY <1>1, SumIsNat
<1>3. SumOver(Demand(stops), DOMAIN stops) \in Nat
  BY <1>1, SumIsNat
<1>4. QED BY <1>2, <1>3, LengthIs, LoadIs

LEMMA EmptyRoute == Length(<<>>) = 0 /\ Load(<<>>) = 0
<1>1. DOMAIN <<>> = {} /\ IsFiniteSet({})
  BY FS_EmptySet
<1>2. SumOver(Legs(<<>>), {}) = 0 /\ SumOver(Demand(<<>>), {}) = 0
  BY <1>1, SumPicks
<1>3. QED BY <1>1, <1>2, LengthIs, LoadIs

\* The stops of the longer route.
LEMMA LongerStops ==
  ASSUME NEW stops, Len(stops) \in Nat, DOMAIN stops = 1..Len(stops),
         NEW s, NEW pos \in 0..Len(stops), NEW longer, Longer(longer, stops, pos, s)
  PROVE  /\ ToSet(longer) = ToSet(stops) \cup {s}
         /\ IsInjective(stops) /\ s \notin ToSet(stops) => IsInjective(longer)
<1> DEFINE n == Len(stops)
<1>1. /\ n \in Nat /\ DOMAIN longer = 1..n + 1
      /\ \A k \in 1..pos : k \in 1..n + 1 /\ longer[k] = stops[k]
      /\ pos + 1 \in 1..n + 1 /\ longer[pos + 1] = s
      /\ \A k \in pos + 1..n : k + 1 \in 1..n + 1 /\ longer[k + 1] = stops[k]
  <2>1. ASSUME NEW k \in pos + 1..n PROVE k + 1 \in 1..n + 1 /\ longer[k + 1] = stops[k]
    <3>1. k + 1 \in 1..n + 1 /\ ~ (k + 1 <= pos) /\ k + 1 # pos + 1 /\ (k + 1) - 1 = k
      OBVIOUS
    <3>2. longer[k + 1] = stops[(k + 1) - 1]
      BY <3>1 DEF Longer
    <3>3. QED BY <3>1, <3>2
  <2>2. ASSUME NEW k \in 1..pos PROVE k \in 1..n + 1 /\ longer[k] = stops[k]
    BY DEF Longer
  <2>3. pos + 1 \in 1..n + 1 /\ longer[pos + 1] = s
    BY DEF Longer
  <2>4. QED BY <2>1, <2>2, <2>3 DEF Longer
<1> DEFINE from(k) == IF k <= pos THEN k ELSE k - 1
<1>2. \A k \in 1..n + 1 : k # pos + 1 => from(k) \in 1..n /\ longer[k] = stops[from(k)]
  BY DEF Longer
<1>3. ToSet(longer) = ToSet(stops) \cup {s}
  <2>1. ASSUME NEW x \in ToSet(longer) PROVE x \in ToSet(stops) \cup {s}
    <3>1. PICK k \in 1..n + 1 : x = longer[k]
      BY <1>1 DEF ToSet
    <3>2. CASE k = pos + 1
      BY <1>1, <3>1, <3>2
    <3>3. CASE k # pos + 1
      <4>1. from(k) \in 1..n /\ x = stops[from(k)]
        BY <1>2, <3>1, <3>3
      <4> HIDE DEF from
      <4>2. QED BY <4>1 DEF ToSet
    <3>4. QED BY <3>2, <3>3
  <2>2. ASSUME NEW k \in 1..n PROVE stops[k] \in ToSet(longer)
    <3>1. CASE k <= pos
      <4>1. k \in DOMAIN longer /\ longer[k] = stops[k]
        BY <1>1, <3>1
      <4>2. QED BY <4>1 DEF ToSet
    <3>2. CASE k > pos
      <4>1. k + 1 \in DOMAIN longer /\ longer[k + 1] = stops[k]
        BY <1>1, <3>2
      <4>2. QED BY <4>1 DEF ToSet
    <3>3. QED BY <3>1, <3>2
  <2>3. s \in ToSet(longer)
    BY <1>1 DEF ToSet
  <2>4. \A x \in ToSet(stops) : x \in ToSet(longer)
    BY <2>2 DEF ToSet
  <2>5. QED BY <2>1, <2>3, <2>4
<1>4. ASSUME IsInjective(stops), s \notin ToSet(stops) PROVE IsInjective(longer)
  <2>1. \A k \in 1..n : stops[k] # s
    BY <1>4 DEF ToSet
  <2>2. \A k, m \in 1..n : stops[k] = stops[m] => k = m
    BY <1>4 DEF IsInjective
  <2>3. ASSUME NEW k \in 1..n + 1, NEW m \in 1..n + 1, longer[k] = longer[m] PROVE k = m
    <3>1. CASE k = pos + 1 \/ m = pos + 1
      <4>1. k = pos + 1 /\ m = pos + 1
        <5> HIDE DEF from
        <5>1. QED BY <1>1, <1>2, <2>1, <2>3, <3>1
      <4>2. QED BY <4>1
    <3>2. CASE k # pos + 1 /\ m # pos + 1
      <4>1. from(k) = from(m)
        <5> HIDE DEF from
        <5>1. QED BY <1>2, <2>2, <2>3, <3>2
      <4>2. QED BY <3>2, <4>1
    <3>3. QED BY <3>1, <3>2
  <2>4. QED BY <1>1, <2>3 DEF IsInjective
<1>5. QED BY <1>3, <1>4

LEMMA Regrouped == \A a, b, c \in Int : a + (b - c) = a + b - c
OBVIOUS

\* How long it gets, and how loaded: insertionCostDelta is what the length changes by.
LEMMA LongerRoute ==
  ASSUME InputOK, NEW stops \in Seq(Stops), NEW s \in Stops, NEW pos \in 0..Len(stops),
         NEW longer \in Seq(Stops), Longer(longer, stops, pos, s)
  PROVE  /\ Delta(stops, pos, s) \in Int
         /\ Length(longer) = Length(stops) + Delta(stops, pos, s)
         /\ Load(longer) = Load(stops) + demand[s]
<1> DEFINE n == Len(stops)
<1>1. /\ n \in Nat /\ DOMAIN stops = 1..n
      /\ \A k \in 0..n : At(stops, k) \in Places
      /\ \A k \in 1..n : Legs(stops)[k] \in Int /\ Demand(stops)[k] \in Int
  BY RouteParts
<1>2. /\ DOMAIN longer = 1..n + 1
      /\ \A k \in 1..n + 1 : longer[k] = IF k <= pos THEN stops[k] ELSE IF k = pos + 1 THEN s ELSE stops[k - 1]
  BY DEF Longer
<1>3. \A k \in 1..n + 1 : Legs(longer)[k] \in Int /\ Demand(longer)[k] \in Int
  <2>1. DOMAIN longer = 1..Len(longer) /\ \A k \in 1..Len(longer) : Legs(longer)[k] \in Nat /\ Demand(longer)[k] \in Nat
    BY RouteParts
  <2>2. QED BY <1>2, <2>1
<1>4. \A k \in 0..pos : At(longer, k) = At(stops, k)
  <2>1. ASSUME NEW k \in 0..pos, k # 0 PROVE longer[k] = stops[k]
    <3>1. k \in 1..n + 1 /\ k <= pos
      BY <1>1, <2>1
    <3>2. QED BY <1>2, <3>1
  <2>2. QED BY <2>1 DEF At
<1>5. At(longer, pos + 1) = place[s]
  <2>1. pos + 1 \in 1..n + 1 /\ ~ (pos + 1 <= pos) /\ pos + 1 # 0
    BY <1>1
  <2>2. longer[pos + 1] = s
    BY <1>2, <2>1
  <2>3. QED BY <2>1, <2>2 DEF At
<1>6. ASSUME NEW k \in pos + 1..n PROVE At(longer, k + 1) = At(stops, k) /\ longer[k + 1] = stops[k]
  <2>1. k + 1 \in 1..n + 1 /\ ~ (k + 1 <= pos) /\ k + 1 # pos + 1 /\ (k + 1) - 1 = k /\ k + 1 # 0 /\ k # 0
    BY <1>1
  <2>2. longer[k + 1] = stops[k]
    BY <1>2, <2>1
  <2>3. QED BY <2>1, <2>2 DEF At
<1>7. \A k \in 1..n + 1 : Legs(longer)[k] = Distance[At(longer, k - 1), At(longer, k)]
  BY <1>2 DEF Legs
<1>8. \A k \in 1..n : Legs(stops)[k] = Distance[At(stops, k - 1), At(stops, k)]
  BY <1>1 DEF Legs
<1>9. ASSUME NEW k \in 1..pos PROVE Legs(longer)[k] = Legs(stops)[k] /\ Demand(longer)[k] = Demand(stops)[k]
  <2>1. k \in 1..n + 1 /\ k \in 1..n /\ k - 1 \in 0..pos /\ k \in 0..pos /\ k <= pos
    BY <1>1
  <2>2. At(longer, k - 1) = At(stops, k - 1) /\ At(longer, k) = At(stops, k)
    BY <1>4, <2>1
  <2>3. Legs(longer)[k] = Legs(stops)[k]
    BY <1>7, <1>8, <2>1, <2>2
  <2>4. Demand(longer)[k] = demand[longer[k]] /\ Demand(stops)[k] = demand[stops[k]] /\ longer[k] = stops[k]
    BY <1>1, <1>2, <2>1 DEF Demand
  <2>5. QED BY <2>3, <2>4
<1>10. ASSUME NEW k \in pos + 2..n PROVE Legs(longer)[k + 1] = Legs(stops)[k]
  <2>1. k - 1 \in pos + 1..n /\ k \in pos + 1..n /\ (k - 1) + 1 = k /\ (k + 1) - 1 = k
        /\ k + 1 \in 1..n + 1 /\ k \in 1..n
    BY <1>1
  <2>2. At(longer, k) = At(stops, k - 1) /\ At(longer, k + 1) = At(stops, k)
    <3>1. At(longer, (k - 1) + 1) = At(stops, k - 1)
      BY <1>6, <2>1
    <3>2. At(longer, k + 1) = At(stops, k)
      BY <1>6, <2>1
    <3>3. QED BY <2>1, <3>1, <3>2
  <2>3. Legs(longer)[k + 1] = Distance[At(longer, (k + 1) - 1), At(longer, k + 1)]
    BY <1>7, <2>1
  <2>4. Legs(stops)[k] = Distance[At(stops, k - 1), At(stops, k)]
    BY <1>8, <2>1
  <2>5. QED BY <2>1, <2>2, <2>3, <2>4
<1>11. ASSUME NEW k \in pos + 1..n PROVE Demand(longer)[k + 1] = Demand(stops)[k]
  <2>1. k + 1 \in 1..n + 1 /\ k \in 1..n
    BY <1>1
  <2>2. QED BY <1>1, <1>2, <1>6, <2>1 DEF Demand
<1>12. Legs(longer)[pos + 1] = Distance[At(stops, pos), place[s]]
  <2>1. pos + 1 \in 1..n + 1 /\ (pos + 1) - 1 = pos /\ pos \in 0..pos
    BY <1>1
  <2>2. Legs(longer)[pos + 1] = Distance[At(longer, (pos + 1) - 1), At(longer, pos + 1)]
    BY <1>7, <2>1
  <2>3. At(longer, pos) = At(stops, pos)
    BY <1>4, <2>1
  <2>4. QED BY <1>5, <2>1, <2>2, <2>3
<1>13. n \in Nat /\ pos \in 0..n
  BY <1>1
<1>14. pos # n => /\ pos + 2 \in 1..n + 1 /\ (pos + 2) - 1 = pos + 1 /\ pos + 1 \in 1..n /\ (pos + 1) - 1 = pos
                  /\ pos + 1 \in pos + 1..n /\ (pos + 1) + 1 = pos + 2
  BY <1>13
<1>15. /\ \A k \in 1..n : Legs(stops)[k] \in Int
       /\ \A k \in 1..n : Demand(stops)[k] \in Int
       /\ \A k \in 1..n + 1 : Legs(longer)[k] \in Int
       /\ \A k \in 1..n + 1 : Demand(longer)[k] \in Int
  BY <1>1, <1>3
<1>16. ASSUME pos # n
       PROVE  /\ Legs(longer)[pos + 2] = Distance[place[s], At(stops, pos + 1)]
              /\ Legs(stops)[pos + 1] = Distance[At(stops, pos), At(stops, pos + 1)]
              /\ Demand(longer)[pos + 2] = Demand(stops)[pos + 1]
  <2>1. pos + 2 \in 1..n + 1 /\ (pos + 2) - 1 = pos + 1 /\ pos + 1 \in 1..n /\ (pos + 1) - 1 = pos
        /\ pos + 1 \in pos + 1..n /\ (pos + 1) + 1 = pos + 2
    BY <1>16, <1>14
  <2>2. Legs(longer)[pos + 2] = Distance[At(longer, (pos + 2) - 1), At(longer, pos + 2)]
    BY <1>7, <2>1
  <2>3. At(longer, pos + 2) = At(stops, pos + 1) /\ Demand(longer)[pos + 2] = Demand(stops)[pos + 1]
    <3>1. At(longer, (pos + 1) + 1) = At(stops, pos + 1) /\ Demand(longer)[(pos + 1) + 1] = Demand(stops)[pos + 1]
      BY <1>6, <1>11, <2>1
    <3>2. QED BY <2>1, <3>1
  <2>4. Legs(stops)[pos + 1] = Distance[At(stops, (pos + 1) - 1), At(stops, pos + 1)]
    BY <1>8, <2>1
  <2>5. QED BY <1>5, <2>1, <2>2, <2>3, <2>4
<1>17. SumOver(Legs(longer), 1..n + 1) = SumOver(Legs(stops), 1..n) + Added(Legs(longer), Legs(stops), n, pos)
  <2>1. OneMore(Legs(longer), Legs(stops), n, pos)
    BY <1>9, <1>10, <1>13, <1>15 DEF OneMore
  <2>2. QED BY <2>1, SumInserted
<1>18. SumOver(Demand(longer), 1..n + 1) = SumOver(Demand(stops), 1..n) + Added(Demand(longer), Demand(stops), n, pos)
  <2>1. \A k \in pos + 2..n : Demand(longer)[k + 1] = Demand(stops)[k]
    <3>1. \A k \in pos + 2..n : k \in pos + 1..n
      BY <1>1
    <3>2. QED BY <1>11, <3>1
  <2>2. OneMore(Demand(longer), Demand(stops), n, pos)
    BY <1>9, <1>13, <1>15, <2>1 DEF OneMore
  <2>3. QED BY <2>2, SumInserted
<1>19. Length(longer) = SumOver(Legs(longer), 1..n + 1) /\ Length(stops) = SumOver(Legs(stops), 1..n)
       /\ Load(longer) = SumOver(Demand(longer), 1..n + 1) /\ Load(stops) = SumOver(Demand(stops), 1..n)
  BY <1>1, <1>2, LengthIs, LoadIs
<1>20. Delta(stops, pos, s) = Added(Legs(longer), Legs(stops), n, pos) /\ Delta(stops, pos, s) \in Int
  <2>1. PICK a \in Int : a = Legs(longer)[pos + 1]
    <3>1. pos + 1 \in 1..n + 1
      BY <1>1
    <3>2. QED BY <1>3, <3>1
  <2>2. CASE pos = n
    <3>1. Delta(stops, pos, s) = a
      BY <1>12, <2>1, <2>2 DEF Delta
    <3>2. a = a + 0
      BY <2>1
    <3>3. QED BY <2>1, <2>2, <3>1, <3>2 DEF Added
  <2>3. CASE pos # n
    <3>1. PICK b \in Int, c \in Int : b = Legs(longer)[pos + 2] /\ c = Legs(stops)[pos + 1]
      <4>1. pos + 2 \in 1..n + 1 /\ pos + 1 \in 1..n
        BY <1>14, <2>3
      <4>2. QED BY <1>15, <4>1
    <3>2. Delta(stops, pos, s) = a + b - c
      BY <1>12, <1>16, <2>1, <2>3, <3>1 DEF Delta
    <3>3. a + (b - c) = a + b - c /\ a + b - c \in Int
      BY <2>1, <3>1, Regrouped
    <3>4. QED BY <2>1, <2>3, <3>1, <3>2, <3>3 DEF Added
  <2>4. QED BY <2>2, <2>3
<1>21. Added(Demand(longer), Demand(stops), n, pos) = demand[s]
  <2>1. PICK a \in Int : a = demand[s]
    BY DEF InputOK
  <2>2. Demand(longer)[pos + 1] = demand[s]
    <3>1. pos + 1 \in 1..n + 1 /\ ~ (pos + 1 <= pos)
      BY <1>1
    <3>2. QED BY <1>2, <3>1 DEF Demand
  <2>3. CASE pos = n
    BY <2>1, <2>2, <2>3 DEF Added
  <2>4. CASE pos # n
    <3>1. pos + 1 \in 1..n
      BY <1>14, <2>4
    <3>2. PICK b \in Int : b = Demand(stops)[pos + 1]
      BY <1>15, <3>1
    <3>3. Demand(longer)[pos + 2] = b
      BY <1>16, <2>4, <3>2
    <3>4. a + (b - b) = a
      BY <2>1, <3>2
    <3>5. QED BY <2>1, <2>2, <2>4, <3>2, <3>3, <3>4 DEF Added
  <2>5. QED BY <2>3, <2>4
<1>22. QED BY <1>17, <1>18, <1>19, <1>20, <1>21

-----------------------------------------------------------------------------
(* What is taken in order *)

\* Ordered by R, which any two elements are.
Orders(R, S) ==
  /\ \A x, y \in S : x # y => <<x, y>> \in R \/ <<y, x>> \in R
  /\ \A x, y, z \in S : <<x, y>> \in R /\ <<y, z>> \in R => <<x, z>> \in R

IsOrdered(s, R, S) ==
  /\ s \in [1..Cardinality(S) -> S]
  /\ \A i, k \in 1..Cardinality(S) : i < k => s[i] # s[k] /\ <<s[i], s[k]>> \in R

\* A finite set that is ordered has a last element.
LEMMA LastExists ==
  ASSUME NEW S, IsFiniteSet(S), S # {}, NEW R, Orders(R, S)
  PROVE  \E m \in S : \A x \in S \ {m} : <<x, m>> \in R
<1> DEFINE IsLast(m, s) == m \in s /\ \A x \in s \ {m} : <<x, m>> \in R
           Bad == {s \in SUBSET S : s # {} /\ ~ \E m : IsLast(m, s)}
<1>1. Bad = {}
  <2> SUFFICES ASSUME Bad # {} PROVE FALSE
    OBVIOUS
  <2>1. PICK s \in Bad : \A x \in s : s \ {x} \notin Bad
    <3> HIDE DEF IsLast
    <3>1. QED BY SmallestSet
  <2>2. s \in SUBSET S /\ s # {} /\ ~ \E m : IsLast(m, s)
    BY <2>1
  <2>3. PICK x \in s : TRUE
    BY <2>2
  <2>4. CASE s \ {x} = {}
    <3>1. IsLast(x, s)
      BY <2>3, <2>4
    <3>2. QED BY <2>2, <3>1
  <2>5. CASE s \ {x} # {}
    <3>1. PICK m : IsLast(m, s \ {x})
      <4> HIDE DEF IsLast
      <4>1. QED BY <2>1, <2>2, <2>3, <2>5
    <3>2. m \in s /\ m # x /\ m \in S /\ x \in S /\ \A y \in s \ {x, m} : y \in S /\ <<y, m>> \in R
      BY <2>2, <2>3, <3>1
    <3>3. CASE <<x, m>> \in R
      <4>1. IsLast(m, s)
        BY <3>2, <3>3
      <4>2. QED BY <2>2, <4>1
    <3>4. CASE <<m, x>> \in R
      <4>1. \A y \in s \ {x, m} : <<y, x>> \in R
        BY <3>2, <3>4 DEF Orders
      <4>2. IsLast(x, s)
        BY <2>3, <3>2, <3>4, <4>1
      <4>3. QED BY <2>2, <4>2
    <3>5. <<x, m>> \in R \/ <<m, x>> \in R
      BY <3>2 DEF Orders
    <3>6. QED BY <3>3, <3>4, <3>5
  <2>6. QED BY <2>4, <2>5
<1>2. S \in SUBSET S
  OBVIOUS
<1>3. PICK m : IsLast(m, S)
  <2> HIDE DEF IsLast
  <2>1. QED BY <1>1, <1>2
<1>4. QED BY <1>3

\* There is a list of it in its order.
LEMMA OrderExists ==
  ASSUME NEW S, IsFiniteSet(S), NEW R, Orders(R, S)
  PROVE  \E s : IsOrdered(s, R, S)
<1> DEFINE Bad == {x \in SUBSET S : ~ \E s : IsOrdered(s, R, x)}
<1>1. Bad = {}
  <2> SUFFICES ASSUME Bad # {} PROVE FALSE
    OBVIOUS
  <2>1. PICK x \in Bad : \A y \in x : x \ {y} \notin Bad
    BY SmallestSet
  <2>2. x \in SUBSET S /\ IsFiniteSet(x) /\ ~ \E s : IsOrdered(s, R, x)
    BY <2>1, FS_Subset
  <2>3. CASE x = {}
    <3>1. Cardinality(x) = 0
      BY <2>3, FS_EmptySet
    <3>2. IsOrdered([i \in 1..0 |-> i], R, x)
      BY <3>1 DEF IsOrdered
    <3>3. QED BY <2>2, <3>2
  <2>4. CASE x # {}
    <3>1. PICK m \in x : \A y \in x \ {m} : <<y, m>> \in R
      <4>1. Orders(R, x)
        BY <2>2 DEF Orders
      <4>2. QED BY <2>2, <2>4, <4>1, LastExists
    <3> DEFINE r == x \ {m}
               n == Cardinality(x)
    <3>2. n \in Nat /\ Cardinality(r) = n - 1 /\ n # 0
      <4>1. n \in Nat /\ IsFiniteSet(r) /\ Cardinality(r) = n - 1 /\ Cardinality(r) \in Nat
        BY <2>2, <3>1, FS_CardinalityType, FS_RemoveElement
      <4>2. QED BY <4>1
    <3>3. PICK s : IsOrdered(s, R, r)
      <4>1. r \in SUBSET S /\ r \notin Bad
        BY <2>1, <2>2, <3>1
      <4>2. QED BY <4>1
    <3>4. /\ \A i \in 1..n - 1 : s[i] \in x /\ s[i] # m /\ <<s[i], m>> \in R
          /\ \A i, k \in 1..n - 1 : i < k => s[i] # s[k] /\ <<s[i], s[k]>> \in R
      <4>1. s \in [1..n - 1 -> r]
        BY <3>2, <3>3 DEF IsOrdered
      <4>2. \A i, k \in 1..n - 1 : i < k => s[i] # s[k] /\ <<s[i], s[k]>> \in R
        BY <3>2, <3>3 DEF IsOrdered
      <4>3. \A i \in 1..n - 1 : s[i] \in r
        BY <4>1
      <4>4. QED BY <3>1, <4>2, <4>3
    <3> DEFINE longer == [i \in 1..n |-> IF i = n THEN m ELSE s[i]]
    <3> HIDE DEF n
    <3>5. longer \in [1..n -> x]
      <4>1. \A i \in 1..n : i = n \/ i \in 1..n - 1
        BY <3>2
      <4>2. \A i \in 1..n : longer[i] \in x
        BY <3>1, <3>4, <4>1
      <4>3. QED BY <4>2
    <3>6. ASSUME NEW i \in 1..n, NEW k \in 1..n, i < k
          PROVE  longer[i] # longer[k] /\ <<longer[i], longer[k]>> \in R
      <4>1. i \in 1..n - 1 /\ i # n /\ longer[i] = s[i]
        BY <3>2, <3>6
      <4>2. CASE k = n
        <5>1. longer[k] = m
          BY <4>2
        <5>2. QED BY <3>4, <4>1, <5>1
      <4>3. CASE k # n
        <5>1. k \in 1..n - 1 /\ longer[k] = s[k]
          BY <3>2, <4>3
        <5>2. QED BY <3>4, <3>6, <4>1, <5>1
      <4>4. QED BY <4>2, <4>3
    <3>7. IsOrdered(longer, R, x)
      <4> HIDE DEF longer
      <4>1. QED BY <3>5, <3>6 DEF IsOrdered, n
    <3>8. QED BY <2>2, <3>7
  <2>5. QED BY <2>3, <2>4
<1>2. S \in SUBSET S
  OBVIOUS
<1>3. QED BY <1>1, <1>2

\* Numbers taken in order.
LEMMA NumbersInOrder ==
  ASSUME NEW S \in SUBSET Nat, IsFiniteSet(S)
  PROVE  /\ InOrder(S, LAMBDA v, w : v < w) \in [1..Cardinality(S) -> S]
         /\ \A i, k \in 1..Cardinality(S) :
              i < k => InOrder(S, LAMBDA v, w : v < w)[i] # InOrder(S, LAMBDA v, w : v < w)[k]
<1> DEFINE R == {p \in S \X S : p[1] < p[2]}
<1>1. Orders(R, S)
  BY DEF Orders
<1>2. PICK s : IsOrdered(s, R, S)
  <2> HIDE DEF R
  <2>1. QED BY <1>1, OrderExists
<1>3. /\ s \in [1..Cardinality(S) -> S] /\ DOMAIN s = 1..Cardinality(S)
      /\ \A i, k \in 1..Cardinality(S) : i < k => s[i] # s[k] /\ s[i] < s[k]
  BY <1>2 DEF IsOrdered
<1>4. QED BY <1>3 DEF InOrder

\* Pairs of numbers taken in order.
LEMMA PairsInOrder ==
  ASSUME NEW S \in SUBSET (Nat \X Nat), IsFiniteSet(S)
  PROVE  /\ InOrder(S, Before) \in [1..Cardinality(S) -> S]
         /\ \A i, k \in 1..Cardinality(S) : i < k => InOrder(S, Before)[i] # InOrder(S, Before)[k]
<1> DEFINE R == {p \in S \X S : Before(p[1], p[2])}
<1>1. Orders(R, S)
  <2>1. \A x, y \in S : x # y => Before(x, y) \/ Before(y, x)
    BY DEF Before
  <2>2. \A x, y, z \in S : Before(x, y) /\ Before(y, z) => Before(x, z)
    BY DEF Before
  <2>3. QED BY <2>1, <2>2 DEF Orders
<1>2. PICK s : IsOrdered(s, R, S)
  <2> HIDE DEF R
  <2>1. QED BY <1>1, OrderExists
<1>3. /\ s \in [1..Cardinality(S) -> S] /\ DOMAIN s = 1..Cardinality(S)
      /\ \A i, k \in 1..Cardinality(S) : i < k => s[i] # s[k] /\ Before(s[i], s[k])
  BY <1>2 DEF IsOrdered
<1>4. QED BY <1>3 DEF InOrder

-----------------------------------------------------------------------------
(* Solutions *)

Cost(routes) == Solution(routes).cost
Lengths(routes) == [i \in DOMAIN routes |-> Length(routes[i].stops)]

LEMMA CostIs ==
  ASSUME NEW routes
  PROVE  Cost(routes) = SumOver(Lengths(routes), DOMAIN routes) /\ Solution(routes).routes = routes
<1>1. /\ Solution(routes).cost = MapThenSumSet(LAMBDA i : Length(routes[i].stops), DOMAIN routes)
      /\ Solution(routes).routes = routes
  BY DEF Solution
<1>2. MapThenSumSet(LAMBDA i : Length(routes[i].stops), DOMAIN routes) = SumOver(Lengths(routes), DOMAIN routes)
  BY DEF MapThenSumSet, MapThenFoldSet, SumOver, IsSum, Picked, Lengths
<1>3. QED BY <1>1, <1>2 DEF Cost

\* Routes that can be driven.
RoutesOK(routes) == routes \in Seq(Route) /\ Drivable(routes)

LEMMA RouteFields ==
  ASSUME NEW routes \in Seq(Route)
  PROVE  /\ Len(routes) \in Nat /\ DOMAIN routes = 1..Len(routes) /\ IsFiniteSet(DOMAIN routes)
         /\ \A i \in DOMAIN routes : /\ routes[i] \in Route
                                     /\ routes[i].vehicle \in Vehicles /\ routes[i].stops \in Seq(Stops)
                                     /\ routes[i].room \in Nat
<1>1. Len(routes) \in Nat /\ DOMAIN routes = 1..Len(routes) /\ \A i \in 1..Len(routes) : routes[i] \in Route
  BY LenProperties, ElementOfSeq
<1>2. IsFiniteSet(DOMAIN routes)
  BY <1>1, FS_Interval
<1>3. QED BY <1>1, <1>2 DEF Route

LEMMA CostIsNat ==
  ASSUME InputOK, NEW routes \in Seq(Route)
  PROVE  /\ IsFiniteSet(DOMAIN routes) /\ \A i \in DOMAIN routes : Lengths(routes)[i] \in Nat
         /\ Cost(routes) \in Nat
<1>1. /\ IsFiniteSet(DOMAIN routes)
      /\ \A i \in DOMAIN routes : routes[i].stops \in Seq(Stops)
  BY RouteFields
<1>2. ASSUME NEW i \in DOMAIN routes PROVE Lengths(routes)[i] \in Nat
  <2>1. Lengths(routes)[i] = Length(routes[i].stops)
    BY DEF Lengths
  <2>2. QED BY <1>1, <2>1, LengthIsNat
<1>3. SumOver(Lengths(routes), DOMAIN routes) \in Nat
  BY <1>1, <1>2, SumIsNat
<1>4. QED BY <1>1, <1>2, <1>3, CostIs

\* What no route serves is on none of them.
LEMMA ServedIs ==
  ASSUME NEW routes, NEW s
  PROVE  s \in Served(routes) <=> \E i \in DOMAIN routes : s \in ToSet(routes[i].stops)
BY DEF Served

\* The room that is left is the capacity less the load.
LEMMA RoomIs ==
  ASSUME InputOK, NEW routes, RoutesOK(routes), NEW i \in DOMAIN routes
  PROVE  /\ routes[i].vehicle \in Vehicles /\ routes[i].stops \in Seq(Stops) /\ routes[i].room \in Nat
         /\ IsInjective(routes[i].stops)
         /\ capacity[routes[i].vehicle] \in Nat /\ Load(routes[i].stops) \in Nat
         /\ routes[i].room = capacity[routes[i].vehicle] - Load(routes[i].stops)
<1>1. routes[i].vehicle \in Vehicles /\ routes[i].stops \in Seq(Stops) /\ routes[i].room \in Nat
  BY RouteFields DEF RoutesOK
<1>2. IsInjective(routes[i].stops) /\ routes[i].room = capacity[routes[i].vehicle] - Load(routes[i].stops)
  BY DEF RoutesOK, Drivable
<1>3. Load(routes[i].stops) \in Nat
  BY <1>1, LengthIsNat
<1>4. QED BY <1>1, <1>2, <1>3 DEF InputOK

\* A route with the stop added, and one with this stop only.
Lengthened(route, stops, s) ==
  [vehicle |-> route.vehicle, stops |-> stops, room |-> route.room - demand[s]]
Begun(v, s) == [vehicle |-> v, stops |-> <<s>>, room |-> capacity[v] - demand[s]]

\* One route is lengthened by a stop that no route has and that it has room for.
LEMMA RouteLengthened ==
  ASSUME InputOK, NEW routes, RoutesOK(routes), NEW i \in DOMAIN routes,
         NEW s \in Stops, s \notin Served(routes), demand[s] <= routes[i].room,
         NEW pos \in 0..Len(routes[i].stops), NEW longer \in Seq(Stops), Longer(longer, routes[i].stops, pos, s),
         NEW more, more = [routes EXCEPT ![i] = Lengthened(routes[i], longer, s)]
  PROVE  /\ RoutesOK(more) /\ Served(more) = Served(routes) \cup {s}
         /\ Cost(more) = Cost(routes) + Delta(routes[i].stops, pos, s)
<1>1. /\ Len(routes) \in Nat /\ DOMAIN routes = 1..Len(routes) /\ IsFiniteSet(DOMAIN routes)
      /\ \A k \in DOMAIN routes : routes[k] \in Route
  BY RouteFields DEF RoutesOK
<1>2. /\ routes[i].vehicle \in Vehicles /\ routes[i].stops \in Seq(Stops) /\ routes[i].room \in Nat
      /\ IsInjective(routes[i].stops)
      /\ capacity[routes[i].vehicle] \in Nat /\ Load(routes[i].stops) \in Nat
      /\ routes[i].room = capacity[routes[i].vehicle] - Load(routes[i].stops)
  BY RoomIs
<1>3. /\ Delta(routes[i].stops, pos, s) \in Int
      /\ Length(longer) = Length(routes[i].stops) + Delta(routes[i].stops, pos, s)
      /\ Load(longer) = Load(routes[i].stops) + demand[s]
  BY <1>2, LongerRoute
<1>4. ToSet(longer) = ToSet(routes[i].stops) \cup {s} /\ IsInjective(longer)
  <2>1. s \notin ToSet(routes[i].stops)
    BY ServedIs
  <2>2. Len(routes[i].stops) \in Nat /\ DOMAIN routes[i].stops = 1..Len(routes[i].stops)
    BY <1>2, RouteParts
  <2>3. QED BY <1>2, <2>1, <2>2, LongerStops
<1>5. /\ DOMAIN more = DOMAIN routes /\ more = [k \in DOMAIN routes |-> more[k]]
      /\ more[i] = [vehicle |-> routes[i].vehicle, stops |-> longer, room |-> routes[i].room - demand[s]]
      /\ more[i].vehicle = routes[i].vehicle /\ more[i].stops = longer
      /\ more[i].room = routes[i].room - demand[s]
  BY DEF Lengthened
<1>6. demand[s] \in Nat /\ routes[i].room - demand[s] \in Nat
      /\ routes[i].room - demand[s] = capacity[routes[i].vehicle] - Load(longer)
  <2>1. PICK d \in Nat, left \in Nat, total \in Nat, load \in Nat :
          d = demand[s] /\ left = routes[i].room /\ total = capacity[routes[i].vehicle] /\ load = Load(routes[i].stops)
    BY <1>2 DEF InputOK
  <2>2. d <= left /\ left = total - load
    BY <1>2, <2>1
  <2>3. left - d \in Nat /\ left - d = total - (load + d)
    BY <2>1, <2>2
  <2>4. QED BY <1>3, <2>1, <2>3
<1>7. more \in Seq(Route)
  <2>1. more[i] \in Route
    BY <1>2, <1>5, <1>6 DEF Route
  <2>2. routes \in Seq(Route)
    BY DEF RoutesOK
  <2> HIDE DEF Route
  <2>3. QED BY <1>1, <2>1, <2>2, ExceptSeq
<1>8. \A k \in DOMAIN more : k # i => more[k] = routes[k]
  OBVIOUS
<1>9. \A k \in DOMAIN routes : k # i => s \notin ToSet(routes[k].stops)
  BY ServedIs
<1>10. Drivable(more)
  <2>1. ASSUME NEW k \in DOMAIN routes, NEW m \in DOMAIN routes, k # m
        PROVE  routes[k].vehicle # routes[m].vehicle /\ ToSet(routes[k].stops) \cap ToSet(routes[m].stops) = {}
    BY <2>1 DEF RoutesOK, Drivable
  <2>2. ASSUME NEW k \in DOMAIN more, NEW m \in DOMAIN more, k # m
        PROVE  more[k].vehicle # more[m].vehicle /\ ToSet(more[k].stops) \cap ToSet(more[m].stops) = {}
    <3>1. CASE k # i /\ m # i
      BY <1>8, <2>1, <2>2, <3>1
    <3>2. CASE k = i /\ m # i
      <4>1. more[m] = routes[m] /\ s \notin ToSet(routes[m].stops)
        BY <1>8, <1>9, <3>2
      <4>2. routes[i].vehicle # routes[m].vehicle /\ ToSet(routes[i].stops) \cap ToSet(routes[m].stops) = {}
        BY <2>1, <3>2
      <4>3. QED BY <1>4, <1>5, <3>2, <4>1, <4>2
    <3>3. CASE k # i /\ m = i
      <4>1. more[k] = routes[k] /\ s \notin ToSet(routes[k].stops)
        BY <1>8, <1>9, <3>3
      <4>2. routes[k].vehicle # routes[i].vehicle /\ ToSet(routes[k].stops) \cap ToSet(routes[i].stops) = {}
        BY <2>1, <3>3
      <4>3. QED BY <1>4, <1>5, <3>3, <4>1, <4>2
    <3>4. QED BY <2>2, <3>1, <3>2, <3>3
  <2>3. ASSUME NEW k \in DOMAIN more
        PROVE  IsInjective(more[k].stops) /\ more[k].room = capacity[more[k].vehicle] - Load(more[k].stops)
    <3>1. CASE k # i
      <4>1. more[k] = routes[k]
        BY <1>8, <3>1
      <4>2. QED BY <4>1 DEF RoutesOK, Drivable
    <3>2. CASE k = i
      BY <1>4, <1>5, <1>6, <3>2
    <3>3. QED BY <3>1, <3>2
  <2>4. QED BY <2>2, <2>3 DEF Drivable
<1>11. Served(more) = Served(routes) \cup {s}
  <2>1. ASSUME NEW x PROVE x \in Served(more) <=> x \in Served(routes) \cup {s}
    <3>1. x \in Served(more) <=> \E k \in DOMAIN routes : x \in ToSet(more[k].stops)
      BY ServedIs
    <3>2. x \in ToSet(more[i].stops) <=> x \in ToSet(routes[i].stops) \cup {s}
      BY <1>4, <1>5
    <3>3. \A k \in DOMAIN routes : k # i => (x \in ToSet(more[k].stops) <=> x \in ToSet(routes[k].stops))
      BY <1>8
    <3>4. x \in Served(routes) <=> \E k \in DOMAIN routes : x \in ToSet(routes[k].stops)
      BY ServedIs
    <3>5. QED BY <3>1, <3>2, <3>3, <3>4
  <2>2. QED BY <2>1
<1>12. Cost(more) = Cost(routes) + Delta(routes[i].stops, pos, s)
  <2> DEFINE D == DOMAIN routes
             w == Lengths(routes)
             c == Lengths(more)
  <2>1. IsFiniteSet(D) /\ (\A k \in D : w[k] \in Int) /\ (\A k \in D : c[k] \in Int)
    <3>1. \A k \in DOMAIN routes : w[k] \in Nat
      BY CostIsNat DEF RoutesOK
    <3>2. \A k \in DOMAIN more : c[k] \in Nat
      BY <1>7, CostIsNat
    <3>3. \A x \in Nat : x \in Int
      OBVIOUS
    <3>4. QED BY <1>1, <1>5, <3>1, <3>2, <3>3
  <2>2. \A k \in D \ {i} : c[k] \in Int /\ c[k] = w[k]
    <3>1. \A k \in D \ {i} : c[k] = w[k]
      BY <1>8 DEF Lengths
    <3>2. QED BY <2>1, <3>1
  <2>3. c[i] = w[i] + Delta(routes[i].stops, pos, s)
    BY <1>3, <1>5 DEF Lengths
  <2>4. Cost(more) = SumOver(c, D) /\ Cost(routes) = SumOver(w, D)
    BY CostIs
  <2>5. IsFiniteSet(D \ {i})
    BY <2>1, FS_Subset
  <2> HIDE DEF D, w, c
  <2>6. SumOver(c, D) = c[i] + SumOver(c, D \ {i})
    BY <2>1, SumWithout DEF D
  <2>7. SumOver(w, D) = w[i] + SumOver(w, D \ {i})
    BY <2>1, SumWithout DEF D
  <2>8. SumOver(c, D \ {i}) = SumOver(w, D \ {i})
    BY <2>2, <2>5, SumsAgree
  <2>9. PICK rest \in Int, old \in Int, delta \in Int :
          rest = SumOver(c, D \ {i}) /\ old = w[i] /\ delta = Delta(routes[i].stops, pos, s)
    <3>1. SumOver(c, D \ {i}) \in Int
      BY <2>2, <2>5, SumIsInt
    <3>2. w[i] \in Int
      BY <2>1 DEF D
    <3>3. QED BY <1>3, <3>1, <3>2
  <2>10. (old + delta) + rest = (old + rest) + delta
    BY <2>9
  <2>11. QED BY <2>3, <2>4, <2>6, <2>7, <2>8, <2>9, <2>10
<1>13. QED BY <1>7, <1>10, <1>11, <1>12 DEF RoutesOK

FirstLeg(s) == Distance[Warehouse, place[s]]

\* The first stop of a route.
LEMMA RouteBegun ==
  ASSUME InputOK, NEW s \in Stops
  PROVE  /\ <<s>> \in Seq(Stops) /\ ToSet(<<s>>) = {s} /\ IsInjective(<<s>>)
         /\ Length(<<s>>) = FirstLeg(s) /\ Load(<<s>>) = demand[s]
         /\ FirstLeg(s) \in Nat
<1>1. <<s>> \in Seq(Stops) /\ <<>> \in Seq(Stops) /\ Len(<<>>) = 0 /\ DOMAIN <<>> = 1..0
  OBVIOUS
<1>2. DOMAIN <<s>> = 1..1 /\ <<s>>[1] = s
  OBVIOUS
<1>3. Longer(<<s>>, <<>>, 0, s)
  BY <1>1, <1>2 DEF Longer
<1>4. ToSet(<<>>) = {} /\ IsInjective(<<>>)
  BY DEF ToSet, IsInjective
<1>5. ToSet(<<s>>) = {s} /\ IsInjective(<<s>>)
  <2>1. 0 \in 0..Len(<<>>) /\ Len(<<>>) \in Nat /\ DOMAIN <<>> = 1..Len(<<>>)
    BY <1>1
  <2>2. /\ ToSet(<<s>>) = ToSet(<<>>) \cup {s}
        /\ IsInjective(<<>>) /\ s \notin ToSet(<<>>) => IsInjective(<<s>>)
    BY <1>3, <2>1, LongerStops
  <2>3. QED BY <1>4, <2>2
<1>6. Delta(<<>>, 0, s) = FirstLeg(s)
  BY <1>1 DEF Delta, At, FirstLeg
<1>7. Length(<<s>>) = Length(<<>>) + Delta(<<>>, 0, s) /\ Load(<<s>>) = Load(<<>>) + demand[s]
  <2>1. 0 \in 0..Len(<<>>)
    BY <1>1
  <2>2. QED BY <1>1, <1>3, <2>1, LongerRoute
<1>8. FirstLeg(s) \in Nat
  <2>1. Warehouse \in Places /\ place[s] \in Places
    BY SolverConstants DEF InputOK
  <2>2. QED BY <2>1, DistanceIsNat DEF FirstLeg
<1>9. demand[s] \in Nat
  BY DEF InputOK
<1>10. \A k \in Nat : 0 + k = k
  OBVIOUS
<1>11. QED BY <1>1, <1>5, <1>6, <1>7, <1>8, <1>9, <1>10, EmptyRoute

\* A vehicle that has no route gets one, with one stop that fits.
LEMMA RouteOpened ==
  ASSUME InputOK, NEW routes, RoutesOK(routes), NEW v \in Vehicles,
         \A i \in DOMAIN routes : routes[i].vehicle # v,
         NEW s \in Stops, s \notin Served(routes), demand[s] <= capacity[v],
         NEW more, more = Append(routes, Begun(v, s))
  PROVE  /\ RoutesOK(more) /\ Served(more) = Served(routes) \cup {s}
         /\ Cost(more) = Cost(routes) + FirstLeg(s)
<1> DEFINE n == Len(routes)
           route == [vehicle |-> v, stops |-> <<s>>, room |-> capacity[v] - demand[s]]
<1>1. /\ n \in Nat /\ DOMAIN routes = 1..n
      /\ routes \in Seq(Route)
  BY RouteFields DEF RoutesOK
<1>2. /\ <<s>> \in Seq(Stops) /\ ToSet(<<s>>) = {s} /\ IsInjective(<<s>>)
      /\ Length(<<s>>) = FirstLeg(s) /\ Load(<<s>>) = demand[s]
  BY RouteBegun
<1>3. route \in Route
  <2>1. capacity[v] - demand[s] \in Nat
    BY DEF InputOK
  <2>2. QED BY <1>2, <2>1 DEF Route
<1>4. /\ route.vehicle = v /\ route.stops = <<s>> /\ route.room = capacity[v] - Load(<<s>>)
  BY <1>2
<1> HIDE DEF route
<1>5. /\ more \in Seq(Route) /\ Len(more) = n + 1
      /\ \A i \in 1..n : more[i] = routes[i]
      /\ more[n + 1] = route
  BY <1>1, <1>3, AppendProperties DEF route, Begun
<1>6. DOMAIN more = 1..n + 1 /\ \A i \in 1..n + 1 : i \in 1..n \/ i = n + 1
  BY <1>1, <1>5, LenProperties
<1>7. \A i \in 1..n : s \notin ToSet(routes[i].stops) /\ routes[i].vehicle # v
  BY <1>1, ServedIs
<1>8. Drivable(more)
  <2>1. ASSUME NEW i \in 1..n, NEW k \in 1..n, i # k
        PROVE  routes[i].vehicle # routes[k].vehicle /\ ToSet(routes[i].stops) \cap ToSet(routes[k].stops) = {}
    BY <1>1, <2>1 DEF RoutesOK, Drivable
  <2>2. ASSUME NEW i \in 1..n + 1, NEW k \in 1..n + 1, i # k
        PROVE  more[i].vehicle # more[k].vehicle /\ ToSet(more[i].stops) \cap ToSet(more[k].stops) = {}
    <3>1. CASE i \in 1..n /\ k \in 1..n
      BY <1>5, <2>1, <2>2, <3>1
    <3>2. CASE i \in 1..n /\ k = n + 1
      <4>1. more[i] = routes[i] /\ more[k].vehicle = v /\ ToSet(more[k].stops) = {s}
        BY <1>2, <1>4, <1>5, <3>2
      <4>2. QED BY <1>7, <3>2, <4>1
    <3>3. CASE i = n + 1 /\ k \in 1..n
      <4>1. more[k] = routes[k] /\ more[i].vehicle = v /\ ToSet(more[i].stops) = {s}
        BY <1>2, <1>4, <1>5, <3>3
      <4>2. QED BY <1>7, <3>3, <4>1
    <3>4. QED BY <1>6, <2>2, <3>1, <3>2, <3>3
  <2>3. ASSUME NEW i \in 1..n + 1
        PROVE  IsInjective(more[i].stops) /\ more[i].room = capacity[more[i].vehicle] - Load(more[i].stops)
    <3>1. CASE i \in 1..n
      <4>1. more[i] = routes[i] /\ i \in DOMAIN routes
        BY <1>1, <1>5, <3>1
      <4>2. QED BY <4>1 DEF RoutesOK, Drivable
    <3>2. CASE i = n + 1
      BY <1>2, <1>4, <1>5, <3>2
    <3>3. QED BY <1>6, <3>1, <3>2
  <2>4. QED BY <1>6, <2>2, <2>3 DEF Drivable
<1>9. Served(more) = Served(routes) \cup {s}
  <2>1. ASSUME NEW x PROVE x \in Served(more) <=> x \in Served(routes) \cup {s}
    <3>1. x \in Served(more) <=> \E i \in 1..n + 1 : x \in ToSet(more[i].stops)
      BY <1>6, ServedIs
    <3>2. x \in ToSet(more[n + 1].stops) <=> x = s
      BY <1>2, <1>4, <1>5
    <3>3. x \in Served(routes) <=> \E i \in 1..n : x \in ToSet(routes[i].stops)
      BY <1>1, ServedIs
    <3>4. \A i \in 1..n : i \in 1..n + 1 /\ more[i] = routes[i]
      BY <1>1, <1>5
    <3>5. n + 1 \in 1..n + 1
      BY <1>1
    <3> HIDE DEF n
    <3>6. QED BY <1>6, <3>1, <3>2, <3>3, <3>4, <3>5
  <2>2. QED BY <2>1
<1>10. Cost(more) = Cost(routes) + FirstLeg(s)
  <2> DEFINE w == Lengths(routes)
             c == Lengths(more)
  <2>1. IsFiniteSet(1..n) /\ IsFiniteSet(1..n + 1)
    BY <1>1, FS_Interval
  <2>2. (\A i \in 1..n : w[i] \in Int) /\ (\A i \in 1..n + 1 : c[i] \in Int)
    <3>1. \A i \in DOMAIN routes : w[i] \in Nat
      BY <1>1, CostIsNat
    <3>2. \A i \in DOMAIN more : c[i] \in Nat
      BY <1>5, CostIsNat
    <3> HIDE DEF w, c, n
    <3>3. \A i \in 1..n : w[i] \in Int
      BY <1>1, <3>1
    <3>4. DOMAIN more = 1..n + 1
      BY <1>6
    <3>5. \A i \in 1..n + 1 : c[i] \in Nat
      BY <3>2, <3>4, Zenon
    <3>6. QED BY <3>3, <3>5
  <2>3. \A i \in 1..n : c[i] = w[i]
    <3>1. ASSUME NEW i \in 1..n PROVE c[i] = w[i]
      <4>1. i \in DOMAIN more /\ i \in DOMAIN routes /\ more[i] = routes[i]
        BY <1>1, <1>5, <1>6
      <4>2. QED BY <4>1 DEF Lengths
    <3>2. QED BY <3>1
  <2>4. c[n + 1] = FirstLeg(s)
    <3>1. n + 1 \in DOMAIN more
      BY <1>1, <1>6
    <3>2. QED BY <1>2, <1>4, <1>5, <3>1 DEF Lengths
  <2>5. Cost(more) = SumOver(c, 1..n + 1) /\ Cost(routes) = SumOver(w, 1..n)
    BY <1>1, <1>6, CostIs
  <2> HIDE DEF w, c
  <2>6. OneMore(c, w, n, n)
    BY <1>1, <2>2, <2>3 DEF OneMore
  <2>7. SumOver(c, 1..n + 1) = SumOver(w, 1..n) + Added(c, w, n, n)
    BY <2>6, SumInserted
  <2>8. Added(c, w, n, n) = c[n + 1]
    <3>1. c[n + 1] \in Int
      BY <1>1, <2>2
    <3>2. QED BY <3>1 DEF Added
  <2>9. QED BY <2>4, <2>5, <2>7, <2>8
<1>11. QED BY <1>5, <1>8, <1>9, <1>10 DEF RoutesOK

-----------------------------------------------------------------------------
(* The heuristic *)

\* The tours of the heuristic.
ToursOK ==
  /\ DOMAIN tour = Vehicles
  /\ \A v \in Vehicles : tour[v] \in Seq(Stops) /\ IsInjective(tour[v]) /\ Load(tour[v]) <= capacity[v]
  /\ \A v, w \in Vehicles : v # w => ToSet(tour[v]) \cap ToSet(tour[w]) = {}

\* They make up a solution.
LEMMA GreedyIsSolution ==
  ASSUME InputOK, ToursOK
  PROVE  /\ RoutesOK(GreedySolution.routes)
         /\ GreedySolution.cost = Cost(GreedySolution.routes)
         /\ GreedySolution \in [routes : Seq(Route), cost : Nat]
<1> DEFINE S == {v \in Vehicles : tour[v] # <<>>}
           list == InOrder(S, LAMBDA v, w : v < w)
           n == Cardinality(S)
           routes == [i \in DOMAIN list |->
                        [vehicle |-> list[i], stops |-> tour[list[i]],
                         room |-> capacity[list[i]] - Load(tour[list[i]])]]
<1>1. GreedySolution = Solution(routes)
  BY DEF GreedySolution
<1>2. S \in SUBSET Nat /\ IsFiniteSet(S) /\ n \in Nat
  <2>1. IsFiniteSet(1..Len(capacity)) /\ S \in SUBSET (1..Len(capacity)) /\ 1..Len(capacity) \in SUBSET Nat
    <3>1. Len(capacity) \in Nat /\ Vehicles = 1..Len(capacity)
      BY DEF InputOK
    <3>2. IsFiniteSet(1..Len(capacity)) /\ 1..Len(capacity) \in SUBSET Nat
      BY <3>1, FS_Interval
    <3>3. QED BY <3>1, <3>2
  <2>2. IsFiniteSet(S)
    BY <2>1, FS_Subset
  <2> HIDE DEF S
  <2>3. QED BY <2>1, <2>2, FS_CardinalityType
<1>3. /\ list \in [1..n -> S]
      /\ \A i, k \in 1..n : i < k => list[i] # list[k]
  <2> HIDE DEF S
  <2>1. QED BY <1>2, NumbersInOrder
<1> HIDE DEF list, n
<1>4. DOMAIN list = 1..n /\ DOMAIN routes = 1..n /\ \A i \in 1..n : list[i] \in Vehicles
  BY <1>3
<1>5. \A i, k \in 1..n : i # k => list[i] # list[k]
  <2>1. ASSUME NEW i \in 1..n, NEW k \in 1..n, i # k PROVE list[i] # list[k]
    <3>1. i < k \/ k < i
      BY <1>2, <2>1
    <3>2. QED BY <1>3, <3>1
  <2>2. QED BY <2>1
<1> DEFINE load(v) == Load(tour[v])
<1>6. ASSUME NEW v \in Vehicles PROVE capacity[v] - load(v) \in Nat
  <2>1. tour[v] \in Seq(Stops) /\ load(v) <= capacity[v]
    BY DEF ToursOK
  <2>2. load(v) \in Nat
    BY <2>1, LengthIsNat
  <2>3. capacity[v] \in Nat
    BY DEF InputOK
  <2> HIDE DEF load
  <2>4. QED BY <2>1, <2>2, <2>3
<1>7. ASSUME NEW i \in 1..n
      PROVE  /\ routes[i].vehicle = list[i] /\ routes[i].stops = tour[list[i]]
             /\ routes[i].room = capacity[list[i]] - Load(tour[list[i]])
             /\ routes[i] \in Route
  <2>1. routes[i] = [vehicle |-> list[i], stops |-> tour[list[i]], room |-> capacity[list[i]] - Load(tour[list[i]])]
    BY <1>4
  <2>2. list[i] \in Vehicles /\ tour[list[i]] \in Seq(Stops) /\ capacity[list[i]] - Load(tour[list[i]]) \in Nat
    BY <1>4, <1>6 DEF ToursOK
  <2> HIDE DEF routes
  <2>3. QED BY <2>1, <2>2 DEF Route
<1>8. routes \in Seq(Route)
  <2>1. routes = [i \in 1..n |-> routes[i]]
    BY <1>4
  <2> HIDE DEF routes
  <2>2. routes \in [1..n -> Route]
    BY <1>7, <2>1
  <2>3. QED BY <1>2, <2>2
<1> HIDE DEF routes
<1>9. Drivable(routes)
  <2>1. ASSUME NEW i \in 1..n, NEW k \in 1..n, i # k
        PROVE  routes[i].vehicle # routes[k].vehicle /\ ToSet(routes[i].stops) \cap ToSet(routes[k].stops) = {}
    BY <1>4, <1>5, <1>7, <2>1 DEF ToursOK
  <2>2. ASSUME NEW i \in 1..n
        PROVE  IsInjective(routes[i].stops) /\ routes[i].room = capacity[routes[i].vehicle] - Load(routes[i].stops)
    BY <1>4, <1>7 DEF ToursOK
  <2>3. QED BY <1>4, <2>1, <2>2 DEF Drivable
<1>10. Solution(routes).routes = routes /\ Solution(routes).cost = Cost(routes) /\ Cost(routes) \in Nat
  BY <1>8, CostIs, CostIsNat DEF Cost
<1>11. Solution(routes) \in [routes : Seq(Route), cost : Nat]
  BY <1>8, <1>10 DEF Solution
<1>12. QED BY <1>1, <1>8, <1>9, <1>10, <1>11 DEF RoutesOK

-----------------------------------------------------------------------------
(* Nothing of this depends on more than the input *)

LEMMA LoadKept ==
  ASSUME UNCHANGED input, NEW stops
  PROVE  Load(stops)' = Load(stops)
BY DEF input, Load, MapThenSumSet, MapThenFoldSet

LEMMA LengthKept ==
  ASSUME UNCHANGED input, NEW stops
  PROVE  Length(stops)' = Length(stops)
BY DEF input, Length, At, MapThenSumSet, MapThenFoldSet

LEMMA CostKept ==
  ASSUME UNCHANGED input, NEW routes
  PROVE  Cost(routes)' = Cost(routes)
BY DEF input, Cost, Solution, Length, At, MapThenSumSet, MapThenFoldSet

LEMMA RoutesKept ==
  ASSUME UNCHANGED input, NEW routes
  PROVE  /\ RoutesOK(routes)' = RoutesOK(routes)
         /\ Route' = Route /\ Stops' = Stops /\ Vehicles' = Vehicles
         /\ (Drivable(routes))' = Drivable(routes)
<1>1. Stops' = Stops /\ Vehicles' = Vehicles /\ capacity' = capacity
  BY DEF input, Stops, Vehicles
<1>2. Route' = Route
  BY <1>1 DEF Route
<1>3. (Drivable(routes))' = Drivable(routes)
  BY <1>1, LoadKept DEF Drivable
<1>4. QED BY <1>1, <1>2, <1>3 DEF RoutesOK

\* The nodes of the search: partial solutions that can be driven, have exactly the stops before the
\* next one, and cost what they say.
Nodes ==
  {node \in [routes : Seq(Route), cost : Nat, next : 1..Len(place) + 1] :
     /\ Drivable(node.routes)
     /\ Served(node.routes) = 1..node.next - 1
     /\ node.cost = Cost(node.routes)}

LEMMA NodesKept ==
  ASSUME UNCHANGED input
  PROVE  Nodes' = Nodes
<1>1. Route' = Route /\ place' = place
  BY RoutesKept DEF input
<1>2. [routes : Seq(Route), cost : Nat, next : 1..Len(place) + 1]'
        = [routes : Seq(Route), cost : Nat, next : 1..Len(place) + 1]
  BY <1>1
<1>3. \A node : /\ (Drivable(node.routes))' = Drivable(node.routes)
                /\ Cost(node.routes)' = Cost(node.routes)
  BY RoutesKept, CostKept
<1> DEFINE Kinds == [routes : Seq(Route), cost : Nat, next : 1..Len(place) + 1]
           Good(node) == /\ Drivable(node.routes)
                         /\ Served(node.routes) = 1..node.next - 1
                         /\ node.cost = Cost(node.routes)
<1>4. \A node : (node \in Kinds)' = (node \in Kinds)
  BY <1>2
<1>5. \A node : (Served(node.routes))' = Served(node.routes)
  BY DEF Served
<1>6. \A node : Good(node)' = Good(node)
  BY <1>3, <1>5
<1>7. Nodes = {node \in Kinds : Good(node)}
  BY DEF Nodes
<1>8. Nodes' = {node \in Kinds : Good(node)}'
  BY DEF Nodes
<1>9. QED
  <2> HIDE DEF Kinds, Good
  <2>1. QED BY <1>4, <1>6, <1>7, <1>8

LEMMA GreedyKept ==
  ASSUME UNCHANGED input, tour' = tour
  PROVE  GreedySolution' = GreedySolution /\ ToursOK' = ToursOK
<1>1. Stops' = Stops /\ Vehicles' = Vehicles /\ capacity' = capacity
  BY RoutesKept DEF input
<1>2. ToursOK' = ToursOK
  <2>1. \A v \in Vehicles : Load(tour[v])' = Load(tour[v])
    BY LoadKept
  <2>2. QED BY <1>1, <2>1 DEF ToursOK
<1> DEFINE routes(list) == [i \in DOMAIN list |->
                              [vehicle |-> list[i], stops |-> tour[list[i]],
                               room |-> capacity[list[i]] - Load(tour[list[i]])]]
           S == {v \in Vehicles : tour[v] # <<>>}
           used == InOrder(S, LAMBDA v, w : v < w)
<1>3. \A list : routes(list)' = routes(list)
  BY <1>1, LoadKept
<1>4. used' = used
  <2>1. S' = S
    BY <1>1
  <2> HIDE DEF S
  <2>2. QED BY <2>1 DEF InOrder
<1>5. \A list : Solution(list)' = Solution(list)
  BY CostKept DEF Solution, Cost
<1>6. GreedySolution = Solution(routes(used))
  BY DEF GreedySolution
<1>7. GreedySolution' = Solution(routes(used))'
  BY DEF GreedySolution
<1>8. QED BY <1>2, <1>3, <1>4, <1>5, <1>6, <1>7

-----------------------------------------------------------------------------
(* The children of a node *)

LEMMA NodeFields ==
  ASSUME InputOK, NEW node \in Nodes
  PROVE  /\ node = [routes |-> node.routes, cost |-> node.cost, next |-> node.next]
         /\ RoutesOK(node.routes) /\ node.routes \in Seq(Route)
         /\ Len(node.routes) \in Nat /\ DOMAIN node.routes = 1..Len(node.routes)
         /\ node.cost \in Nat /\ node.next \in 1..Len(place) + 1
         /\ Served(node.routes) = 1..node.next - 1 /\ node.cost = Cost(node.routes)
<1>1. /\ node = [routes |-> node.routes, cost |-> node.cost, next |-> node.next]
      /\ node.routes \in Seq(Route) /\ node.cost \in Nat /\ node.next \in 1..Len(place) + 1
  BY DEF Nodes
<1>2. /\ Drivable(node.routes)
      /\ Served(node.routes) = 1..node.next - 1 /\ node.cost = Cost(node.routes)
  BY DEF Nodes
<1>3. Len(node.routes) \in Nat /\ DOMAIN node.routes = 1..Len(node.routes)
  BY <1>1, LenProperties
<1>4. QED BY <1>1, <1>2, <1>3 DEF RoutesOK

LEMMA RootIsNode ==
  ASSUME InputOK
  PROVE  Root \in Nodes
<1>1. <<>> \in Seq(Route) /\ DOMAIN <<>> = {} /\ IsFiniteSet({})
  BY FS_EmptySet
<1>2. Drivable(<<>>)
  BY <1>1 DEF Drivable
<1>3. Served(<<>>) = {} /\ 1..1 - 1 = {}
  BY <1>1 DEF Served
<1>4. Cost(<<>>) = 0
  <2>1. SumOver(Lengths(<<>>), {}) = 0
    BY <1>1, SumPicks
  <2>2. QED BY <1>1, <2>1, CostIs
<1>5. Root.routes = <<>> /\ Root.cost = 0 /\ Root.next = 1
      /\ Root \in [routes : Seq(Route), cost : Nat, next : 1..Len(place) + 1]
  BY <1>1 DEF Root, InputOK
<1>6. QED BY <1>2, <1>3, <1>4, <1>5 DEF Nodes

\* What a node becomes by a stop: the routes of the child, one stop and its length more.
LEMMA IsNode ==
  ASSUME InputOK, NEW node \in Nodes, ~ Complete(node), NEW routes, NEW cost, NEW delta \in Int,
         RoutesOK(routes), Served(routes) = Served(node.routes) \cup {node.next},
         Cost(routes) = Cost(node.routes) + delta, cost = node.cost + delta
  PROVE  [routes |-> routes, cost |-> cost, next |-> node.next + 1] \in Nodes
<1> DEFINE child == [routes |-> routes, cost |-> cost, next |-> node.next + 1]
<1>1. /\ node.next \in 1..Len(place) + 1 /\ Len(place) \in Nat /\ ~ (node.next > Len(place))
      /\ Served(node.routes) = 1..node.next - 1 /\ node.cost = Cost(node.routes)
  BY NodeFields DEF Complete, InputOK
<1>2. node.next + 1 \in 1..Len(place) + 1 /\ (1..node.next - 1) \cup {node.next} = 1..(node.next + 1) - 1
  BY <1>1
<1>3. Cost(routes) \in Nat /\ cost = Cost(routes) /\ routes \in Seq(Route) /\ Drivable(routes)
  BY <1>1, CostIsNat DEF RoutesOK
<1>4. child.routes = routes /\ child.cost = cost /\ child.next = node.next + 1
  OBVIOUS
<1>5. child \in [routes : Seq(Route), cost : Nat, next : 1..Len(place) + 1]
  BY <1>2, <1>3
<1> HIDE DEF child
<1>6. child \in Nodes
  BY <1>1, <1>2, <1>3, <1>4, <1>5 DEF Nodes
<1>7. QED BY <1>6 DEF child

\* The stop that is next is an unserved one.
LEMMA NextIsUnserved ==
  ASSUME InputOK, NEW node \in Nodes, ~ Complete(node)
  PROVE  node.next \in Stops /\ node.next \notin Served(node.routes)
<1>1. /\ node.next \in 1..Len(place) + 1 /\ Len(place) \in Nat /\ ~ (node.next > Len(place))
      /\ Served(node.routes) = 1..node.next - 1 /\ Stops = 1..Len(place)
  BY NodeFields DEF Complete, InputOK
<1>2. node.next \in 1..Len(place) /\ node.next \notin 1..node.next - 1
  BY <1>1
<1>3. QED BY <1>1, <1>2

LEMMA InsertedIsNode ==
  ASSUME InputOK, NEW node \in Nodes, ~ Complete(node), NEW i \in DOMAIN node.routes, HasRoom(node, i),
         NEW pos \in Positions(node, i)
  PROVE  Inserted(node, i, pos) \in Nodes
<1> DEFINE s == node.next
           longer == InsertAt(node.routes[i].stops, pos + 1, s)
           delta == Delta(node.routes[i].stops, pos, s)
           child == Inserted(node, i, pos)
           more == [node.routes EXCEPT ![i] = Lengthened(node.routes[i], longer, s)]
<1>1. /\ node = [routes |-> node.routes, cost |-> node.cost, next |-> node.next]
      /\ RoutesOK(node.routes) /\ node.routes \in Seq(Route)
      /\ s \in Stops /\ s \notin Served(node.routes)
  BY NodeFields, NextIsUnserved
<1>2. /\ node.routes[i] \in Route /\ node.routes[i].stops \in Seq(Stops)
      /\ Len(node.routes[i].stops) \in Nat /\ pos \in 0..Len(node.routes[i].stops)
  <2>1. node.routes[i] \in Route /\ node.routes[i].stops \in Seq(Stops)
    BY <1>1, RouteFields
  <2>2. QED BY <2>1, LenProperties DEF Positions
<1>3. longer \in Seq(Stops) /\ Longer(longer, node.routes[i].stops, pos, s)
  BY <1>1, <1>2, InsertAtIsLonger
<1>4. delta \in Int
  BY <1>1, <1>2, <1>3, LongerRoute
<1>5. demand[s] <= node.routes[i].room
  BY DEF HasRoom
<1>6. child = [routes |-> more, cost |-> node.cost + delta, next |-> s + 1]
  BY DEF Inserted, Lengthened
<1> HIDE DEF longer, delta, child, s
<1>7. /\ RoutesOK(more) /\ Served(more) = Served(node.routes) \cup {s}
      /\ Cost(more) = Cost(node.routes) + delta
  <2>1. /\ i \in DOMAIN node.routes /\ pos \in 0..Len(node.routes[i].stops)
        /\ more = [node.routes EXCEPT ![i] = Lengthened(node.routes[i], longer, s)]
    BY <1>2
  <2> HIDE DEF more
  <2>2. QED BY <1>1, <1>3, <1>5, <2>1, RouteLengthened DEF delta
<1> HIDE DEF more
<1>8. [routes |-> more, cost |-> node.cost + delta, next |-> node.next + 1] \in Nodes
  BY <1>4, <1>7, IsNode DEF s
<1>9. QED BY <1>6, <1>8 DEF child, s

LEMMA NewRouteIsNode ==
  ASSUME InputOK, NEW node \in Nodes, ~ Complete(node), Available(node) # {}
  PROVE  NewRoute(node) \in Nodes
<1> DEFINE s == node.next
           v == Min(Available(node))
           more == Append(node.routes, Begun(v, s))
           leg == FirstLeg(s)
<1>1. v \in Available(node)
  <2>1. Available(node) \in SUBSET Nat
    BY DEF Available, InputOK
  <2>2. QED BY <2>1, LeastNumber DEF Min
<1>2. v \in Vehicles /\ (\A i \in DOMAIN node.routes : node.routes[i].vehicle # v) /\ demand[s] <= capacity[v]
  <2> HIDE DEF v
  <2>1. QED BY <1>1 DEF Available
<1>3. RoutesOK(node.routes) /\ s \in Stops /\ s \notin Served(node.routes)
  BY NodeFields, NextIsUnserved
<1>4. leg \in Nat
  BY <1>3, RouteBegun
<1> HIDE DEF v, s
<1>5. /\ RoutesOK(more) /\ Served(more) = Served(node.routes) \cup {s}
      /\ Cost(more) = Cost(node.routes) + leg
  <2>1. PICK old : old = node.routes
    OBVIOUS
  <2>2. more = Append(old, Begun(v, s))
    BY <2>1
  <2> HIDE DEF more
  <2>3. /\ RoutesOK(old) /\ (\A i \in DOMAIN old : old[i].vehicle # v) /\ s \notin Served(old)
        /\ v \in Vehicles /\ s \in Stops /\ demand[s] <= capacity[v]
    BY <1>2, <1>3, <2>1
  <2>4. /\ RoutesOK(more) /\ Served(more) = Served(old) \cup {s}
        /\ Cost(more) = Cost(old) + FirstLeg(s)
    BY <2>2, <2>3, RouteOpened
  <2>5. QED BY <2>1, <2>4
<1>6. NewRoute(node) = [routes |-> more, cost |-> node.cost + leg, next |-> node.next + 1]
  BY DEF NewRoute, v, s, FirstLeg, Begun
<1> HIDE DEF more, leg
<1>7. QED BY <1>4, <1>5, <1>6, IsNode DEF s

\* What a placement of the next stop gives is a node.
LEMMA ChildIsNode ==
  ASSUME InputOK, NEW node \in Nodes, ~ Complete(node), NEW p \in Placements(node)
  PROVE  Child(node, p) \in Nodes
<1>1. CASE p \in Insertions(node)
  <2>1. PICK i \in DOMAIN node.routes : HasRoom(node, i) /\ p \in {i} \X Positions(node, i)
    BY <1>1 DEF Insertions
  <2>2. p[1] = i /\ p[2] \in Positions(node, i)
    BY <2>1
  <2>3. QED BY <2>1, <2>2, InsertedIsNode DEF Child
<1>2. CASE p \notin Insertions(node)
  <2>1. Available(node) # {} /\ p = <<Len(node.routes) + 1, 0>>
    BY <1>2 DEF Placements
  <2>2. p[1] \notin DOMAIN node.routes
    BY <2>1, NodeFields
  <2>3. QED BY <2>1, <2>2, NewRouteIsNode DEF Child
<1>3. QED BY <1>1, <1>2

LEMMA PushedIsFinite ==
  ASSUME InputOK, NEW node \in Nodes
  PROVE  Pushed(node) \in SUBSET (Nat \X Nat) /\ IsFiniteSet(Pushed(node))
<1> DEFINE S == Pushed(node)
<1>1. /\ Len(node.routes) \in Nat /\ DOMAIN node.routes = 1..Len(node.routes)
      /\ Len(place) \in Nat
  BY NodeFields DEF InputOK
<1> DEFINE Most == UNION {{i} \X Positions(node, i) : i \in DOMAIN node.routes}
<1>2. ASSUME NEW i \in DOMAIN node.routes
      PROVE  /\ Positions(node, i) \in SUBSET Nat /\ IsFiniteSet({i} \X Positions(node, i))
             /\ {i} \X Positions(node, i) \in SUBSET (Nat \X Nat)
  <2>1. Len(node.routes[i].stops) \in Nat
    <3>1. node.routes[i].stops \in Seq(Stops)
      BY NodeFields, RouteFields
    <3>2. QED BY <3>1, LenProperties
  <2>2. Positions(node, i) \in SUBSET Nat /\ IsFiniteSet(Positions(node, i))
    BY <2>1, FS_Interval DEF Positions
  <2>3. IsFiniteSet({i})
    BY FS_Singleton
  <2>4. IsFiniteSet({i} \X Positions(node, i))
    BY <2>2, <2>3, FS_Product
  <2>5. i \in Nat
    BY <1>1
  <2>6. QED BY <2>2, <2>4, <2>5
<1>3. IsFiniteSet(Most)
  <2>1. IsFiniteSet(DOMAIN node.routes)
    BY <1>1, FS_Interval
  <2> DEFINE Sets == {{i} \X Positions(node, i) : i \in DOMAIN node.routes}
             f == [i \in DOMAIN node.routes |-> {i} \X Positions(node, i)]
  <2>2. f \in Surjection(DOMAIN node.routes, Sets)
    BY DEF Surjection
  <2>3. IsFiniteSet(Sets)
    <3> HIDE DEF f, Sets
    <3>1. QED BY <2>1, <2>2, FS_Surjection
  <2>4. \A x \in Sets : IsFiniteSet(x)
    BY <1>2
  <2> HIDE DEF Sets
  <2>5. IsFiniteSet(UNION Sets)
    BY <2>3, <2>4, FS_UNION
  <2>6. QED BY <2>5 DEF Sets
<1>4. Insertions(node) \in SUBSET Most /\ Most \in SUBSET (Nat \X Nat)
  <2>1. Insertions(node) \in SUBSET Most
    BY DEF Insertions
  <2>2. Most \in SUBSET (Nat \X Nat)
    BY <1>2
  <2>3. QED BY <2>1, <2>2
<1> DEFINE last == <<Len(node.routes) + 1, 0>>
<1>5. last \in Nat \X Nat
  BY <1>1
<1> HIDE DEF Most, last
<1>6. IsFiniteSet(Most \cup {last})
  BY <1>3, FS_AddElement
<1>7. S \in SUBSET (Most \cup {last})
  BY <1>4 DEF Pushed, Placements, last
<1>8. IsFiniteSet(S)
  <2> HIDE DEF S
  <2>1. QED BY <1>6, <1>7, FS_Subset
<1>9. QED BY <1>4, <1>5, <1>7, <1>8

\* What is pushed are nodes.
LEMMA ChildrenAreNodes ==
  ASSUME InputOK, NEW node \in Nodes, ~ Complete(node)
  PROVE  Children(node) \in Seq(Nodes)
<1> DEFINE S == Pushed(node)
           list == InOrder(S, Before)
           n == Cardinality(S)
<1>1. list \in [1..n -> S] /\ n \in Nat
  BY PushedIsFinite, PairsInOrder, FS_CardinalityType
<1>2. Children(node) = [k \in DOMAIN list |-> Child(node, list[k])]
  BY DEF Children
<1> HIDE DEF list, n
<1>3. \A k \in 1..n : list[k] \in Placements(node)
  BY <1>1 DEF Pushed
<1>4. Children(node) \in [1..n -> Nodes]
  BY <1>1, <1>2, <1>3, ChildIsNode
<1>5. QED BY <1>1, <1>4

-----------------------------------------------------------------------------
(* The inductive invariant *)

InputTypes ==
  /\ place \in Seq(Places) /\ Len(place) <= MaxStops
  /\ demand \in [Stops -> Demands]
  /\ capacity \in Seq(Capacities)

Solutions ==
  {found \in [routes : Seq(Route), cost : Nat] :
     Drivable(found.routes) /\ found.cost = Cost(found.routes)}

\* Every tour is one that its vehicle can drive, what is on the stack are nodes, and the best is a
\* solution that is the heuristic's or serves every stop with a shorter distance.
SolverInv ==
  /\ InputTypes
  /\ phase \in {"greedy", "search", "answered"} /\ late \in BOOLEAN
  /\ claim \in {"none", "exact-bnb", "hybrid", "greedy-approximation"}
  /\ tour \in [Vehicles -> Seq(Stops)] /\ ToursOK
  /\ stack \in Seq(Nodes)
  /\ best \in Solutions
  /\ NeverWorseThanGreedy

LEMMA InputIsOK ==
  ASSUME InputTypes
  PROVE  InputOK
<1>1. Len(place) \in Nat /\ Stops = 1..Len(place) /\ \A s \in Stops : place[s] \in Places
  BY LenProperties DEF InputTypes, Stops
<1>2. \A s \in Stops : demand[s] \in Nat
  <2>1. \A s \in Stops : demand[s] \in Demands
    BY DEF InputTypes
  <2>2. QED BY <2>1, SolverConstants
<1>3. Len(capacity) \in Nat /\ Vehicles = 1..Len(capacity)
  BY LenProperties DEF InputTypes, Vehicles
<1>4. \A v \in Vehicles : capacity[v] \in Nat
  <2>1. \A v \in Vehicles : capacity[v] \in Capacities
    BY <1>3 DEF InputTypes
  <2>2. QED BY <2>1, SolverConstants
<1>5. QED BY <1>1, <1>2, <1>3, <1>4 DEF InputOK

LEMMA NoRoutes ==
  ASSUME InputOK
  PROVE  [routes |-> <<>>, cost |-> 0] \in Solutions
<1>1. Root.routes = <<>> /\ Root.cost = 0
  BY DEF Root
<1>2. Root.routes \in Seq(Route) /\ Drivable(Root.routes) /\ Root.cost = Cost(Root.routes)
  BY RootIsNode DEF Nodes
<1>3. <<>> \in Seq(Route) /\ Drivable(<<>>) /\ 0 = Cost(<<>>)
  BY <1>1, <1>2
<1> DEFINE found == [routes |-> <<>>, cost |-> 0]
<1>4. found.routes = <<>> /\ found.cost = 0
  OBVIOUS
<1>5. found \in [routes : Seq(Route), cost : Nat]
  BY <1>3
<1> HIDE DEF found
<1>6. found \in Solutions
  BY <1>3, <1>4, <1>5 DEF Solutions
<1>7. QED BY <1>6 DEF found

LEMMA InvInit == Init => SolverInv
<1> SUFFICES ASSUME Init PROVE SolverInv
  OBVIOUS
<1>1. InputTypes
  <2>0. MaxStops \in Nat /\ MaxVehicles \in Nat
    BY SolverConstants
  <2>1. PICK n \in 0..MaxStops : place \in [1..n -> Places]
    BY DEF Init, Inputs
  <2>2. place \in Seq(Places) /\ Len(place) = n
    BY <2>0, <2>1
  <2>3. n <= MaxStops
    BY <2>0
  <2>4. PICK m \in 0..MaxVehicles : capacity \in [1..m -> Capacities]
    BY DEF Init, Inputs
  <2>5. capacity \in Seq(Capacities)
    BY <2>0, <2>4
  <2>6. demand \in [Stops -> Demands]
    BY DEF Init, Inputs, Stops
  <2>7. QED BY <2>2, <2>3, <2>5, <2>6 DEF InputTypes
<1>2. InputOK
  BY <1>1, InputIsOK
<1>3. tour = [v \in Vehicles |-> <<>>] /\ tour \in [Vehicles -> Seq(Stops)]
  <2>1. <<>> \in Seq(Stops)
    OBVIOUS
  <2>2. tour = [v \in Vehicles |-> <<>>]
    BY DEF Init
  <2>3. QED BY <2>1, <2>2
<1>4. ToursOK
  <2>1. DOMAIN tour = Vehicles /\ \A v \in Vehicles : tour[v] = <<>> /\ tour[v] \in Seq(Stops)
    BY <1>3
  <2>2. IsInjective(<<>>) /\ ToSet(<<>>) = {}
    BY DEF IsInjective, ToSet
  <2>3. \A v \in Vehicles : Load(tour[v]) <= capacity[v]
    <3>1. \A v \in Vehicles : Load(tour[v]) = 0
      BY <2>1, EmptyRoute
    <3>2. \A v \in Vehicles : capacity[v] \in Nat
      BY <1>2 DEF InputOK
    <3>3. QED BY <3>1, <3>2
  <2>4. QED BY <2>1, <2>2, <2>3 DEF ToursOK
<1>5. stack = <<>> /\ stack \in Seq(Nodes)
  BY DEF Init
<1>6. best \in Solutions
  BY <1>2, NoRoutes DEF Init
<1>7. NeverWorseThanGreedy
  BY DEF Init, NeverWorseThanGreedy
<1>8. phase = "greedy" /\ late = FALSE /\ claim = "none"
  BY DEF Init
<1>9. QED BY <1>1, <1>3, <1>4, <1>5, <1>6, <1>7, <1>8 DEF SolverInv

LEMMA SolutionsKept ==
  ASSUME UNCHANGED input
  PROVE  Solutions' = Solutions
<1> DEFINE Kinds == [routes : Seq(Route), cost : Nat]
           Good(found) == Drivable(found.routes) /\ found.cost = Cost(found.routes)
<1>1. Kinds' = Kinds
  BY RoutesKept
<1>2. \A found : Good(found)' = Good(found)
  BY RoutesKept, CostKept
<1>3. \A found : (found \in Kinds)' = (found \in Kinds)
  BY <1>1
<1>4. Solutions = {found \in Kinds : Good(found)}
  BY DEF Solutions
<1>5. Solutions' = {found \in Kinds : Good(found)}'
  BY DEF Solutions
<1>6. QED
  <2> HIDE DEF Kinds, Good
  <2>1. QED BY <1>2, <1>3, <1>4, <1>5

-----------------------------------------------------------------------------
(* The heuristic *)

LEMMA LeastPair ==
  ASSUME NEW S \in SUBSET (Nat \X Nat), S # {}
  PROVE  \E p \in S : \A q \in S : Before(p, q)
<1> DEFINE Firsts == {p[1] : p \in S}
<1>1. Firsts \in SUBSET Nat /\ Firsts # {}
  OBVIOUS
<1>2. PICK n \in Firsts : \A k \in Firsts : n <= k
  <2> HIDE DEF Firsts
  <2>1. QED BY <1>1, LeastNumber
<1> DEFINE Seconds == {m \in Nat : <<n, m>> \in S}
<1>3. Seconds \in SUBSET Nat /\ Seconds # {}
  OBVIOUS
<1>4. PICK m \in Seconds : \A k \in Seconds : m <= k
  <2> HIDE DEF Seconds
  <2>1. QED BY <1>3, LeastNumber
<1>5. <<n, m>> \in S
  OBVIOUS
<1>6. ASSUME NEW q \in S PROVE Before(<<n, m>>, q)
  <2>1. q[1] \in Nat /\ q[2] \in Nat /\ q = <<q[1], q[2]>>
    OBVIOUS
  <2>2. n \in Nat /\ m \in Nat /\ n <= q[1]
    BY <1>1, <1>2
  <2>3. n = q[1] => m <= q[2]
    BY <1>4, <2>1
  <2> HIDE DEF Firsts, Seconds
  <2>4. n < q[1] \/ (n = q[1] /\ m <= q[2])
    BY <2>1, <2>2, <2>3
  <2>5. QED BY <2>4 DEF Before
<1>7. QED BY <1>5, <1>6

\* The pair that greedyInit takes is one of those that fit.
LEMMA CheapestFits ==
  ASSUME InputOK, ToursOK, Fitting # {}
  PROVE  /\ Cheapest \in Fitting
         /\ Cheapest[1] \in Vehicles /\ Cheapest[2] \in Stops
         /\ \A w \in Vehicles : Cheapest[2] \notin ToSet(tour[w])
         /\ Load(tour[Cheapest[1]]) + demand[Cheapest[2]] <= capacity[Cheapest[1]]
<1>1. Fitting \in SUBSET (Vehicles \X Stops)
  BY DEF Fitting, Unserved
<1>2. \A p \in Fitting : Leg(p) \in Nat
  <2>1. ASSUME NEW p \in Fitting PROVE Leg(p) \in Nat
    <3>1. p[1] \in Vehicles /\ p[2] \in Stops
      BY <1>1
    <3>2. tour[p[1]] \in Seq(Stops) /\ Len(tour[p[1]]) \in 0..Len(tour[p[1]])
      BY <3>1, LenProperties DEF ToursOK
    <3>3. End(tour[p[1]]) \in Places /\ place[p[2]] \in Places
      BY <3>1, <3>2, RouteParts DEF End, InputOK
    <3>4. QED BY <3>3, DistanceIsNat DEF Leg
  <2>2. QED BY <2>1
<1> DEFINE Dists == {Leg(p) : p \in Fitting}
           closest == {p \in Fitting : \A q \in Fitting : Leg(p) <= Leg(q)}
<1>3. PICK n \in Dists : \A k \in Dists : n <= k
  <2>1. Dists \in SUBSET Nat /\ Dists # {}
    BY <1>2
  <2> HIDE DEF Dists
  <2>2. QED BY <2>1, LeastNumber
<1>4. PICK p \in Fitting : n = Leg(p)
  OBVIOUS
<1>5. \A q \in Fitting : Leg(p) <= Leg(q)
  BY <1>3, <1>4
<1>6. closest # {} /\ closest \in SUBSET (Nat \X Nat)
  <2>1. p \in closest
    BY <1>5
  <2>2. Vehicles \in SUBSET Nat /\ Stops \in SUBSET Nat
    BY DEF InputOK
  <2>3. closest \in SUBSET Fitting
    OBVIOUS
  <2> HIDE DEF closest
  <2>4. QED BY <1>1, <2>1, <2>2, <2>3
<1>7. Cheapest \in closest
  <2>1. Cheapest = CHOOSE x \in closest : \A q \in closest : Before(x, q)
    BY DEF Cheapest
  <2>2. \E x \in closest : \A q \in closest : Before(x, q)
    <3> HIDE DEF closest
    <3>1. QED BY <1>6, LeastPair
  <2> HIDE DEF closest
  <2>3. QED BY <2>1, <2>2
<1>8. Cheapest \in Fitting
  BY <1>7
<1>9. QED BY <1>8 DEF Fitting, Unserved

LEMMA InvAssign ==
  ASSUME SolverInv, Assign
  PROVE  SolverInv'
<1> DEFINE v == Cheapest[1]
           s == Cheapest[2]
           grown == Append(tour[v], s)
<1>1. InputOK /\ ToursOK /\ tour \in [Vehicles -> Seq(Stops)]
  BY InputIsOK DEF SolverInv
<1>2. /\ UNCHANGED input /\ phase = "greedy" /\ UNCHANGED <<phase, stack, best, late, claim>>
      /\ Fitting # {} /\ tour' = [tour EXCEPT ![v] = Append(tour[v], s)]
  BY DEF Assign
<1>3. /\ v \in Vehicles /\ s \in Stops /\ (\A w \in Vehicles : s \notin ToSet(tour[w]))
      /\ Load(tour[v]) + demand[s] <= capacity[v]
  BY <1>1, <1>2, CheapestFits
<1> HIDE DEF v, s
<1>4. tour[v] \in Seq(Stops) /\ Len(tour[v]) \in Nat /\ DOMAIN tour[v] = 1..Len(tour[v])
      /\ IsInjective(tour[v])
  BY <1>1, <1>3, LenProperties DEF ToursOK
<1>5. /\ grown \in Seq(Stops) /\ Len(grown) = Len(tour[v]) + 1
      /\ (\A i \in 1..Len(tour[v]) : grown[i] = tour[v][i]) /\ grown[Len(tour[v]) + 1] = s
  BY <1>3, <1>4, AppendProperties
<1>6. DOMAIN grown = 1..Len(tour[v]) + 1
  BY <1>5, LenProperties
<1> HIDE DEF grown
<1>7. Len(tour[v]) \in 0..Len(tour[v]) /\ Longer(grown, tour[v], Len(tour[v]), s)
  <2>1. \A k \in 1..Len(tour[v]) + 1 : k <= Len(tour[v]) => k \in 1..Len(tour[v])
    BY <1>4
  <2>2. \A k \in 1..Len(tour[v]) + 1 : ~ (k <= Len(tour[v])) => k = Len(tour[v]) + 1
    BY <1>4
  <2>3. \A k \in 1..Len(tour[v]) + 1 :
          grown[k] = IF k <= Len(tour[v]) THEN tour[v][k]
                     ELSE IF k = Len(tour[v]) + 1 THEN s ELSE tour[v][k - 1]
    BY <1>5, <2>1, <2>2
  <2>4. Len(tour[v]) \in 0..Len(tour[v])
    BY <1>4
  <2>5. QED BY <1>6, <2>3, <2>4 DEF Longer
<1>8. ToSet(grown) = ToSet(tour[v]) \cup {s} /\ IsInjective(grown)
  BY <1>3, <1>4, <1>7, LongerStops
<1>9. Load(grown) = Load(tour[v]) + demand[s]
  BY <1>1, <1>3, <1>4, <1>5, <1>7, LongerRoute
<1>10. Load(grown) <= capacity[v]
  BY <1>3, <1>9
<1>11. DOMAIN tour' = Vehicles /\ tour'[v] = grown /\ tour' \in [Vehicles -> Seq(Stops)]
       /\ \A w \in Vehicles : w # v => tour'[w] = tour[w]
  BY <1>1, <1>2, <1>3, <1>5 DEF grown
<1>12. Stops' = Stops /\ Vehicles' = Vehicles /\ capacity' = capacity
  BY <1>2, RoutesKept DEF input
<1>13. ToursOK'
  <2>1. PICK t : t = tour'
    OBVIOUS
  <2>2. \A w \in Vehicles : t[w] \in Seq(Stops) /\ IsInjective(t[w]) /\ Load(t[w]) <= capacity[w]
    <3>1. ASSUME NEW w \in Vehicles, w # v
          PROVE  t[w] \in Seq(Stops) /\ IsInjective(t[w]) /\ Load(t[w]) <= capacity[w]
      <4>1. t[w] = tour[w]
        BY <1>11, <2>1, <3>1
      <4>2. QED BY <1>1, <4>1 DEF ToursOK
    <3>2. t[v] \in Seq(Stops) /\ IsInjective(t[v]) /\ Load(t[v]) <= capacity[v]
      BY <1>5, <1>8, <1>10, <1>11, <2>1
    <3>3. QED BY <3>1, <3>2
  <2>3. \A w, x \in Vehicles : w # x => ToSet(t[w]) \cap ToSet(t[x]) = {}
    <3>1. ASSUME NEW w \in Vehicles, NEW x \in Vehicles, w # x
          PROVE  ToSet(t[w]) \cap ToSet(t[x]) = {}
      <4>1. ToSet(tour[w]) \cap ToSet(tour[x]) = {} /\ s \notin ToSet(tour[w]) /\ s \notin ToSet(tour[x])
        BY <1>1, <1>3, <3>1 DEF ToursOK
      <4>2. CASE w = v
        <5>1. t[w] = grown /\ t[x] = tour[x]
          BY <1>11, <2>1, <3>1, <4>2
        <5>2. QED BY <1>8, <4>1, <4>2, <5>1
      <4>3. CASE x = v
        <5>1. t[x] = grown /\ t[w] = tour[w]
          BY <1>11, <2>1, <3>1, <4>3
        <5>2. QED BY <1>8, <4>1, <4>3, <5>1
      <4>4. CASE w # v /\ x # v
        <5>1. t[x] = tour[x] /\ t[w] = tour[w]
          BY <1>11, <2>1, <3>1, <4>4
        <5>2. QED BY <4>1, <5>1
      <4>5. QED BY <4>2, <4>3, <4>4
    <3>2. QED BY <3>1
  <2>4. \A w \in Vehicles : Load(t[w])' = Load(t[w])
    BY <1>2, LoadKept
  <2>5. DOMAIN t = Vehicles
    BY <1>11, <2>1
  <2>6. QED BY <1>12, <2>1, <2>2, <2>3, <2>4, <2>5 DEF ToursOK
<1>14. InputTypes'
  BY <1>2 DEF SolverInv, InputTypes, input, Stops
<1>15. (tour \in [Vehicles -> Seq(Stops)])'
  BY <1>11, <1>12
<1>16. (stack \in Seq(Nodes))' /\ (best \in Solutions)'
  BY <1>2, NodesKept, SolutionsKept DEF SolverInv
<1>17. NeverWorseThanGreedy'
  BY <1>2 DEF NeverWorseThanGreedy
<1>18. phase' \in {"greedy", "search", "answered"} /\ late' \in BOOLEAN
       /\ claim' \in {"none", "exact-bnb", "hybrid", "greedy-approximation"}
  BY <1>2 DEF SolverInv
<1>19. QED BY <1>13, <1>14, <1>15, <1>16, <1>17, <1>18 DEF SolverInv

-----------------------------------------------------------------------------
(* The search *)

\* What the steps after the heuristic leave as it is.
LEMMA ToursKept ==
  ASSUME SolverInv, UNCHANGED <<input, tour>>
  PROVE  /\ InputOK /\ ToursOK /\ Stops' = Stops
         /\ InputTypes' /\ (tour \in [Vehicles -> Seq(Stops)])' /\ ToursOK'
         /\ Nodes' = Nodes /\ Solutions' = Solutions /\ GreedySolution' = GreedySolution
<1>1. UNCHANGED input /\ tour' = tour
  OBVIOUS
<1>2. InputTypes' /\ Stops' = Stops /\ Vehicles' = Vehicles
  BY <1>1 DEF SolverInv, InputTypes, input, Stops, Vehicles
<1>3. (tour \in [Vehicles -> Seq(Stops)])'
  BY <1>1, <1>2 DEF SolverInv
<1>4. ToursOK' /\ GreedySolution' = GreedySolution
  BY <1>1, GreedyKept DEF SolverInv
<1>5. Nodes' = Nodes /\ Solutions' = Solutions
  BY <1>1, NodesKept, SolutionsKept
<1>6. QED BY <1>2, <1>3, <1>4, <1>5, InputIsOK DEF SolverInv

LEMMA InvStartSearch ==
  ASSUME SolverInv, StartSearch
  PROVE  SolverInv'
<1>1. /\ InputOK /\ ToursOK /\ InputTypes' /\ (tour \in [Vehicles -> Seq(Stops)])' /\ ToursOK'
      /\ Nodes' = Nodes /\ Solutions' = Solutions /\ GreedySolution' = GreedySolution
  BY ToursKept DEF StartSearch
<1>2. best' = GreedySolution
  BY DEF StartSearch
<1>3. (best \in Solutions)'
  <2>1. GreedySolution \in Solutions
    BY <1>1, GreedyIsSolution DEF Solutions, RoutesOK
  <2>2. QED BY <1>1, <1>2, <2>1
<1>4. (stack \in Seq(Nodes))'
  <2>1. stack \in Seq(Nodes) /\ (stack' = stack \/ stack' = <<Root>>)
    BY DEF SolverInv, StartSearch
  <2>2. <<Root>> \in Seq(Nodes)
    BY <1>1, RootIsNode
  <2>3. QED BY <1>1, <2>1, <2>2
<1>5. NeverWorseThanGreedy'
  BY <1>1, <1>2 DEF NeverWorseThanGreedy
<1>6. phase' \in {"greedy", "search", "answered"} /\ late' \in BOOLEAN
      /\ claim' \in {"none", "exact-bnb", "hybrid", "greedy-approximation"}
  BY DEF SolverInv, StartSearch
<1>7. QED BY <1>1, <1>3, <1>4, <1>5, <1>6 DEF SolverInv

LEMMA TopIsNode ==
  ASSUME SolverInv, stack # <<>>
  PROVE  Top \in Nodes /\ Front(stack) \in Seq(Nodes)
<1>1. stack \in Seq(Nodes) /\ Len(stack) \in Nat /\ Len(stack) # 0 /\ DOMAIN stack = 1..Len(stack)
  BY LenProperties, EmptySeq DEF SolverInv
<1>2. Len(stack) \in 1..Len(stack) /\ Len(stack) - 1 \in Int
      /\ \A i \in 1..Len(stack) - 1 : i \in 1..Len(stack)
  BY <1>1
<1>3. \A i \in 1..Len(stack) : stack[i] \in Nodes
  BY <1>1
<1>4. Top \in Nodes
  BY <1>2, <1>3 DEF Top, Last
<1>5. SubSeq(stack, 1, Len(stack) - 1) \in Seq(Nodes)
  <2>1. 1 \in Int /\ \A i \in 1..Len(stack) - 1 : stack[i] \in Nodes
    BY <1>2, <1>3
  <2>2. QED BY <1>2, <2>1, SubSeqProperties
<1>6. QED BY <1>4, <1>5 DEF Front

\* A complete node serves every stop.
LEMMA CompleteServesAll ==
  ASSUME InputOK, NEW node \in Nodes, Complete(node)
  PROVE  Served(node.routes) = Stops
<1>1. node.next \in 1..Len(place) + 1 /\ node.next > Len(place) /\ Served(node.routes) = 1..node.next - 1
      /\ Len(place) \in Nat /\ Stops = 1..Len(place)
  BY NodeFields DEF Complete, InputOK
<1>2. node.next - 1 = Len(place)
  BY <1>1
<1>3. QED BY <1>1, <1>2

LEMMA ServedKept ==
  ASSUME NEW routes
  PROVE  Served(routes)' = Served(routes)
BY DEF Served

\* The better of the best so far and a shorter full plan.
LEMMA BestKept ==
  ASSUME SolverInv, UNCHANGED <<input, tour>>, phase # "greedy", best' = best
  PROVE  NeverWorseThanGreedy'
<1>1. best = GreedySolution \/ (best.cost < GreedySolution.cost /\ Served(best.routes) = Stops)
  BY DEF SolverInv, NeverWorseThanGreedy
<1>2. GreedySolution' = GreedySolution /\ Stops' = Stops /\ Served(best.routes)' = Served(best.routes)
  <2>1. Served(best.routes)' = Served(best.routes)
    BY DEF Served
  <2>2. QED BY <2>1, ToursKept
<1>3. QED BY <1>1, <1>2 DEF NeverWorseThanGreedy

LEMMA InvSolve ==
  ASSUME SolverInv, Solve
  PROVE  SolverInv'
<1>1. UNCHANGED <<input, tour, phase, late, claim>> /\ phase = "search" /\ stack # <<>>
      /\ Complete(Top) /\ stack' = Front(stack)
  BY DEF Solve, Explore, Pop
<1>2. /\ InputOK /\ ToursOK /\ InputTypes' /\ (tour \in [Vehicles -> Seq(Stops)])' /\ ToursOK'
      /\ Nodes' = Nodes /\ Solutions' = Solutions /\ GreedySolution' = GreedySolution /\ Stops' = Stops
  BY <1>1, ToursKept
<1>3. Top \in Nodes /\ Front(stack) \in Seq(Nodes)
  BY <1>1, TopIsNode
<1>4. (stack \in Seq(Nodes))'
  BY <1>1, <1>2, <1>3
<1>5. (best \in Solutions)' /\ NeverWorseThanGreedy'
  <2>1. CASE Top.cost < best.cost
    <3> DEFINE found == [routes |-> Top.routes, cost |-> Top.cost]
    <3>1. best' = found
      BY <2>1 DEF Solve
    <3>2. Top.routes \in Seq(Route) /\ Top.cost \in Nat /\ Drivable(Top.routes) /\ Top.cost = Cost(Top.routes)
      BY <1>3 DEF Nodes
    <3>3. found.routes = Top.routes /\ found.cost = Top.cost /\ found \in [routes : Seq(Route), cost : Nat]
      BY <3>2
    <3> HIDE DEF found
    <3>4. found \in Solutions
      BY <3>2, <3>3 DEF Solutions
    <3>5. found.cost < GreedySolution.cost
      <4>1. best.cost \in Nat /\ GreedySolution.cost \in Nat
        BY <1>2, GreedyIsSolution DEF SolverInv, Solutions
      <4>2. best.cost <= GreedySolution.cost
        BY <1>1, <4>1 DEF SolverInv, NeverWorseThanGreedy
      <4>3. QED BY <2>1, <3>2, <3>3, <4>1, <4>2
    <3>6. Served(found.routes) = Stops
      BY <1>1, <1>2, <1>3, <3>3, CompleteServesAll
    <3>7. Served(best.routes)' = Served(found.routes)
      BY <3>1 DEF Served
    <3>8. NeverWorseThanGreedy'
      BY <1>2, <3>1, <3>5, <3>6, <3>7 DEF NeverWorseThanGreedy
    <3>9. QED BY <1>2, <3>1, <3>4, <3>8
  <2>2. CASE ~ (Top.cost < best.cost)
    <3>1. best' = best
      BY <2>2 DEF Solve
    <3>2. QED BY <1>1, <1>2, <3>1, BestKept DEF SolverInv
  <2>3. QED BY <2>1, <2>2
<1>6. QED BY <1>1, <1>2, <1>4, <1>5 DEF SolverInv

LEMMA InvPrune ==
  ASSUME SolverInv, Prune
  PROVE  SolverInv'
<1>1. UNCHANGED <<input, tour, phase, late, claim, best>> /\ phase = "search" /\ stack # <<>>
      /\ stack' = Front(stack)
  BY DEF Prune, Explore, Pop
<1>2. /\ InputTypes' /\ (tour \in [Vehicles -> Seq(Stops)])' /\ ToursOK'
      /\ Nodes' = Nodes /\ Solutions' = Solutions
  BY <1>1, ToursKept
<1>3. (stack \in Seq(Nodes))'
  BY <1>1, <1>2, TopIsNode
<1>4. NeverWorseThanGreedy'
  BY <1>1, BestKept
<1>5. QED BY <1>1, <1>2, <1>3, <1>4 DEF SolverInv

LEMMA InvBranch ==
  ASSUME SolverInv, Branch
  PROVE  SolverInv'
<1>1. UNCHANGED <<input, tour, phase, late, claim, best>> /\ phase = "search" /\ stack # <<>>
      /\ ~ Complete(Top) /\ stack' = Front(stack) \o Children(Top)
  BY DEF Branch, Explore
<1>2. /\ InputOK /\ InputTypes' /\ (tour \in [Vehicles -> Seq(Stops)])' /\ ToursOK'
      /\ Nodes' = Nodes /\ Solutions' = Solutions
  BY <1>1, ToursKept
<1>3. (stack \in Seq(Nodes))'
  <2>1. Top \in Nodes /\ Front(stack) \in Seq(Nodes)
    BY <1>1, TopIsNode
  <2>2. Children(Top) \in Seq(Nodes)
    BY <1>1, <1>2, <2>1, ChildrenAreNodes
  <2>3. QED BY <1>1, <1>2, <2>1, <2>2, ConcatProperties
<1>4. NeverWorseThanGreedy'
  BY <1>1, BestKept
<1>5. QED BY <1>1, <1>2, <1>3, <1>4 DEF SolverInv

LEMMA InvTimePasses ==
  ASSUME SolverInv, TimePasses
  PROVE  SolverInv'
<1>1. UNCHANGED <<input, tour, phase, stack, claim, best>> /\ phase = "search" /\ late' = TRUE
  BY DEF TimePasses
<1>2. /\ InputTypes' /\ (tour \in [Vehicles -> Seq(Stops)])' /\ ToursOK'
      /\ Nodes' = Nodes /\ Solutions' = Solutions
  BY <1>1, ToursKept
<1>3. NeverWorseThanGreedy'
  BY <1>1, BestKept
<1>4. QED BY <1>1, <1>2, <1>3 DEF SolverInv

LEMMA InvAnswer ==
  ASSUME SolverInv, Answer
  PROVE  SolverInv'
<1>1. UNCHANGED <<input, tour, stack, late>> /\ phase = "search" /\ phase' = "answered"
      /\ best' = (IF Improved THEN best ELSE GreedySolution)
  BY DEF Answer
<1>2. /\ InputOK /\ ToursOK /\ InputTypes' /\ (tour \in [Vehicles -> Seq(Stops)])' /\ ToursOK'
      /\ Nodes' = Nodes /\ Solutions' = Solutions /\ GreedySolution' = GreedySolution
  BY <1>1, ToursKept
<1>3. (best \in Solutions)' /\ NeverWorseThanGreedy'
  <2>1. CASE Improved
    <3>1. best' = best
      BY <1>1, <2>1
    <3>2. QED BY <1>1, <1>2, <3>1, BestKept DEF SolverInv
  <2>2. CASE ~ Improved
    <3>1. best' = GreedySolution /\ GreedySolution \in Solutions
      BY <1>1, <1>2, <2>2, GreedyIsSolution DEF Solutions, RoutesOK
    <3>2. QED BY <1>2, <3>1 DEF NeverWorseThanGreedy
  <2>3. QED BY <2>1, <2>2
<1>4. claim' \in {"none", "exact-bnb", "hybrid", "greedy-approximation"}
  <2>1. CASE Len(place) <= ExactThreshold
    BY <2>1 DEF Answer
  <2>2. CASE ~ (Len(place) <= ExactThreshold) /\ Len(place) > ExactThreshold /\ Improved
    BY <2>2 DEF Answer
  <2>3. CASE ~ (Len(place) <= ExactThreshold) /\ ~ (Len(place) > ExactThreshold /\ Improved)
    BY <2>3 DEF Answer
  <2>4. QED BY <2>1, <2>2, <2>3
<1>5. QED BY <1>1, <1>2, <1>3, <1>4 DEF SolverInv

LEMMA InvStep == SolverInv /\ [Next]_vars => SolverInv'
<1> SUFFICES ASSUME SolverInv, [Next]_vars PROVE SolverInv'
  OBVIOUS
<1>1. CASE Assign
  BY <1>1, InvAssign
<1>2. CASE StartSearch
  BY <1>2, InvStartSearch
<1>3. CASE Solve
  BY <1>3, InvSolve
<1>4. CASE Prune
  BY <1>4, InvPrune
<1>5. CASE Branch
  BY <1>5, InvBranch
<1>6. CASE TimePasses
  BY <1>6, InvTimePasses
<1>7. CASE Answer
  BY <1>7, InvAnswer
<1>8. CASE UNCHANGED vars
  <2>1. UNCHANGED <<input, tour, phase, stack, best, late, claim>>
    BY <1>8 DEF vars
  <2>2. /\ InputTypes' /\ (tour \in [Vehicles -> Seq(Stops)])' /\ ToursOK'
        /\ Nodes' = Nodes /\ Solutions' = Solutions
    BY <2>1, ToursKept
  <2>3. NeverWorseThanGreedy'
    <3>1. CASE phase = "greedy"
      BY <2>1, <3>1 DEF NeverWorseThanGreedy
    <3>2. CASE phase # "greedy"
      BY <2>1, <3>2, BestKept
    <3>3. QED BY <3>1, <3>2
  <2>4. QED BY <2>1, <2>2, <2>3 DEF SolverInv
<1>9. QED BY <1>1, <1>2, <1>3, <1>4, <1>5, <1>6, <1>7, <1>8 DEF Next

LEMMA InvIsSound == SolverInv => SearchIsSound
<1> SUFFICES ASSUME SolverInv PROVE SearchIsSound
  OBVIOUS
<1>1. InputOK /\ stack \in Seq(Nodes) /\ best \in Solutions
  BY InputIsOK DEF SolverInv
<1>2. Nodes \in SUBSET [routes : Seq(Route), cost : Nat, next : 1..Len(place) + 1]
  BY DEF Nodes
<1>3. TypeOK
  <2>1. stack \in Seq([routes : Seq(Route), cost : Nat, next : 1..Len(place) + 1])
    <3> DEFINE Kinds == [routes : Seq(Route), cost : Nat, next : 1..Len(place) + 1]
    <3>1. Nodes \in SUBSET Kinds
      BY <1>2
    <3> HIDE DEF Kinds
    <3>2. stack \in Seq(Kinds)
      BY <1>1, <3>1
    <3>3. QED BY <3>2 DEF Kinds
  <2>2. best \in [routes : Seq(Route), cost : Nat]
    BY <1>1 DEF Solutions
  <2>3. QED BY <2>1, <2>2 DEF SolverInv, InputTypes, TypeOK
<1>4. \A i \in DOMAIN stack : stack[i] \in Nodes
  BY <1>1
<1>5. SolutionsDrivable
  <2>1. Drivable(best.routes)
    BY <1>1 DEF Solutions
  <2>2. \A i \in DOMAIN stack : Drivable(stack[i].routes) /\ Served(stack[i].routes) = 1..stack[i].next - 1
    BY <1>4 DEF Nodes
  <2>3. QED BY <2>1, <2>2 DEF SolutionsDrivable
<1>6. CostsAddUp
  <2>1. best.cost = Cost(best.routes)
    BY <1>1 DEF Solutions
  <2>2. \A i \in DOMAIN stack : stack[i].cost = Cost(stack[i].routes)
    BY <1>4 DEF Nodes
  <2>3. QED BY <2>1, <2>2 DEF CostsAddUp, Cost
<1>7. QED BY <1>3, <1>5, <1>6 DEF SearchIsSound

\* For every metric, fleet and list of stops: every solution that the heuristic and the search hold,
\* partial or best, has no vehicle and no stop twice, keeps to the capacities and has as its cost, which
\* the code adds up from insertionCostDelta, the length of its routes; a partial one has exactly the
\* stops before its next (greedyInit, branchAndBound).
THEOREM SearchStaysSound == Spec => []SearchIsSound
<1>1. Spec => []SolverInv
  BY InvInit, InvStep, PTL DEF Spec
<1>2. QED BY <1>1, InvIsSound, PTL

\* For every metric, fleet and list of stops, and however early the time limit stops the search: the
\* best solution, and so the answer of solveVRP, is the heuristic's or serves every stop with a shorter
\* distance.
THEOREM AnswerIsNoWorseThanGreedy == Spec => []NeverWorseThanGreedy
<1>1. Spec => []SolverInv
  BY InvInit, InvStep, PTL DEF Spec
<1>2. SolverInv => NeverWorseThanGreedy
  BY DEF SolverInv
<1>3. QED BY <1>1, <1>2, PTL

-----------------------------------------------------------------------------
(* Parts of lists *)

\* Stops, each at most once.
ListOK(list) == list \in Seq(Stops) /\ IsInjective(list)

LEMMA ListParts ==
  ASSUME NEW list, ListOK(list)
  PROVE  /\ list \in Seq(Stops) /\ Len(list) \in Nat /\ DOMAIN list = 1..Len(list)
         /\ \A i \in 1..Len(list) : list[i] \in Stops /\ list[i] \in ToSet(list)
         /\ \A i, k \in 1..Len(list) : list[i] = list[k] => i = k
         /\ \A x \in ToSet(list) : \E i \in 1..Len(list) : x = list[i]
<1>1. /\ list \in Seq(Stops) /\ Len(list) \in Nat /\ DOMAIN list = 1..Len(list)
      /\ \A i \in 1..Len(list) : list[i] \in Stops
  BY LenProperties, ElementOfSeq DEF ListOK
<1>2. \A i, k \in 1..Len(list) : list[i] = list[k] => i = k
  BY <1>1 DEF ListOK, IsInjective
<1>3. ToSet(list) = {list[i] : i \in 1..Len(list)}
  BY <1>1 DEF ToSet
<1>4. QED BY <1>1, <1>2, <1>3

\* The turns of the stops of a list are a total order of them.
LEMMA TurnsOf ==
  ASSUME NEW list, ListOK(list)
  PROVE  /\ \A i, k \in 1..Len(list) : InTurn(list, list[i], list[k]) <=> i <= k
         /\ \A a, b : InTurn(list, a, b) => a \in ToSet(list) /\ b \in ToSet(list)
         /\ \A a \in ToSet(list) : InTurn(list, a, a)
         /\ \A a, b \in ToSet(list) : InTurn(list, a, b) \/ InTurn(list, b, a)
         /\ \A a, b, c : InTurn(list, a, b) /\ InTurn(list, b, c) => InTurn(list, a, c)
         /\ \A a, b : InTurn(list, a, b) /\ InTurn(list, b, a) => a = b
<1>1. /\ Len(list) \in Nat /\ DOMAIN list = 1..Len(list)
      /\ \A i \in 1..Len(list) : list[i] \in ToSet(list)
      /\ \A i, k \in 1..Len(list) : list[i] = list[k] => i = k
      /\ \A x \in ToSet(list) : \E i \in 1..Len(list) : x = list[i]
  BY ListParts
<1>2. \A a, b : InTurn(list, a, b) <=> \E i, k \in 1..Len(list) : i <= k /\ list[i] = a /\ list[k] = b
  BY <1>1 DEF InTurn
<1>3. ASSUME NEW i \in 1..Len(list), NEW k \in 1..Len(list)
      PROVE  InTurn(list, list[i], list[k]) <=> i <= k
  BY <1>1, <1>2
<1>4. ASSUME NEW a, NEW b, InTurn(list, a, b)
      PROVE  a \in ToSet(list) /\ b \in ToSet(list)
  BY <1>1, <1>2, <1>4
<1>5. ASSUME NEW a \in ToSet(list), NEW b \in ToSet(list)
      PROVE  InTurn(list, a, b) \/ InTurn(list, b, a)
  <2>1. PICK i \in 1..Len(list), k \in 1..Len(list) : a = list[i] /\ b = list[k]
    BY <1>1
  <2>2. i <= k \/ k <= i
    OBVIOUS
  <2>3. QED BY <1>3, <2>1, <2>2
<1>6. ASSUME NEW a, NEW b, NEW c, InTurn(list, a, b), InTurn(list, b, c)
      PROVE  InTurn(list, a, c)
  <2>1. PICK i \in 1..Len(list), k \in 1..Len(list) : i <= k /\ list[i] = a /\ list[k] = b
    BY <1>2, <1>6
  <2>2. PICK m \in 1..Len(list), n \in 1..Len(list) : m <= n /\ list[m] = b /\ list[n] = c
    BY <1>2, <1>6
  <2>3. k = m
    BY <1>1, <2>1, <2>2
  <2>4. i <= n
    BY <1>1, <2>1, <2>2, <2>3
  <2>5. QED BY <1>3, <2>1, <2>2, <2>4
<1>7. ASSUME NEW a, NEW b, InTurn(list, a, b), InTurn(list, b, a)
      PROVE  a = b
  <2>1. PICK i \in 1..Len(list), k \in 1..Len(list) : a = list[i] /\ b = list[k]
    BY <1>1, <1>4, <1>7
  <2>2. i <= k /\ k <= i
    BY <1>3, <1>7, <2>1
  <2>3. i = k
    BY <2>2
  <2>4. QED BY <2>1, <2>3
<1>8. QED BY <1>3, <1>4, <1>5, <1>6, <1>7

\* The turns in a list with one more stop.
LEMMA LongerTurns ==
  ASSUME NEW stops, ListOK(stops), NEW longer, ListOK(longer), NEW s, NEW pos \in 0..Len(stops),
         Longer(longer, stops, pos, s)
  PROVE  /\ \A a, b \in ToSet(stops) : InTurn(longer, a, b) <=> InTurn(stops, a, b)
         /\ \A j \in 1..Len(stops) : /\ InTurn(longer, stops[j], s) <=> j <= pos
                                     /\ InTurn(longer, s, stops[j]) <=> pos < j
         /\ InTurn(longer, s, s)
<1> DEFINE n == Len(stops)
           to(j) == IF j <= pos THEN j ELSE j + 1
<1>1. /\ n \in Nat /\ DOMAIN stops = 1..n /\ \A x \in ToSet(stops) : \E i \in 1..n : x = stops[i]
  BY ListParts
<1>2. Len(longer) = n + 1
  BY <1>1, ListParts DEF Longer
<1>3. /\ \A j \in 1..n : to(j) \in 1..n + 1 /\ longer[to(j)] = stops[j]
      /\ pos + 1 \in 1..n + 1 /\ longer[pos + 1] = s
  <2>1. ASSUME NEW j \in 1..n PROVE to(j) \in 1..n + 1 /\ longer[to(j)] = stops[j]
    <3>1. CASE j <= pos
      <4>1. to(j) = j /\ j \in 1..n + 1
        BY <1>1, <3>1
      <4>2. QED BY <3>1, <4>1 DEF Longer
    <3>2. CASE ~ (j <= pos)
      <4>1. to(j) = j + 1 /\ j + 1 \in 1..n + 1 /\ ~ (j + 1 <= pos) /\ j + 1 # pos + 1 /\ (j + 1) - 1 = j
        BY <1>1, <3>2
      <4>2. QED BY <4>1 DEF Longer
    <3>3. QED BY <3>1, <3>2
  <2>2. pos + 1 \in 1..n + 1 /\ ~ (pos + 1 <= pos)
    BY <1>1
  <2>3. QED BY <2>1, <2>2 DEF Longer
<1>4. \A i, k \in 1..n + 1 : InTurn(longer, longer[i], longer[k]) <=> i <= k
  BY <1>2, TurnsOf
<1>5. \A i, k \in 1..n : InTurn(stops, stops[i], stops[k]) <=> i <= k
  BY TurnsOf
<1>6. ASSUME NEW i \in 1..n, NEW k \in 1..n
      PROVE  InTurn(longer, stops[i], stops[k]) <=> InTurn(stops, stops[i], stops[k])
  <2>1. to(i) <= to(k) <=> i <= k
    BY <1>1
  <2> HIDE DEF to
  <2>2. QED BY <1>3, <1>4, <1>5, <2>1
<1>7. ASSUME NEW j \in 1..n
      PROVE  (InTurn(longer, stops[j], s) <=> j <= pos) /\ (InTurn(longer, s, stops[j]) <=> pos < j)
  <2>1. (to(j) <= pos + 1 <=> j <= pos) /\ (pos + 1 <= to(j) <=> pos < j)
    BY <1>1
  <2> HIDE DEF to
  <2>2. QED BY <1>3, <1>4, <2>1
<1>8. InTurn(longer, s, s)
  BY <1>1, <1>3, <1>4
<1>9. ASSUME NEW a \in ToSet(stops), NEW b \in ToSet(stops)
      PROVE  InTurn(longer, a, b) <=> InTurn(stops, a, b)
  <2>1. PICK i \in 1..n, k \in 1..n : a = stops[i] /\ b = stops[k]
    BY <1>1
  <2>2. QED BY <1>6, <2>1
<1>10. QED BY <1>7, <1>8, <1>9

\* The stops of the one are on the other, in the same order.
Inside(list, longer) ==
  /\ ToSet(list) \in SUBSET ToSet(longer)
  /\ \A a, b \in ToSet(list) : InTurn(list, a, b) <=> InTurn(longer, a, b)

\* The stops and their order determine a list.
LEMMA SameList ==
  ASSUME NEW list, ListOK(list), NEW other, ListOK(other), Inside(list, other), ToSet(list) = ToSet(other)
  PROVE  list = other
<1>1. /\ list \in Seq(Stops) /\ Len(list) \in Nat /\ DOMAIN list = 1..Len(list)
      /\ \A i \in 1..Len(list) : list[i] \in ToSet(list)
      /\ \A i, k \in 1..Len(list) : list[i] = list[k] => i = k
      /\ \A x \in ToSet(list) : \E i \in 1..Len(list) : x = list[i]
      /\ \A i, k \in 1..Len(list) : InTurn(list, list[i], list[k]) <=> i <= k
  BY ListParts, TurnsOf
<1>2. /\ other \in Seq(Stops) /\ Len(other) \in Nat /\ DOMAIN other = 1..Len(other)
      /\ \A i \in 1..Len(other) : other[i] \in ToSet(list)
      /\ \A i, k \in 1..Len(other) : other[i] = other[k] => i = k
      /\ \A x \in ToSet(list) : \E i \in 1..Len(other) : x = other[i]
      /\ \A i, k \in 1..Len(other) : InTurn(list, other[i], other[k]) <=> i <= k
  <2>1. /\ other \in Seq(Stops) /\ Len(other) \in Nat /\ DOMAIN other = 1..Len(other)
        /\ \A i \in 1..Len(other) : other[i] \in ToSet(other)
        /\ \A i, k \in 1..Len(other) : other[i] = other[k] => i = k
        /\ \A x \in ToSet(other) : \E i \in 1..Len(other) : x = other[i]
        /\ \A i, k \in 1..Len(other) : InTurn(other, other[i], other[k]) <=> i <= k
    BY ListParts, TurnsOf
  <2>2. QED BY <2>1 DEF Inside
<1> DEFINE Same(i) == i \in 1..Len(list) /\ i \in 1..Len(other) /\ list[i] = other[i]
           Bad == {i \in Nat : i # 0 /\ (i <= Len(list) \/ i <= Len(other)) /\ ~ Same(i)}
<1>3. Bad = {}
  <2> SUFFICES ASSUME Bad # {} PROVE FALSE
    OBVIOUS
  <2>1. PICK i \in Bad : \A k \in Bad : i <= k
    BY LeastNumber
  <2>2. \A k \in 1..Len(list) : k < i => k \in 1..Len(other) /\ list[k] = other[k]
    BY <1>1, <1>2, <2>1
  <2>3. \A k \in 1..Len(other) : k < i => k \in 1..Len(list) /\ list[k] = other[k]
    BY <1>1, <1>2, <2>1
  <2>4. CASE i \in 1..Len(list)
    <3>1. PICK k \in 1..Len(other) : list[i] = other[k]
      BY <1>1, <1>2, <2>4
    <3>2. ~ (k < i)
      BY <1>1, <2>3, <2>4, <3>1
    <3>3. i \in 1..Len(other)
      BY <1>1, <1>2, <2>4, <3>2
    <3>4. i # k
      BY <2>1, <2>4, <3>1, <3>3
    <3>5. i < k
      BY <2>4, <3>2, <3>4
    <3>6. PICK m \in 1..Len(list) : other[i] = list[m]
      BY <1>1, <1>2, <3>3
    <3>7. ~ (m < i)
      <4>1. m < i => m \in 1..Len(other) /\ other[m] = other[i]
        BY <2>2, <3>6
      <4>2. m < i => m = i
        BY <1>2, <3>3, <4>1
      <4>3. QED BY <2>4, <4>2
    <3>8. m # i
      BY <2>1, <2>4, <3>3, <3>6
    <3>9. ~ (m <= i)
      BY <2>4, <3>7, <3>8
    <3>10. ~ InTurn(list, other[i], other[k])
      BY <1>1, <2>4, <3>1, <3>6, <3>9
    <3>11. InTurn(list, other[i], other[k])
      BY <1>2, <3>3, <3>5
    <3>12. QED BY <3>10, <3>11
  <2>5. CASE i \notin 1..Len(list)
    <3>1. i \in 1..Len(other)
      BY <1>1, <1>2, <2>1, <2>5
    <3>2. PICK k \in 1..Len(list) : other[i] = list[k]
      BY <1>1, <1>2, <3>1
    <3>3. k < i
      BY <1>1, <2>5, <3>1, <3>2
    <3>4. k \in 1..Len(other) /\ other[k] = other[i]
      BY <2>2, <3>2, <3>3
    <3>5. k = i
      BY <1>2, <3>1, <3>4
    <3>6. QED BY <3>1, <3>3, <3>5
  <2>6. QED BY <2>4, <2>5
<1>4. Len(list) = Len(other)
  <2>1. Len(list) # 0 => Len(list) \in 1..Len(other)
    <3>1. Len(list) \notin Bad
      BY <1>3
    <3>2. QED BY <1>1, <3>1
  <2>2. Len(other) # 0 => Len(other) \in 1..Len(list)
    <3>1. Len(other) \notin Bad
      BY <1>3
    <3>2. QED BY <1>2, <3>1
  <2>3. PICK m \in Nat, n \in Nat : m = Len(list) /\ n = Len(other)
    BY <1>1, <1>2
  <2>4. (m # 0 => m \in 1..n) /\ (n # 0 => n \in 1..m)
    BY <2>1, <2>2, <2>3
  <2>5. m = n
    BY <2>3, <2>4
  <2>6. QED BY <2>3, <2>5
<1>5. \A i \in 1..Len(list) : list[i] = other[i]
  <2>1. \A i \in 1..Len(list) : i \notin Bad /\ i \in Nat /\ i # 0 /\ i <= Len(list)
    BY <1>1, <1>3
  <2>2. QED BY <2>1
<1>6. QED BY <1>1, <1>2, <1>4, <1>5, SeqEqual

LEMMA Detour == \A a, b, c \in Nat : c <= a + b => a + b - c \in Nat
OBVIOUS

\* No detour is shorter: an increment of insertionCostDelta is not negative.
LEMMA DeltaIsNat ==
  ASSUME InputOK, NEW stops, ListOK(stops), NEW pos \in 0..Len(stops), NEW s \in Stops
  PROVE  Delta(stops, pos, s) \in Nat
<1>1. Len(stops) \in Nat /\ \A k \in 0..Len(stops) : At(stops, k) \in Places
  BY RouteParts DEF ListOK
<1>2. PICK p \in Places, q \in Places : p = At(stops, pos) /\ q = place[s]
  BY <1>1 DEF InputOK
<1>3. Distance[p, q] \in Nat
  BY DistanceIsNat
<1>4. CASE pos = Len(stops)
  BY <1>2, <1>3, <1>4 DEF Delta
<1>5. CASE pos # Len(stops)
  <2>1. PICK r \in Places : r = At(stops, pos + 1)
    BY <1>1, <1>5
  <2>2. Distance[q, r] \in Nat /\ Distance[p, r] \in Nat
    BY DistanceIsNat
  <2>3. Distance[p, r] <= Distance[p, q] + Distance[q, r]
    BY SolverConstants
  <2>4. Delta(stops, pos, s) = Distance[p, q] + Distance[q, r] - Distance[p, r]
    BY <1>2, <1>5, <2>1 DEF Delta
  <2>5. PICK a \in Nat, b \in Nat, c \in Nat : a = Distance[p, q] /\ b = Distance[q, r] /\ c = Distance[p, r]
    BY <1>3, <2>2
  <2>6. c <= a + b
    BY <2>3, <2>5
  <2>7. Delta(stops, pos, s) = a + b - c
    BY <2>4, <2>5
  <2>8. a + b - c \in Nat
    BY <2>5, <2>6, Detour
  <2>9. QED BY <2>7, <2>8
<1>6. QED BY <1>4, <1>5

\* A list less one of its stops.
LEMMA Shortened ==
  ASSUME NEW longer, ListOK(longer), NEW p \in 1..Len(longer)
  PROVE  \E stops : /\ ListOK(stops) /\ Len(stops) = Len(longer) - 1
                    /\ longer[p] \notin ToSet(stops) /\ ToSet(longer) = ToSet(stops) \cup {longer[p]}
                    /\ \E pos \in 0..Len(stops) : Longer(longer, stops, pos, longer[p])
<1> DEFINE n == Len(longer)
           s == longer[p]
           from(k) == IF k < p THEN k ELSE k + 1
           stops == [k \in 1..n - 1 |-> longer[from(k)]]
<1>1. /\ n \in Nat /\ DOMAIN longer = 1..n
      /\ \A i \in 1..n : longer[i] \in Stops
      /\ \A i, k \in 1..n : longer[i] = longer[k] => i = k
  BY ListParts
<1>2. n - 1 \in Nat /\ p - 1 \in 0..n - 1 /\ (n - 1) + 1 = n /\ (p - 1) + 1 = p
  BY <1>1
<1>3. \A k \in 1..n - 1 : from(k) \in 1..n /\ from(k) # p
  BY <1>1
<1>4. \A i, k \in 1..n - 1 : from(i) = from(k) => i = k
  BY <1>1
<1>5. \A k \in 1..n : /\ k < p => k \in 1..n - 1 /\ from(k) = k
                      /\ k > p => k - 1 \in 1..n - 1 /\ from(k - 1) = k
  BY <1>1
<1>6. \A k \in 1..n - 1 : stops[k] = longer[from(k)]
  OBVIOUS
<1> HIDE DEF from
<1>7. stops \in Seq(Stops) /\ Len(stops) = n - 1 /\ DOMAIN stops = 1..n - 1
  <2>1. \A k \in 1..n - 1 : longer[from(k)] \in Stops
    BY <1>1, <1>3
  <2>2. stops \in [1..n - 1 -> Stops]
    BY <2>1
  <2> HIDE DEF stops, n
  <2>3. QED BY <1>2, <2>2
<1> HIDE DEF stops
<1>8. IsInjective(stops)
  <2>1. ASSUME NEW i \in 1..n - 1, NEW k \in 1..n - 1, stops[i] = stops[k] PROVE i = k
    <3>1. from(i) = from(k)
      BY <1>1, <1>3, <1>6, <2>1
    <3>2. QED BY <1>4, <3>1
  <2>2. QED BY <1>7, <2>1 DEF IsInjective
<1>9. s \notin ToSet(stops)
  <2>1. \A k \in 1..n - 1 : stops[k] # s
    BY <1>1, <1>3, <1>6
  <2>2. QED BY <1>7, <2>1 DEF ToSet
<1>10. Longer(longer, stops, p - 1, s)
  <2>1. ASSUME NEW k \in 1..n
        PROVE  longer[k] = IF k <= p - 1 THEN stops[k] ELSE IF k = (p - 1) + 1 THEN s ELSE stops[k - 1]
    <3>1. CASE k < p
      <4>1. k <= p - 1 /\ stops[k] = longer[k]
        BY <1>1, <1>5, <1>6, <3>1
      <4>2. QED BY <4>1
    <3>2. CASE k = p
      <4>1. ~ (k <= p - 1) /\ k = (p - 1) + 1
        BY <1>1, <3>2
      <4>2. QED BY <3>2, <4>1
    <3>3. CASE k > p
      <4>1. ~ (k <= p - 1) /\ k # (p - 1) + 1 /\ stops[k - 1] = longer[k]
        BY <1>1, <1>5, <1>6, <3>3
      <4>2. QED BY <4>1
    <3>4. QED BY <1>1, <3>1, <3>2, <3>3
  <2>2. QED BY <1>1, <1>2, <1>7, <2>1 DEF Longer
<1>11. ToSet(longer) = ToSet(stops) \cup {s}
  <2>1. /\ Len(stops) \in Nat /\ DOMAIN stops = 1..Len(stops) /\ p - 1 \in 0..Len(stops)
    BY <1>2, <1>7
  <2>2. QED BY <1>10, <2>1, LongerStops
<1>12. QED BY <1>2, <1>7, <1>8, <1>9, <1>10, <1>11 DEF ListOK

\* A part of a route is no longer than the route, and carries no more: the stops that it does not have
\* can be taken out one by one.
LEMMA InsideIsShorter ==
  ASSUME InputOK, NEW list, ListOK(list), NEW longer, ListOK(longer), Inside(list, longer)
  PROVE  Length(list) <= Length(longer) /\ Load(list) <= Load(longer)
<1> DEFINE NoMore(m) == Length(list) <= Length(m) /\ Load(list) <= Load(m)
           Counter(m, n) == ListOK(m) /\ Len(m) = n /\ Inside(list, m) /\ ~ NoMore(m)
           Bad == {n \in Nat : \E m : Counter(m, n)}
<1>1. Bad = {}
  <2> SUFFICES ASSUME Bad # {} PROVE FALSE
    OBVIOUS
  <2>1. PICK n \in Bad : \A k \in Bad : n <= k
    <3> HIDE DEF Counter
    <3>1. QED BY LeastNumber
  <2>2. PICK m : Counter(m, n)
    BY <2>1
  <2>3. n \in Nat /\ n = Len(m) /\ ListOK(m) /\ Inside(list, m) /\ ~ NoMore(m)
    BY <2>1, <2>2
  <2>4. Length(m) \in Nat /\ Load(m) \in Nat
    BY <2>3, LengthIsNat DEF ListOK
  <2>5. CASE ToSet(list) = ToSet(m)
    <3>1. list = m
      BY <2>3, <2>5, SameList
    <3>2. QED BY <2>3, <2>4, <3>1
  <2>6. CASE ToSet(list) # ToSet(m)
    <3>1. PICK x \in ToSet(m) : x \notin ToSet(list)
      BY <2>3, <2>6 DEF Inside
    <3>2. PICK p \in 1..Len(m) : x = m[p]
      BY <2>3, <3>1, ListParts
    <3>3. PICK stops : /\ ListOK(stops) /\ Len(stops) = Len(m) - 1
                       /\ x \notin ToSet(stops) /\ ToSet(m) = ToSet(stops) \cup {x}
                       /\ \E pos \in 0..Len(stops) : Longer(m, stops, pos, x)
      BY <2>3, <3>2, Shortened
    <3>0. PICK pos \in 0..Len(stops) : Longer(m, stops, pos, x)
      BY <3>3
    <3>4. \A a, b \in ToSet(stops) : InTurn(m, a, b) <=> InTurn(stops, a, b)
      BY <2>3, <3>0, <3>3, LongerTurns
    <3>5. Inside(list, stops)
      <4>1. ToSet(list) \in SUBSET ToSet(stops)
        BY <2>3, <3>1, <3>3 DEF Inside
      <4>2. \A a, b \in ToSet(list) : InTurn(list, a, b) <=> InTurn(m, a, b)
        BY <2>3 DEF Inside
      <4>3. QED BY <3>4, <4>1, <4>2 DEF Inside
    <3>6. NoMore(stops)
      <4>1. Len(stops) \in Nat /\ Len(stops) < n
        BY <2>3, <3>3, ListParts
      <4>2. Len(stops) \notin Bad
        BY <2>1, <2>3, <4>1
      <4>3. ~ Counter(stops, Len(stops))
        BY <4>1, <4>2
      <4> HIDE DEF NoMore
      <4>4. QED BY <3>3, <3>5, <4>3
    <3>7. x \in Stops /\ demand[x] \in Nat
      BY <2>3, <3>2, ListParts DEF InputOK
    <3>8. Length(m) = Length(stops) + Delta(stops, pos, x) /\ Load(m) = Load(stops) + demand[x]
      <4>1. stops \in Seq(Stops) /\ m \in Seq(Stops)
        BY <2>3, <3>3 DEF ListOK
      <4>2. x \in Stops
        BY <3>7
      <4> HIDE DEF NoMore
      <4>3. QED BY <3>0, <4>1, <4>2, LongerRoute
    <3>9. Delta(stops, pos, x) \in Nat
      BY <3>0, <3>3, <3>7, DeltaIsNat
    <3>10. Length(stops) \in Nat /\ Load(stops) \in Nat /\ Length(list) \in Nat /\ Load(list) \in Nat
      BY <3>3, LengthIsNat DEF ListOK
    <3>11. PICK d \in Nat, e \in Nat : d = Delta(stops, pos, x) /\ e = demand[x]
      BY <3>7, <3>9
    <3>12. Length(m) = Length(stops) + d /\ Load(m) = Load(stops) + e
      BY <3>8, <3>11
    <3>13. NoMore(m)
      <4>1. Length(list) <= Length(stops) /\ Load(list) <= Load(stops)
        BY <3>6
      <4>2. PICK short \in Nat, long \in Nat, light \in Nat, heavy \in Nat :
              /\ short = Length(list) /\ long = Length(stops)
              /\ light = Load(list) /\ heavy = Load(stops)
        BY <3>10
      <4>3. short <= long + d /\ light <= heavy + e
        BY <4>1, <4>2
      <4>4. QED BY <3>12, <4>2, <4>3
    <3>14. QED BY <2>3, <3>13
  <2>7. QED BY <2>5, <2>6
<1>2. ~ Counter(longer, Len(longer))
  <2>1. Len(longer) \in Nat
    BY ListParts
  <2> HIDE DEF Counter
  <2>2. QED BY <1>1, <2>1
<1> HIDE DEF NoMore
<1>3. NoMore(longer)
  BY <1>2
<1>4. QED BY <1>3 DEF NoMore

-----------------------------------------------------------------------------
(* Plans, and nodes that can become one *)

\* Lists that have no stop in common.
Apart(lists) ==
  /\ \A i \in DOMAIN lists : ListOK(lists[i])
  /\ \A i, k \in DOMAIN lists : i # k => ToSet(lists[i]) \cap ToSet(lists[k]) = {}

\* The list that has a stop decides what comes before it and after it.
LEMMA TurnOfOne ==
  ASSUME NEW lists, Apart(lists), NEW i \in DOMAIN lists, NEW a \in ToSet(lists[i]), NEW b
  PROVE  /\ SomeInTurn(lists, a, b) <=> InTurn(lists[i], a, b)
         /\ SomeInTurn(lists, b, a) <=> InTurn(lists[i], b, a)
<1>1. ASSUME NEW k \in DOMAIN lists, InTurn(lists[k], a, b) \/ InTurn(lists[k], b, a)
      PROVE  k = i
  <2>1. a \in ToSet(lists[k])
    BY <1>1, TurnsOf DEF Apart
  <2>2. QED BY <2>1 DEF Apart
<1>2. QED BY <1>1 DEF SomeInTurn

\* The lists are what a plan has without the stops from n on, each on the vehicle that at says.
Laid(lists, n, f, at) ==
  /\ \A i \in DOMAIN lists : /\ at[i] \in DOMAIN f /\ Inside(lists[i], f[at[i]])
                             /\ ToSet(lists[i]) = ToSet(f[at[i]]) \cap (1..n - 1)
  /\ \A s \in 1..n - 1 : \E i \in DOMAIN lists : s \in ToSet(lists[i])

SameTurns(lists, n, f) ==
  \A a, b \in 1..n - 1 : SomeInTurn(lists, a, b) <=> SomeInTurn(f, a, b)

LEMMA LaidHasSameTurns ==
  ASSUME NEW lists, Apart(lists), NEW f, Apart(f), NEW n, NEW at, Laid(lists, n, f, at)
  PROVE  SameTurns(lists, n, f)
<1>1. ASSUME NEW a \in 1..n - 1, NEW b \in 1..n - 1
      PROVE  SomeInTurn(lists, a, b) <=> SomeInTurn(f, a, b)
  <2>1. PICK i \in DOMAIN lists : a \in ToSet(lists[i])
    BY DEF Laid
  <2>2. PICK list, longer : list = lists[i] /\ longer = f[at[i]]
    OBVIOUS
  <2>3. /\ at[i] \in DOMAIN f /\ ListOK(list) /\ ListOK(longer)
        /\ Inside(list, longer) /\ ToSet(list) = ToSet(longer) \cap (1..n - 1)
    BY <2>2 DEF Laid, Apart
  <2>4. a \in ToSet(list) /\ a \in ToSet(longer)
    BY <2>1, <2>2, <2>3
  <2>5. SomeInTurn(lists, a, b) <=> InTurn(list, a, b)
    BY <2>1, <2>2, TurnOfOne
  <2>6. SomeInTurn(f, a, b) <=> InTurn(longer, a, b)
    BY <2>2, <2>3, <2>4, TurnOfOne
  <2>7. CASE b \in ToSet(list)
    BY <2>3, <2>4, <2>5, <2>6, <2>7 DEF Inside
  <2>8. CASE b \notin ToSet(list)
    <3>1. ~ InTurn(list, a, b)
      BY <2>3, <2>8, TurnsOf
    <3>2. ~ InTurn(longer, a, b)
      BY <2>3, <2>8, TurnsOf
    <3>3. QED BY <2>5, <2>6, <3>1, <3>2
  <2>9. QED BY <2>7, <2>8
<1>2. QED BY <1>1 DEF SameTurns

\* Lists that have stops.
Filled(lists, n) ==
  /\ \A i \in DOMAIN lists : lists[i] # <<>> /\ ToSet(lists[i]) \in SUBSET (1..n - 1)
  /\ \A s \in 1..n - 1 : \E i \in DOMAIN lists : s \in ToSet(lists[i])

LEMMA FirstStop ==
  ASSUME NEW list, ListOK(list), list # <<>>
  PROVE  \E a \in ToSet(list) : TRUE
<1>1. list \in Seq(Stops) /\ Len(list) \in Nat /\ Len(list) # 0 /\ \A i \in 1..Len(list) : list[i] \in ToSet(list)
  BY ListParts, EmptySeq
<1>2. QED BY <1>1

LEMMA SameTurnsLaid ==
  ASSUME NEW lists, Apart(lists), NEW f, Apart(f), NEW n, Filled(lists, n), SameTurns(lists, n, f)
  PROVE  \E at : /\ Laid(lists, n, f, at)
                 /\ \A i, k \in DOMAIN lists : at[i] = at[k] => i = k
<1> DEFINE On(i, v) == /\ v \in DOMAIN f /\ Inside(lists[i], f[v])
                       /\ ToSet(lists[i]) = ToSet(f[v]) \cap (1..n - 1)
<1>1. ASSUME NEW i \in DOMAIN lists PROVE \E v : On(i, v)
  <2>1. PICK list : list = lists[i]
    OBVIOUS
  <2>2. ListOK(list) /\ list # <<>> /\ ToSet(list) \in SUBSET (1..n - 1)
    BY <2>1 DEF Apart, Filled
  <2>3. PICK a \in ToSet(list) : TRUE
    BY <2>2, FirstStop
  <2>4. \A x, y \in ToSet(list) : SomeInTurn(f, x, y) <=> InTurn(list, x, y)
    <3>1. ASSUME NEW x \in ToSet(list), NEW y \in ToSet(list)
          PROVE  SomeInTurn(f, x, y) <=> InTurn(list, x, y)
      <4>1. SomeInTurn(lists, x, y) <=> InTurn(list, x, y)
        BY <2>1, TurnOfOne
      <4>2. QED BY <2>2, <4>1 DEF SameTurns
    <3>2. QED BY <3>1
  <2>5. PICK v \in DOMAIN f : InTurn(f[v], a, a)
    <3>1. SomeInTurn(f, a, a)
      BY <2>2, <2>4, TurnsOf
    <3>2. QED BY <3>1 DEF SomeInTurn
  <2>6. PICK longer : longer = f[v]
    OBVIOUS
  <2>7. ListOK(longer) /\ a \in ToSet(longer)
    BY <2>5, <2>6, TurnsOf DEF Apart
  <2>8. ASSUME NEW b \in ToSet(list) PROVE b \in ToSet(longer)
    <3>1. InTurn(list, a, b) \/ InTurn(list, b, a)
      BY <2>2, TurnsOf
    <3>2. SomeInTurn(f, a, b) \/ SomeInTurn(f, b, a)
      BY <2>4, <3>1
    <3>3. InTurn(longer, a, b) \/ InTurn(longer, b, a)
      BY <2>6, <2>7, <3>2, TurnOfOne
    <3>4. QED BY <2>7, <3>3, TurnsOf
  <2>9. Inside(list, longer)
    <3>1. ASSUME NEW x \in ToSet(list), NEW y \in ToSet(list)
          PROVE  InTurn(list, x, y) <=> InTurn(longer, x, y)
      <4>1. SomeInTurn(f, x, y) <=> InTurn(longer, x, y)
        BY <2>6, <2>8, TurnOfOne
      <4>2. QED BY <2>4, <4>1
    <3>2. QED BY <2>8, <3>1 DEF Inside
  <2>10. ASSUME NEW s \in 1..n - 1, s \in ToSet(longer) PROVE s \in ToSet(list)
    <3>1. InTurn(longer, a, s) \/ InTurn(longer, s, a)
      BY <2>7, <2>10, TurnsOf
    <3>2. SomeInTurn(f, a, s) \/ SomeInTurn(f, s, a)
      BY <2>6, <3>1 DEF SomeInTurn
    <3>3. SomeInTurn(lists, a, s) \/ SomeInTurn(lists, s, a)
      BY <2>2, <3>2 DEF SameTurns
    <3>4. InTurn(list, a, s) \/ InTurn(list, s, a)
      BY <2>1, <3>3, TurnOfOne
    <3>5. QED BY <2>2, <3>4, TurnsOf
  <2>11. ToSet(list) = ToSet(longer) \cap (1..n - 1)
    BY <2>2, <2>8, <2>10
  <2>12. QED BY <2>1, <2>6, <2>9, <2>11
<1> DEFINE at == [i \in DOMAIN lists |-> CHOOSE v : On(i, v)]
<1>2. \A i \in DOMAIN lists : On(i, at[i])
  <2> HIDE DEF On
  <2>1. QED BY <1>1
<1> HIDE DEF at
<1>3. Laid(lists, n, f, at)
  BY <1>2 DEF Laid, Filled
<1>4. ASSUME NEW i \in DOMAIN lists, NEW k \in DOMAIN lists, at[i] = at[k] PROVE i = k
  <2>1. ToSet(lists[i]) = ToSet(lists[k])
    BY <1>2, <1>4
  <2>2. PICK a \in ToSet(lists[i]) : TRUE
    BY FirstStop DEF Apart, Filled
  <2>3. QED BY <2>1, <2>2 DEF Apart
<1>5. QED BY <1>3, <1>4

\* A plan serves every stop, within the capacities.
PlanOK(f) ==
  /\ DOMAIN f = Vehicles /\ Apart(f)
  /\ \A v \in Vehicles : Load(f[v]) <= capacity[v]
  /\ \A s \in Stops : \E v \in Vehicles : s \in ToSet(f[v])

LEMMA PlanIs ==
  ASSUME InputOK, NEW f \in Plans
  PROVE  PlanOK(f)
<1> DEFINE n == Len(place)
           orders == {<<>>} \cup UNION {SetToSeqs(s) : s \in SUBSET (1..n)}
<1>1. /\ f \in [Vehicles -> orders]
      /\ UNION {ToSet(f[v]) : v \in Vehicles} = 1..n
      /\ \A v, w \in Vehicles : v # w => ToSet(f[v]) \cap ToSet(f[w]) = {}
      /\ \A v \in Vehicles : Load(f[v]) <= capacity[v]
  BY DEF Plans, Partitions, Within
<1>2. n \in Nat /\ Stops = 1..n
  BY DEF InputOK
<1>3. ASSUME NEW list \in orders PROVE ListOK(list)
  <2>1. CASE list = <<>>
    <3>1. <<>> \in Seq(Stops) /\ IsInjective(<<>>)
      BY DEF IsInjective
    <3>2. QED BY <2>1, <3>1 DEF ListOK
  <2>2. CASE list # <<>>
    <3>1. PICK s \in SUBSET (1..n) : list \in SetToSeqs(s)
      BY <2>2
    <3>2. /\ list \in [1..Cardinality(s) -> s]
          /\ \A i, j \in 1..Cardinality(s) : i # j => list[i] # list[j]
      BY <3>1 DEF SetToSeqs
    <3>3. Cardinality(s) \in Nat
      <4>1. IsFiniteSet(1..n)
        BY <1>2, FS_Interval
      <4>2. IsFiniteSet(s)
        BY <4>1, FS_Subset
      <4>3. QED BY <4>2, FS_CardinalityType
    <3>4. list \in [1..Cardinality(s) -> Stops]
      BY <1>2, <3>2
    <3>5. list \in Seq(Stops)
      BY <3>3, <3>4
    <3>6. IsInjective(list)
      BY <3>2 DEF IsInjective
    <3>7. QED BY <3>5, <3>6 DEF ListOK
  <2>3. QED BY <2>1, <2>2
<1> HIDE DEF orders
<1>4. \A v \in Vehicles : ListOK(f[v])
  BY <1>1, <1>3
<1>5. DOMAIN f = Vehicles
  BY <1>1
<1>6. \A s \in Stops : \E v \in Vehicles : s \in ToSet(f[v])
  BY <1>1, <1>2
<1>7. QED BY <1>1, <1>4, <1>5, <1>6 DEF PlanOK, Apart

PlanLengths(f) == [v \in Vehicles |-> Length(f[v])]

LEMMA CostOfIs ==
  ASSUME NEW f
  PROVE  CostOf(f) = SumOver(PlanLengths(f), Vehicles)
BY DEF CostOf, MapThenSumSet, MapThenFoldSet, SumOver, IsSum, Picked, PlanLengths

\* The lists of stops of a node.
LEMMA NodeLists ==
  ASSUME InputOK, NEW node \in Nodes
  PROVE  /\ DOMAIN StopsOf(node) = DOMAIN node.routes
         /\ \A i \in DOMAIN node.routes : StopsOf(node)[i] = node.routes[i].stops
         /\ Apart(StopsOf(node))
         /\ \A i \in DOMAIN node.routes : ToSet(StopsOf(node)[i]) \in SUBSET (1..node.next - 1)
         /\ \A s \in 1..node.next - 1 : \E i \in DOMAIN node.routes : s \in ToSet(StopsOf(node)[i])
<1>1. /\ DOMAIN StopsOf(node) = DOMAIN node.routes
      /\ \A i \in DOMAIN node.routes : StopsOf(node)[i] = node.routes[i].stops
  BY DEF StopsOf
<1>2. RoutesOK(node.routes) /\ Served(node.routes) = 1..node.next - 1
  BY NodeFields
<1>3. \A i \in DOMAIN node.routes : ListOK(node.routes[i].stops)
  <2>1. PICK routes : routes = node.routes
    OBVIOUS
  <2>2. \A i \in DOMAIN routes : ListOK(routes[i].stops)
    BY <1>2, <2>1, RoomIs DEF ListOK
  <2>3. QED BY <2>1, <2>2
<1>4. \A i, k \in DOMAIN node.routes : i # k => ToSet(node.routes[i].stops) \cap ToSet(node.routes[k].stops) = {}
  BY <1>2 DEF RoutesOK, Drivable
<1>5. \A s : s \in 1..node.next - 1 <=> \E i \in DOMAIN node.routes : s \in ToSet(node.routes[i].stops)
  BY <1>2, ServedIs
<1>6. QED BY <1>1, <1>3, <1>4, <1>5 DEF Apart

\* Every route of a node has a stop.
Busy(node) == \A i \in DOMAIN node.routes : node.routes[i].stops # <<>>

LEMMA NodeLaid ==
  ASSUME InputOK, NEW node \in Nodes, Busy(node), NEW f, PlanOK(f), Leads(node, f)
  PROVE  \E at : /\ Laid(StopsOf(node), node.next, f, at)
                 /\ \A i, k \in DOMAIN node.routes : at[i] = at[k] => i = k
<1>1. /\ DOMAIN StopsOf(node) = DOMAIN node.routes /\ Apart(StopsOf(node))
      /\ \A i \in DOMAIN node.routes : StopsOf(node)[i] = node.routes[i].stops
  BY NodeLists
<1>2. Filled(StopsOf(node), node.next)
  BY <1>1, NodeLists DEF Filled, Busy
<1>3. SameTurns(StopsOf(node), node.next, f) /\ Apart(f)
  BY DEF Leads, SameTurns, PlanOK
<1>4. QED BY <1>1, <1>2, <1>3, SameTurnsLaid

\* What a node leads to costs at least what the node costs: its routes are parts of different routes.
LEMMA LeadsCostsMore ==
  ASSUME InputOK, NEW node \in Nodes, Busy(node), NEW f, PlanOK(f), Leads(node, f)
  PROVE  node.cost \in Nat /\ CostOf(f) \in Nat /\ node.cost <= CostOf(f)
<1> DEFINE D == DOMAIN node.routes
           w == PlanLengths(f)
           c == Lengths(node.routes)
<1>1. PICK at : /\ Laid(StopsOf(node), node.next, f, at)
                /\ \A i, k \in D : at[i] = at[k] => i = k
  BY NodeLaid
<1>2. /\ DOMAIN f = Vehicles /\ \A v \in Vehicles : ListOK(f[v])
  BY DEF PlanOK, Apart
<1>3. /\ DOMAIN StopsOf(node) = D /\ Apart(StopsOf(node))
      /\ \A i \in D : StopsOf(node)[i] = node.routes[i].stops
  BY NodeLists
<1>4. IsFiniteSet(Vehicles) /\ \A v \in Vehicles : w[v] \in Nat
  <2>1. IsFiniteSet(Vehicles)
    BY FS_Interval DEF InputOK
  <2>2. \A v \in Vehicles : w[v] = Length(f[v]) /\ Length(f[v]) \in Nat
    BY <1>2, LengthIsNat DEF PlanLengths, ListOK
  <2>3. QED BY <2>1, <2>2
<1>5. IsFiniteSet(D) /\ (\A i \in D : c[i] \in Nat) /\ node.cost = SumOver(c, D) /\ node.cost \in Nat
  <2>1. node.routes \in Seq(Route) /\ node.cost = Cost(node.routes) /\ node.cost \in Nat
    BY NodeFields
  <2>2. QED BY <2>1, CostIs, CostIsNat
<1>6. \A i \in D : at[i] \in Vehicles /\ c[i] <= w[at[i]]
  <2>1. ASSUME NEW i \in D PROVE at[i] \in Vehicles /\ c[i] <= w[at[i]]
    <3>1. at[i] \in Vehicles /\ Inside(StopsOf(node)[i], f[at[i]])
      BY <1>1, <1>2, <1>3 DEF Laid
    <3>2. ListOK(StopsOf(node)[i]) /\ ListOK(f[at[i]])
      BY <1>2, <1>3, <3>1 DEF Apart
    <3>3. Length(StopsOf(node)[i]) <= Length(f[at[i]])
      BY <3>1, <3>2, InsideIsShorter
    <3>4. c[i] = Length(StopsOf(node)[i])
      BY <1>3 DEF Lengths
    <3>5. w[at[i]] = Length(f[at[i]])
      BY <3>1 DEF PlanLengths
    <3>6. QED BY <3>1, <3>3, <3>4, <3>5
  <2>2. QED BY <2>1
<1>7. CostOf(f) = SumOver(w, Vehicles) /\ CostOf(f) \in Nat
  BY <1>4, CostOfIs, SumIsNat
<1> DEFINE d == [i \in D |-> w[at[i]]]
           T == {at[i] : i \in D}
<1>8. (\A i \in D : d[i] \in Int /\ d[i] = w[at[i]]) /\ (\A i \in D : d[i] \in Nat /\ c[i] <= d[i])
  BY <1>4, <1>6
<1>9. T \in SUBSET Vehicles
  BY <1>6
<1> HIDE DEF D, w, c, d
<1>10. SumOver(c, D) <= SumOver(d, D)
  BY <1>5, <1>8, SumAtMost
<1>11. SumOver(d, D) = SumOver(w, T)
  BY <1>1, <1>5, <1>8, SumRenamed
<1> HIDE DEF T
<1>12. SumOver(w, T) <= SumOver(w, Vehicles)
  BY <1>4, <1>9, SumOfPart
<1>13. SumOver(w, T) \in Nat
  BY <1>4, <1>9, FS_Subset, SumIsNat
<1>14. QED BY <1>5, <1>7, <1>10, <1>11, <1>12, <1>13

\* Where in its route a stop has to go for the order of a plan.
LEMMA PositionOf ==
  ASSUME NEW stops, ListOK(stops), NEW planned, ListOK(planned), Inside(stops, planned), NEW s
  PROVE  \E pos \in 0..Len(stops) : \A j \in 1..Len(stops) : InTurn(planned, stops[j], s) <=> j <= pos
<1> DEFINE n == Len(stops)
           Ends == {p \in 0..n : \A j \in 1..n : j > p => ~ InTurn(planned, stops[j], s)}
<1>1. n \in Nat /\ \A j \in 1..n : stops[j] \in ToSet(stops)
  BY ListParts
<1>2. Ends \in SUBSET Nat /\ n \in Ends
  BY <1>1
<1>3. PICK pos \in Ends : \A p \in Ends : pos <= p
  <2> HIDE DEF Ends
  <2>1. QED BY <1>2, LeastNumber
<1>4. pos \in 0..n /\ \A j \in 1..n : j > pos => ~ InTurn(planned, stops[j], s)
  OBVIOUS
<1>5. ASSUME NEW j \in 1..n, j <= pos PROVE InTurn(planned, stops[j], s)
  <2>1. pos \in 1..n /\ pos - 1 \in 0..n /\ pos - 1 \notin Ends
    <3>1. pos \in 1..n /\ pos - 1 \in 0..n /\ ~ (pos <= pos - 1)
      BY <1>1, <1>4, <1>5
    <3> HIDE DEF Ends
    <3>2. QED BY <1>3, <3>1
  <2>2. PICK i \in 1..n : i > pos - 1 /\ InTurn(planned, stops[i], s)
    BY <2>1
  <2>3. i <= pos
    BY <1>1, <1>4, <2>2
  <2>4. i = pos
    BY <1>1, <2>1, <2>2, <2>3
  <2>5. InTurn(stops, stops[j], stops[pos])
    BY <1>5, <2>1, TurnsOf
  <2>6. InTurn(planned, stops[j], stops[pos])
    BY <1>1, <2>1, <2>5 DEF Inside
  <2>7. QED BY <2>2, <2>4, <2>6, TurnsOf
<1>6. ASSUME NEW j \in 1..n PROVE InTurn(planned, stops[j], s) <=> j <= pos
  <2>1. j > pos \/ j <= pos
    BY <1>1, <1>4
  <2>2. ~ (j > pos /\ j <= pos)
    BY <1>1, <1>4
  <2>3. QED BY <1>4, <1>5, <2>1, <2>2
<1>7. QED BY <1>4, <1>6

\* Put there, it is in that order.
LEMMA InsertedInside ==
  ASSUME NEW stops, ListOK(stops), NEW planned, ListOK(planned), Inside(stops, planned),
         NEW s \in ToSet(planned), s \notin ToSet(stops), NEW pos \in 0..Len(stops),
         \A j \in 1..Len(stops) : InTurn(planned, stops[j], s) <=> j <= pos,
         NEW longer, ListOK(longer), Longer(longer, stops, pos, s), ToSet(longer) = ToSet(stops) \cup {s}
  PROVE  Inside(longer, planned)
<1>1. /\ \A a, b \in ToSet(stops) : InTurn(longer, a, b) <=> InTurn(stops, a, b)
      /\ \A j \in 1..Len(stops) : /\ InTurn(longer, stops[j], s) <=> j <= pos
                                  /\ InTurn(longer, s, stops[j]) <=> pos < j
      /\ InTurn(longer, s, s)
  BY LongerTurns
<1>2. /\ Len(stops) \in Nat
      /\ \A x \in ToSet(stops) : \E j \in 1..Len(stops) : x = stops[j]
      /\ \A j \in 1..Len(stops) : stops[j] \in ToSet(stops)
  BY ListParts
<1>3. ToSet(stops) \in SUBSET ToSet(planned)
      /\ \A a, b \in ToSet(stops) : InTurn(stops, a, b) <=> InTurn(planned, a, b)
  BY DEF Inside
<1>4. ASSUME NEW a \in ToSet(stops)
      PROVE  /\ InTurn(longer, a, s) <=> InTurn(planned, a, s)
             /\ InTurn(longer, s, a) <=> InTurn(planned, s, a)
  <2>1. PICK j \in 1..Len(stops) : a = stops[j]
    BY <1>2
  <2>2. InTurn(planned, a, s) \/ InTurn(planned, s, a)
    BY <1>3, TurnsOf
  <2>3. ~ (InTurn(planned, a, s) /\ InTurn(planned, s, a))
    BY TurnsOf
  <2>4. pos < j <=> ~ (j <= pos)
    BY <1>2
  <2>5. QED BY <1>1, <2>1, <2>2, <2>3, <2>4
<1>5. InTurn(planned, s, s)
  BY TurnsOf
<1>6. ASSUME NEW a \in ToSet(longer), NEW b \in ToSet(longer)
      PROVE  InTurn(longer, a, b) <=> InTurn(planned, a, b)
  <2>1. (a \in ToSet(stops) \/ a = s) /\ (b \in ToSet(stops) \/ b = s)
    OBVIOUS
  <2>2. QED BY <1>1, <1>3, <1>4, <1>5, <2>1
<1>7. ToSet(longer) \in SUBSET ToSet(planned)
  BY <1>3
<1>8. QED BY <1>6, <1>7 DEF Inside

\* A child that is laid on the plan leads to it.
LEMMA LaidLeads ==
  ASSUME InputOK, NEW child \in Nodes, NEW f, PlanOK(f), NEW at, Laid(StopsOf(child), child.next, f, at)
  PROVE  Leads(child, f)
<1>1. Apart(StopsOf(child)) /\ Apart(f)
  BY NodeLists DEF PlanOK
<1>2. SameTurns(StopsOf(child), child.next, f)
  BY <1>1, LaidHasSameTurns
<1>3. QED BY <1>2 DEF SameTurns, Leads

\* Where the plan lays the routes of a node, and the stop that is next.
PlanFor(node, f, at) ==
  /\ PlanOK(f) /\ Laid(StopsOf(node), node.next, f, at)
  /\ \A i, k \in DOMAIN node.routes : at[i] = at[k] => i = k

\* The vehicle of the next stop has a route: the stop fits where the plan has it.
LEMMA InsertedLeads ==
  ASSUME InputOK, EqualFleet, NEW node \in Nodes, ~ Complete(node), NEW f, NEW at, PlanFor(node, f, at),
         NEW i \in DOMAIN node.routes, node.next \in ToSet(f[at[i]])
  PROVE  \E p \in Placements(node) : Leads(Child(node, p), f)
<1> DEFINE s == node.next
<1>1. PICK stops, planned, v : stops = node.routes[i].stops /\ planned = f[at[i]] /\ v = at[i]
  OBVIOUS
<1>2. PICK lists : lists = StopsOf(node)
  OBVIOUS
<1>3. /\ PlanOK(f) /\ Laid(lists, s, f, at)
      /\ \A m, k \in DOMAIN node.routes : at[m] = at[k] => m = k
  BY <1>2 DEF PlanFor
<1>4. /\ DOMAIN lists = DOMAIN node.routes /\ Apart(lists) /\ lists[i] = stops
      /\ \A m \in DOMAIN node.routes : ToSet(lists[m]) \in SUBSET (1..s - 1)
      /\ \A x \in 1..s - 1 : \E m \in DOMAIN node.routes : x \in ToSet(lists[m])
  BY <1>1, <1>2, NodeLists
<1>5. /\ v \in Vehicles /\ DOMAIN f = Vehicles /\ ListOK(stops) /\ ListOK(planned) /\ Inside(stops, planned)
      /\ ToSet(stops) = ToSet(planned) \cap (1..s - 1)
  BY <1>1, <1>3, <1>4 DEF Laid, PlanOK, Apart
<1>6. s \in Stops /\ s \in ToSet(planned) /\ s \notin 1..s - 1 /\ s \notin ToSet(stops) /\ s \in Nat /\ s # 0
  <2>1. s \in Stops /\ s \in Nat /\ s # 0
    BY NextIsUnserved DEF InputOK
  <2>2. s \notin 1..s - 1
    BY <2>1
  <2>3. QED BY <1>1, <1>5, <2>1, <2>2
<1>7. PICK pos \in 0..Len(stops) : \A j \in 1..Len(stops) : InTurn(planned, stops[j], s) <=> j <= pos
  BY <1>5, PositionOf
<1>8. PICK longer : longer = InsertAt(stops, pos + 1, s)
  OBVIOUS
<1>9. longer \in Seq(Stops) /\ Longer(longer, stops, pos, s)
  BY <1>5, <1>6, <1>8, InsertAtIsLonger DEF ListOK
<1>10. ToSet(longer) = ToSet(stops) \cup {s} /\ ListOK(longer)
  <2>1. Len(stops) \in Nat /\ DOMAIN stops = 1..Len(stops) /\ IsInjective(stops)
    BY <1>5, ListParts DEF ListOK
  <2>2. /\ ToSet(longer) = ToSet(stops) \cup {s}
        /\ IsInjective(stops) /\ s \notin ToSet(stops) => IsInjective(longer)
    BY <1>9, <2>1, LongerStops
  <2>3. QED BY <1>6, <1>9, <2>1, <2>2 DEF ListOK
<1> HIDE DEF s
<1>11. Inside(longer, planned)
  BY <1>5, <1>6, <1>7, <1>9, <1>10, InsertedInside
<1>12. HasRoom(node, i)
  <2>1. Load(longer) <= Load(planned)
    BY <1>5, <1>10, <1>11, InsideIsShorter
  <2>2. Load(longer) = Load(stops) + demand[s]
    BY <1>5, <1>6, <1>9, LongerRoute DEF ListOK
  <2>3. Load(planned) <= capacity[v]
    BY <1>1, <1>3, <1>5 DEF PlanOK
  <2>4. PICK routes : routes = node.routes
    OBVIOUS
  <2>5. RoutesOK(routes) /\ i \in DOMAIN routes
    BY <2>4, NodeFields
  <2>6. /\ routes[i].vehicle \in Vehicles /\ Load(stops) \in Nat
        /\ routes[i].room = capacity[routes[i].vehicle] - Load(stops)
    BY <1>1, <2>4, <2>5, RoomIs
  <2>7. capacity[routes[i].vehicle] = capacity[v] /\ capacity[v] \in Nat
    BY <1>5, <2>6 DEF EqualFleet, InputOK
  <2>8. demand[s] \in Nat /\ Load(planned) \in Nat
    BY <1>5, <1>6, LengthIsNat DEF InputOK, ListOK
  <2>9. PICK load \in Nat, need \in Nat, total \in Nat, most \in Nat :
          load = Load(stops) /\ need = demand[s] /\ total = capacity[v] /\ most = Load(planned)
    BY <2>6, <2>7, <2>8
  <2>10. load + need <= most /\ most <= total /\ routes[i].room = total - load
    BY <2>1, <2>2, <2>3, <2>6, <2>7, <2>9
  <2>11. need <= total - load
    BY <2>9, <2>10
  <2>12. QED BY <2>4, <2>9, <2>10, <2>11 DEF HasRoom, s
<1>13. pos \in Positions(node, i)
  BY <1>1, <1>7 DEF Positions
<1> DEFINE p == <<i, pos>>
<1>14. p \in Placements(node)
  <2>1. p \in Insertions(node)
    BY <1>12, <1>13 DEF Insertions
  <2> HIDE DEF p
  <2>2. QED BY <2>1 DEF Placements
<1>15. PICK child : child = Inserted(node, i, pos)
  OBVIOUS
<1>16. Child(node, p) = child
  BY <1>15 DEF Child
<1>17. child \in Nodes
  BY <1>12, <1>13, <1>15, InsertedIsNode
<1>18. /\ child.next = s + 1 /\ DOMAIN child.routes = DOMAIN node.routes
       /\ child.routes[i].stops = longer
       /\ \A m \in DOMAIN node.routes : m # i => child.routes[m] = node.routes[m]
  BY <1>1, <1>8, <1>15 DEF Inserted, s
<1>19. PICK more : more = StopsOf(child)
  OBVIOUS
<1>20. /\ DOMAIN more = DOMAIN node.routes /\ more[i] = longer
       /\ \A m \in DOMAIN node.routes : m # i => more[m] = lists[m]
  BY <1>2, <1>18, <1>19 DEF StopsOf
<1>21. (1..(s + 1) - 1) = (1..s - 1) \cup {s}
  BY <1>6
<1>22. Laid(more, s + 1, f, at)
  <2>1. ASSUME NEW m \in DOMAIN node.routes
        PROVE  /\ at[m] \in DOMAIN f /\ Inside(more[m], f[at[m]])
               /\ ToSet(more[m]) = ToSet(f[at[m]]) \cap ((1..s - 1) \cup {s})
    <3>1. CASE m = i
      BY <1>1, <1>5, <1>6, <1>10, <1>11, <1>20, <3>1
    <3>2. CASE m # i
      <4>1. at[m] \in DOMAIN f /\ Inside(lists[m], f[at[m]]) /\ ToSet(lists[m]) = ToSet(f[at[m]]) \cap (1..s - 1)
        BY <1>3, <1>4 DEF Laid
      <4>2. at[m] # v
        BY <1>1, <1>3, <3>2
      <4>3. s \notin ToSet(f[at[m]])
        BY <1>1, <1>3, <1>5, <1>6, <4>1, <4>2 DEF PlanOK, Apart
      <4>4. QED BY <1>20, <3>2, <4>1, <4>3
    <3>3. QED BY <3>1, <3>2
  <2>2. ASSUME NEW x \in (1..s - 1) \cup {s} PROVE \E m \in DOMAIN more : x \in ToSet(more[m])
    <3>1. CASE x = s
      BY <1>10, <1>20, <3>1
    <3>2. CASE x \in 1..s - 1
      <4>1. PICK m \in DOMAIN node.routes : x \in ToSet(lists[m])
        BY <1>4, <3>2
      <4>2. CASE m = i
        BY <1>4, <1>10, <1>20, <4>1, <4>2
      <4>3. CASE m # i
        BY <1>20, <4>1, <4>3
      <4>4. QED BY <4>2, <4>3
    <3>3. QED BY <3>1, <3>2
  <2>3. QED BY <1>20, <1>21, <2>1, <2>2 DEF Laid
<1>23. Leads(child, f)
  BY <1>3, <1>17, <1>18, <1>19, <1>22, LaidLeads
<1> HIDE DEF p
<1>24. QED BY <1>14, <1>16, <1>23

\* A vehicle of the plan that has no route yet: not all vehicles have one.
LEMMA VehicleIsFree ==
  ASSUME InputOK, NEW node \in Nodes, NEW at, NEW v \in Vehicles,
         \A i \in DOMAIN node.routes : at[i] \in Vehicles /\ at[i] # v,
         \A i, k \in DOMAIN node.routes : at[i] = at[k] => i = k
  PROVE  \E w \in Vehicles : \A i \in DOMAIN node.routes : node.routes[i].vehicle # w
<1> DEFINE D == DOMAIN node.routes
           Others == Vehicles \ {v}
           Used == {node.routes[i].vehicle : i \in D}
           to == [i \in D |-> at[i]]
           of == [i \in D |-> node.routes[i].vehicle]
<1>1. IsFiniteSet(Vehicles) /\ Cardinality(Vehicles) \in Nat
  BY FS_Interval, FS_CardinalityType DEF InputOK
<1>2. IsFiniteSet(Others) /\ Cardinality(Others) = Cardinality(Vehicles) - 1
  BY <1>1, FS_RemoveElement
<1>3. to \in Injection(D, Others)
  BY DEF Injection, IsInjective
<1>4. IsFiniteSet(D) /\ Cardinality(D) <= Cardinality(Others)
  <2> HIDE DEF D, Others, to
  <2>1. QED BY <1>2, <1>3, FS_Injection
<1>5. of \in Surjection(D, Used)
  BY DEF Surjection
<1>6. IsFiniteSet(Used) /\ Cardinality(Used) <= Cardinality(D)
  <2> HIDE DEF D, Used, of
  <2>1. QED BY <1>4, <1>5, FS_Surjection
<1>7. Cardinality(D) \in Nat /\ Cardinality(Used) \in Nat
  BY <1>4, <1>6, FS_CardinalityType
<1>8. Used # Vehicles
  <2> HIDE DEF D, Used, Others
  <2>1. QED BY <1>1, <1>2, <1>4, <1>6, <1>7
<1>9. Used \in SUBSET Vehicles
  <2>1. node.routes \in Seq(Route)
    BY NodeFields
  <2>2. \A i \in D : node.routes[i].vehicle \in Vehicles
    BY <2>1, RouteFields
  <2>3. QED BY <2>2
<1>10. PICK w \in Vehicles : w \notin Used
  <2> HIDE DEF Used
  <2>1. QED BY <1>8, <1>9
<1>11. QED BY <1>10

\* The vehicle of the next stop has no route: there is a new route for it, all vehicles being alike.
LEMMA NewRouteLeads ==
  ASSUME InputOK, EqualFleet, NEW node \in Nodes, ~ Complete(node), NEW f, NEW at, PlanFor(node, f, at),
         NEW v \in Vehicles, node.next \in ToSet(f[v]),
         \A i \in DOMAIN node.routes : at[i] # v
  PROVE  \E p \in Placements(node) : Leads(Child(node, p), f)
<1> DEFINE s == node.next
           n == Len(node.routes)
<1>1. PICK lists, planned : lists = StopsOf(node) /\ planned = f[v]
  OBVIOUS
<1>2. /\ PlanOK(f) /\ Laid(lists, s, f, at)
      /\ \A m, k \in DOMAIN node.routes : at[m] = at[k] => m = k
  BY <1>1 DEF PlanFor
<1>3. /\ n \in Nat /\ DOMAIN node.routes = 1..n
      /\ DOMAIN lists = 1..n /\ Apart(lists)
      /\ \A m \in 1..n : ToSet(lists[m]) \in SUBSET (1..s - 1)
      /\ \A x \in 1..s - 1 : \E m \in 1..n : x \in ToSet(lists[m])
  BY <1>1, NodeFields, NodeLists
<1>4. DOMAIN f = Vehicles /\ ListOK(planned) /\ Load(planned) <= capacity[v]
  BY <1>1, <1>2 DEF PlanOK, Apart
<1>5. s \in Stops /\ s \in ToSet(planned) /\ s \notin 1..s - 1 /\ s \in Nat /\ s # 0
  <2>1. s \in Stops /\ s \in Nat /\ s # 0
    BY NextIsUnserved DEF InputOK
  <2>2. s \notin 1..s - 1
    BY <2>1
  <2>3. QED BY <1>1, <2>1, <2>2
<1>6. /\ ListOK(<<s>>) /\ ToSet(<<s>>) = {s} /\ Load(<<s>>) = demand[s]
  BY <1>5, RouteBegun DEF ListOK
<1>7. Inside(<<s>>, planned)
  <2>1. InTurn(<<s>>, s, s) /\ InTurn(planned, s, s)
    BY <1>4, <1>5, <1>6, TurnsOf
  <2>2. QED BY <1>5, <1>6, <2>1 DEF Inside
<1> HIDE DEF s
<1>8. demand[s] <= capacity[v]
  <2>1. Load(<<s>>) <= Load(planned)
    BY <1>4, <1>6, <1>7, InsideIsShorter
  <2>2. demand[s] \in Nat /\ Load(planned) \in Nat /\ capacity[v] \in Nat
    BY <1>4, <1>5, LengthIsNat DEF InputOK, ListOK
  <2>3. QED BY <1>4, <1>6, <2>1, <2>2
<1>9. \A m \in 1..n : at[m] \in Vehicles /\ at[m] # v
  BY <1>2, <1>3, <1>4 DEF Laid
<1>10. Available(node) # {}
  <2>1. PICK w \in Vehicles : \A i \in DOMAIN node.routes : node.routes[i].vehicle # w
    <3>1. \A i \in DOMAIN node.routes : at[i] \in Vehicles /\ at[i] # v
      BY <1>3, <1>9
    <3>2. QED BY <1>2, <3>1, VehicleIsFree
  <2>2. capacity[w] = capacity[v]
    BY DEF EqualFleet
  <2>3. w \in Available(node)
    BY <1>8, <2>1, <2>2 DEF Available, s
  <2>4. QED BY <2>3
<1> DEFINE p == <<n + 1, 0>>
<1>11. p \in Placements(node)
  BY <1>10 DEF Placements
<1>12. PICK child : child = NewRoute(node)
  OBVIOUS
<1>13. Child(node, p) = child
  <2>1. p[1] \notin DOMAIN node.routes
    BY <1>3
  <2>2. QED BY <1>12, <2>1 DEF Child
<1>14. child \in Nodes
  BY <1>10, <1>12, NewRouteIsNode
<1>15. /\ child.next = s + 1 /\ DOMAIN child.routes = 1..n + 1
       /\ child.routes[n + 1].stops = <<s>>
       /\ \A m \in 1..n : child.routes[m] = node.routes[m]
  <2> DEFINE route == Begun(Min(Available(node)), s)
  <2>1. child.routes = Append(node.routes, route) /\ child.next = s + 1
    BY <1>12 DEF NewRoute, Begun, s
  <2>2. route.stops = <<s>>
    BY DEF Begun
  <2> HIDE DEF route
  <2>3. node.routes \in Seq(Route) /\ child.routes \in Seq(Route)
    BY <1>14, NodeFields
  <2>4. \A m \in 1..n : child.routes[m] = node.routes[m]
    BY <1>3, <2>1, <2>3
  <2>5. child.routes[n + 1] = route /\ Len(child.routes) = n + 1
    BY <1>3, <2>1, <2>3
  <2>6. DOMAIN child.routes = 1..n + 1
    BY <2>3, <2>5, LenProperties
  <2>7. QED BY <2>1, <2>2, <2>4, <2>5, <2>6
<1>16. PICK more : more = StopsOf(child)
  OBVIOUS
<1>17. DOMAIN more = 1..n + 1 /\ more[n + 1] = <<s>> /\ \A m \in 1..n : more[m] = lists[m]
  <2>1. \A m \in 1..n : lists[m] = node.routes[m].stops
    BY <1>1, <1>3 DEF StopsOf
  <2>2. DOMAIN more = 1..n + 1 /\ \A m \in 1..n + 1 : more[m] = child.routes[m].stops
    BY <1>15, <1>16 DEF StopsOf
  <2>3. n + 1 \in 1..n + 1 /\ \A m \in 1..n : m \in 1..n + 1
    BY <1>3
  <2>4. QED BY <1>15, <2>1, <2>2, <2>3
<1> DEFINE to == [m \in 1..n + 1 |-> IF m = n + 1 THEN v ELSE at[m]]
<1>18. to[n + 1] = v /\ \A m \in 1..n : to[m] = at[m]
  BY <1>3
<1> HIDE DEF to, p
<1>19. (1..(s + 1) - 1) = (1..s - 1) \cup {s}
  BY <1>5
<1>20. \A m \in 1..n : /\ at[m] \in DOMAIN f /\ Inside(lists[m], f[at[m]])
                       /\ ToSet(lists[m]) = ToSet(f[at[m]]) \cap (1..s - 1)
  BY <1>2, <1>3 DEF Laid
<1>21. ASSUME NEW w \in Vehicles, w # v PROVE ToSet(f[w]) \cap ToSet(f[v]) = {}
  BY <1>2, <1>21 DEF PlanOK, Apart
<1>22. ToSet(planned) \cap (1..s - 1) = {}
  <2>1. ASSUME NEW x \in 1..s - 1, x \in ToSet(planned) PROVE FALSE
    <3>1. PICK m \in 1..n : x \in ToSet(lists[m])
      BY <1>3
    <3>2. x \in ToSet(f[at[m]])
      BY <1>20, <3>1
    <3>3. QED BY <1>1, <1>9, <1>21, <2>1, <3>2
  <2>2. QED BY <2>1
<1>23. Laid(more, s + 1, f, to)
  <2>1. ASSUME NEW m \in 1..n + 1
        PROVE  /\ to[m] \in DOMAIN f /\ Inside(more[m], f[to[m]])
               /\ ToSet(more[m]) = ToSet(f[to[m]]) \cap ((1..s - 1) \cup {s})
    <3>1. CASE m = n + 1
      BY <1>1, <1>4, <1>5, <1>6, <1>7, <1>17, <1>18, <1>22, <3>1
    <3>2. CASE m # n + 1
      <4>1. m \in 1..n
        BY <1>3, <3>2
      <4>2. s \notin ToSet(f[at[m]])
        BY <1>1, <1>5, <1>9, <1>21, <4>1
      <4>3. QED BY <1>17, <1>18, <1>20, <4>1, <4>2
    <3>3. QED BY <3>1, <3>2
  <2>2. ASSUME NEW x \in (1..s - 1) \cup {s} PROVE \E m \in DOMAIN more : x \in ToSet(more[m])
    <3>1. CASE x = s
      <4>1. n + 1 \in DOMAIN more
        BY <1>3, <1>17
      <4>2. QED BY <1>6, <1>17, <3>1, <4>1
    <3>2. CASE x \in 1..s - 1
      <4>1. PICK m \in 1..n : x \in ToSet(lists[m])
        BY <1>3, <3>2
      <4>2. m \in DOMAIN more
        BY <1>3, <1>17
      <4>3. QED BY <1>17, <4>1, <4>2
    <3>3. QED BY <3>1, <3>2
  <2>3. QED BY <1>17, <1>19, <2>1, <2>2 DEF Laid
<1>24. Leads(child, f)
  BY <1>2, <1>14, <1>15, <1>16, <1>23, LaidLeads
<1>25. QED BY <1>11, <1>13, <1>24

\* So some child of a node that leads to a plan leads to it, whatever the plan.
LEMMA SomeChildLeads ==
  ASSUME InputOK, EqualFleet, NEW node \in Nodes, ~ Complete(node), Busy(node),
         NEW f, PlanOK(f), Leads(node, f)
  PROVE  \E p \in Placements(node) : Leads(Child(node, p), f)
<1>1. PICK at : PlanFor(node, f, at)
  BY NodeLaid DEF PlanFor
<1>2. PICK v \in Vehicles : node.next \in ToSet(f[v])
  BY NextIsUnserved DEF PlanOK
<1>3. CASE \E i \in DOMAIN node.routes : at[i] = v
  BY <1>1, <1>2, <1>3, InsertedLeads
<1>4. CASE \A i \in DOMAIN node.routes : at[i] # v
  BY <1>1, <1>2, <1>4, NewRouteLeads
<1>5. QED BY <1>3, <1>4

-----------------------------------------------------------------------------
(* The stack *)

\* A child has no idle route either.
LEMMA ChildIsBusy ==
  ASSUME InputOK, NEW node \in Nodes, ~ Complete(node), Busy(node), NEW p \in Placements(node)
  PROVE  Busy(Child(node, p))
<1> DEFINE s == node.next
<1>1. node.routes \in Seq(Route) /\ DOMAIN node.routes = 1..Len(node.routes) /\ Len(node.routes) \in Nat /\ s \in Stops
  BY NodeFields, NextIsUnserved
<1> HIDE DEF s
<1>2. CASE p \in Insertions(node)
  <2>1. PICK i \in DOMAIN node.routes : p \in {i} \X Positions(node, i)
    BY <1>2 DEF Insertions
  <2>2. PICK pos \in Positions(node, i) : p[1] = i /\ p[2] = pos
    BY <2>1
  <2>3. PICK stops, longer : stops = node.routes[i].stops /\ longer = InsertAt(stops, pos + 1, s)
    OBVIOUS
  <2>4. stops \in Seq(Stops) /\ Len(stops) \in Nat /\ pos \in 0..Len(stops)
    <3>1. stops \in Seq(Stops)
      BY <1>1, <2>3, RouteFields
    <3>2. QED BY <2>2, <2>3, <3>1, LenProperties DEF Positions
  <2>5. DOMAIN longer = 1..Len(stops) + 1
    <3>1. Longer(longer, stops, pos, s)
      BY <1>1, <2>3, <2>4, InsertAtIsLonger
    <3>2. QED BY <3>1 DEF Longer
  <2>6. longer # <<>>
    <3>1. 1 \in DOMAIN longer
      BY <2>4, <2>5
    <3>2. QED BY <3>1
  <2>7. PICK child : child = Child(node, p)
    OBVIOUS
  <2>8. child = Inserted(node, i, pos)
    BY <2>2, <2>7 DEF Child
  <2>9. /\ DOMAIN child.routes = DOMAIN node.routes /\ child.routes[i].stops = longer
        /\ \A m \in DOMAIN node.routes : m # i => child.routes[m] = node.routes[m]
    BY <2>3, <2>8 DEF Inserted, s
  <2>10. ASSUME NEW m \in DOMAIN node.routes PROVE child.routes[m].stops # <<>>
    <3>1. CASE m = i
      BY <2>6, <2>9, <3>1
    <3>2. CASE m # i
      BY <2>9, <3>2 DEF Busy
    <3>3. QED BY <3>1, <3>2
  <2>11. QED BY <2>7, <2>9, <2>10 DEF Busy
<1>3. CASE p \notin Insertions(node)
  <2>1. Available(node) # {} /\ p = <<Len(node.routes) + 1, 0>>
    BY <1>3 DEF Placements
  <2>2. p[1] \notin DOMAIN node.routes
    BY <1>1, <2>1
  <2> DEFINE route == Begun(Min(Available(node)), s)
  <2>3. PICK child : child = Child(node, p)
    OBVIOUS
  <2>4. child.routes = Append(node.routes, route)
    BY <2>2, <2>3 DEF Child, NewRoute, Begun, s
  <2>5. route.stops = <<s>> /\ <<s>> # <<>>
    BY DEF Begun
  <2> HIDE DEF route
  <2>6. child.routes \in Seq(Route)
    BY <2>1, <2>3, NodeFields, ChildIsNode
  <2>7. DOMAIN child.routes = 1..Len(child.routes)
    BY <2>6, LenProperties
  <2>8. Len(child.routes) = Len(node.routes) + 1 /\ child.routes[Len(node.routes) + 1] = route
        /\ \A m \in 1..Len(node.routes) : child.routes[m] = node.routes[m]
    BY <1>1, <2>4, <2>6
  <2>9. ASSUME NEW m \in 1..Len(node.routes) + 1 PROVE child.routes[m].stops # <<>>
    <3>1. CASE m = Len(node.routes) + 1
      BY <2>5, <2>8, <3>1
    <3>2. CASE m # Len(node.routes) + 1
      <4>1. m \in 1..Len(node.routes)
        BY <1>1, <3>2
      <4>2. QED BY <1>1, <2>8, <4>1 DEF Busy
    <3>3. QED BY <3>1, <3>2
  <2>10. QED BY <2>3, <2>7, <2>8, <2>9 DEF Busy
<1>4. QED BY <1>2, <1>3

\* The children are what the placements that are pushed give, each of them.
LEMMA ChildrenAre ==
  ASSUME InputOK, NEW node \in Nodes, ~ Complete(node)
  PROVE  /\ Children(node) \in Seq(Nodes)
         /\ \A k \in 1..Len(Children(node)) : \E p \in Placements(node) : Children(node)[k] = Child(node, p)
         /\ \A p \in Pushed(node) : \E k \in 1..Len(Children(node)) : Children(node)[k] = Child(node, p)
<1> DEFINE S == Pushed(node)
           list == InOrder(S, Before)
           n == Cardinality(S)
<1>1. S \in SUBSET (Nat \X Nat) /\ IsFiniteSet(S) /\ n \in Nat
  BY PushedIsFinite, FS_CardinalityType
<1>2. list \in [1..n -> S] /\ \A i, k \in 1..n : i < k => list[i] # list[k]
  <2> HIDE DEF S
  <2>1. QED BY <1>1, PairsInOrder
<1>3. Children(node) = [k \in 1..n |-> Child(node, list[k])] /\ Children(node) \in Seq(Nodes)
  <2>1. Children(node) = [k \in DOMAIN list |-> Child(node, list[k])]
    BY DEF Children
  <2>2. DOMAIN list = 1..n
    BY <1>2
  <2> HIDE DEF list, n
  <2>3. QED BY <2>1, <2>2, ChildrenAreNodes
<1>4. Len(Children(node)) = n /\ \A k \in 1..n : Children(node)[k] = Child(node, list[k])
  <2>1. DOMAIN Children(node) = 1..n /\ \A k \in 1..n : Children(node)[k] = Child(node, list[k])
    BY <1>3
  <2>2. DOMAIN Children(node) = 1..Len(Children(node)) /\ Len(Children(node)) \in Nat
    BY <1>3, LenProperties
  <2> HIDE DEF list, n
  <2>3. QED BY <1>1, <2>1, <2>2
<1>5. \A p \in S : \E k \in 1..n : list[k] = p
  <2>1. \A i, k \in 1..n : list[i] = list[k] => i = k
    BY <1>1, <1>2
  <2>2. list \in Injection(1..n, S)
    BY <1>2, <2>1 DEF Injection, IsInjective
  <2>3. Cardinality(1..n) = n
    BY <1>1, FS_Interval
  <2> HIDE DEF list, S
  <2>4. list \in Surjection(1..n, S)
    BY <1>1, <2>2, <2>3, FS_Injection
  <2>5. QED BY <2>4 DEF Surjection
<1>6. \A k \in 1..n : list[k] \in Placements(node)
  BY <1>2 DEF Pushed
<1>7. PICK children : children = Children(node)
  OBVIOUS
<1>8. children \in Seq(Nodes) /\ Len(children) = n /\ \A k \in 1..n : children[k] = Child(node, list[k])
  BY <1>3, <1>4, <1>7
<1> HIDE DEF list, n
<1>9. \A k \in 1..n : \E p \in Placements(node) : children[k] = Child(node, p)
  BY <1>6, <1>8
<1>10. \A p \in S : \E k \in 1..n : children[k] = Child(node, p)
  BY <1>5, <1>8
<1>11. QED BY <1>7, <1>8, <1>9, <1>10

\* No node of the stack has an idle route.
NoneIdle == \A i \in DOMAIN stack : Busy(stack[i])

LEMMA StackParts ==
  ASSUME SolverInv, stack # <<>>
  PROVE  /\ Len(stack) \in Nat /\ Len(stack) # 0 /\ DOMAIN stack = 1..Len(stack)
         /\ Top = stack[Len(stack)] /\ Top \in Nodes
         /\ Front(stack) \in Seq(Nodes) /\ Len(Front(stack)) = Len(stack) - 1
         /\ DOMAIN Front(stack) = 1..Len(stack) - 1
         /\ \A i \in 1..Len(stack) - 1 : Front(stack)[i] = stack[i]
<1>1. stack \in Seq(Nodes) /\ Len(stack) \in Nat /\ Len(stack) # 0 /\ DOMAIN stack = 1..Len(stack)
  BY LenProperties, EmptySeq DEF SolverInv
<1>2. Top = stack[Len(stack)]
  BY DEF Top, Last
<1>3. Top \in Nodes /\ Front(stack) \in Seq(Nodes)
  BY TopIsNode
<1> DEFINE n == Len(stack) - 1
<1>4. /\ n \in Nat /\ \A i \in 1..n : stack[i] \in Nodes
  BY <1>1
<1>5. /\ Len(SubSeq(stack, 1, n)) = n /\ \A i \in 1..n : SubSeq(stack, 1, n)[i] = stack[i]
  <2>1. /\ Len(SubSeq(stack, 1, n)) = IF 1 <= n THEN n - 1 + 1 ELSE 0
        /\ \A i \in 1..n - 1 + 1 : SubSeq(stack, 1, n)[i] = stack[1 + i - 1]
    BY <1>4, SubSeqProperties
  <2>2. n - 1 + 1 = n /\ \A i \in 1..n : 1 + i - 1 = i
    BY <1>4
  <2>3. QED BY <1>4, <2>1, <2>2
<1>6. Front(stack) = SubSeq(stack, 1, n)
  BY DEF Front
<1>7. DOMAIN Front(stack) = 1..Len(Front(stack))
  BY <1>3, LenProperties
<1>8. QED BY <1>1, <1>2, <1>3, <1>5, <1>6, <1>7

\* What the stack is after branching.
LEMMA StackAfterBranch ==
  ASSUME SolverInv, Branch
  PROVE  /\ stack # <<>> /\ Top \in Nodes /\ ~ Complete(Top) /\ Len(stack) \in Nat
         /\ Len(Children(Top)) \in Nat
         /\ DOMAIN stack' = 1..Len(stack) - 1 + Len(Children(Top))
         /\ \A i \in 1..Len(stack) - 1 : stack'[i] = stack[i]
         /\ \A k \in 1..Len(Children(Top)) : /\ Len(stack) - 1 + k \in DOMAIN stack'
                                             /\ stack'[Len(stack) - 1 + k] = Children(Top)[k]
         /\ \A i \in DOMAIN stack' : \/ i \in 1..Len(stack) - 1
                                     \/ \E k \in 1..Len(Children(Top)) : i = Len(stack) - 1 + k
<1>1. /\ stack # <<>> /\ ~ Complete(Top) /\ stack' = Front(stack) \o Children(Top) /\ InputOK
  BY InputIsOK DEF Branch, Explore, SolverInv
<1>2. PICK front, children : front = Front(stack) /\ children = Children(Top)
  OBVIOUS
<1>3. PICK n \in Nat : n = Len(stack) - 1
  <2>1. Len(stack) \in Nat /\ Len(stack) # 0
    BY <1>1, StackParts
  <2>2. Len(stack) - 1 \in Nat
    BY <2>1
  <2>3. QED BY <2>2
<1>4. /\ front \in Seq(Nodes) /\ Len(front) = n /\ Top \in Nodes
      /\ \A i \in 1..n : front[i] = stack[i]
  BY <1>1, <1>2, <1>3, StackParts
<1>5. children \in Seq(Nodes) /\ Len(children) \in Nat
  BY <1>1, <1>2, <1>4, ChildrenAreNodes, LenProperties
<1>6. /\ stack' \in Seq(Nodes) /\ Len(stack') = n + Len(children)
      /\ \A i \in 1..n + Len(children) : stack'[i] = IF i <= n THEN front[i] ELSE children[i - n]
  BY <1>1, <1>2, <1>4, <1>5, ConcatProperties
<1>7. DOMAIN stack' = 1..n + Len(children)
  BY <1>6, LenProperties
<1>8. ASSUME NEW i \in 1..n PROVE stack'[i] = stack[i]
  <2>1. i \in 1..n + Len(children) /\ i <= n
    BY <1>5
  <2>2. QED BY <1>4, <1>6, <2>1
<1>9. ASSUME NEW k \in 1..Len(children)
      PROVE  n + k \in 1..n + Len(children) /\ stack'[n + k] = children[k]
  <2>1. n + k \in 1..n + Len(children) /\ ~ (n + k <= n) /\ (n + k) - n = k
    BY <1>5
  <2>2. QED BY <1>6, <2>1
<1>10. ASSUME NEW i \in 1..n + Len(children), i \notin 1..n
       PROVE  \E k \in 1..Len(children) : i = n + k
  <2>1. i - n \in 1..Len(children) /\ i = n + (i - n)
    BY <1>5, <1>10
  <2>2. QED BY <2>1
<1>11. Len(stack) \in Nat
  BY <1>1, StackParts
<1>12. /\ DOMAIN stack' = 1..n + Len(children)
       /\ \A i \in 1..n : stack'[i] = stack[i]
       /\ \A k \in 1..Len(children) : n + k \in DOMAIN stack' /\ stack'[n + k] = children[k]
       /\ \A i \in DOMAIN stack' : i \in 1..n \/ \E k \in 1..Len(children) : i = n + k
  BY <1>7, <1>8, <1>9, <1>10
<1>13. /\ stack # <<>> /\ Top \in Nodes /\ ~ Complete(Top) /\ Len(stack) \in Nat
       /\ Len(Children(Top)) \in Nat
  BY <1>1, <1>2, <1>4, <1>5, <1>11
<1>14. QED BY <1>2, <1>3, <1>12, <1>13

LEMMA NoneIdleInit == Init => NoneIdle
BY DEF Init, NoneIdle

LEMMA NoneIdleStep == SolverInv /\ NoneIdle /\ [Next]_vars => NoneIdle'
<1> SUFFICES ASSUME SolverInv, NoneIdle, [Next]_vars PROVE NoneIdle'
  OBVIOUS
<1>1. CASE UNCHANGED stack
  BY <1>1 DEF NoneIdle
<1>2. CASE stack' = <<Root>>
  <2>1. Busy(Root)
    BY DEF Busy, Root
  <2>2. DOMAIN stack' = 1..1 /\ stack'[1] = Root
    BY <1>2
  <2>3. \A i \in DOMAIN stack' : Busy(stack'[i])
    BY <2>1, <2>2
  <2>4. QED BY <2>3 DEF NoneIdle
<1>3. CASE stack # <<>> /\ stack' = Front(stack)
  <2>1. /\ DOMAIN stack' = 1..Len(stack) - 1 /\ DOMAIN stack = 1..Len(stack) /\ Len(stack) \in Nat
        /\ \A i \in 1..Len(stack) - 1 : stack'[i] = stack[i]
    BY <1>3, StackParts
  <2>2. \A i \in DOMAIN stack' : i \in DOMAIN stack /\ stack'[i] = stack[i]
    BY <2>1
  <2>3. \A i \in DOMAIN stack' : Busy(stack'[i])
    BY <2>2 DEF NoneIdle
  <2>4. QED BY <2>3 DEF NoneIdle
<1>4. CASE Branch
  <2>1. /\ Top \in Nodes /\ ~ Complete(Top) /\ Len(stack) \in Nat
        /\ \A i \in 1..Len(stack) - 1 : stack'[i] = stack[i]
        /\ \A k \in 1..Len(Children(Top)) : stack'[Len(stack) - 1 + k] = Children(Top)[k]
        /\ \A i \in DOMAIN stack' : \/ i \in 1..Len(stack) - 1
                                    \/ \E k \in 1..Len(Children(Top)) : i = Len(stack) - 1 + k
    BY <1>4, StackAfterBranch
  <2>2. stack # <<>> /\ InputOK
    BY <1>4, InputIsOK DEF Branch, Explore, SolverInv
  <2>3. DOMAIN stack = 1..Len(stack) /\ Top = stack[Len(stack)] /\ Len(stack) # 0
    BY <2>2, StackParts
  <2>4. Busy(Top)
    BY <2>1, <2>3 DEF NoneIdle
  <2>5. ASSUME NEW i \in DOMAIN stack' PROVE Busy(stack'[i])
    <3>1. CASE i \in 1..Len(stack) - 1
      <4>1. i \in DOMAIN stack /\ stack'[i] = stack[i]
        BY <2>1, <2>3, <3>1
      <4>2. QED BY <4>1 DEF NoneIdle
    <3>2. CASE i \notin 1..Len(stack) - 1
      <4>1. PICK k \in 1..Len(Children(Top)) : stack'[i] = Children(Top)[k]
        BY <2>1, <3>2
      <4>2. PICK p \in Placements(Top) : Children(Top)[k] = Child(Top, p)
        BY <2>1, <2>2, ChildrenAre
      <4>3. Busy(Child(Top, p))
        BY <2>1, <2>2, <2>4, ChildIsBusy
      <4>4. QED BY <4>1, <4>2, <4>3
    <3>3. QED BY <3>1, <3>2
  <2>6. QED BY <2>5 DEF NoneIdle
<1>5. QED
  <2>1. CASE Next
    BY <2>1, <1>1, <1>2, <1>3, <1>4 DEF Next, Assign, StartSearch, Solve, Prune, TimePasses, Answer, Explore, Pop
  <2>2. CASE UNCHANGED vars
    BY <1>1, <2>2 DEF vars
  <2>3. QED BY <2>1, <2>2

-----------------------------------------------------------------------------
(* No step but Prune's loses a plan *)

\* The plan is no better than the best after the step, or a node on the stack then leads to it.
NotLost(f) == CostOf(f) >= best'.cost \/ \E i \in DOMAIN stack' : Leads(stack'[i], f)

\* A complete node is taken as the best when it is better, and the plans it leads to cost no less.
LEMMA SolveLosesNone ==
  ASSUME SolverInv, NoneIdle, Solve, NEW f, PlanOK(f),
         NEW i \in DOMAIN stack, Leads(stack[i], f)
  PROVE  NotLost(f)
<1>1. /\ stack # <<>> /\ InputOK /\ stack' = Front(stack)
      /\ best' = IF Top.cost < best.cost THEN [routes |-> Top.routes, cost |-> Top.cost] ELSE best
  BY InputIsOK DEF SolverInv, Solve, Explore, Pop
<1>2. /\ Len(stack) \in Nat /\ DOMAIN stack = 1..Len(stack) /\ Top = stack[Len(stack)] /\ Top \in Nodes
      /\ DOMAIN stack' = 1..Len(stack) - 1
      /\ \A k \in 1..Len(stack) - 1 : stack'[k] = stack[k]
  BY <1>1, StackParts
<1>3. CASE i = Len(stack)
  <2>1. Top = stack[i] /\ Busy(Top) /\ Leads(Top, f)
    BY <1>2, <1>3 DEF NoneIdle
  <2>2. Top.cost \in Nat /\ CostOf(f) \in Nat /\ Top.cost <= CostOf(f)
    BY <1>1, <1>2, <2>1, LeadsCostsMore
  <2>3. best.cost \in Nat
    BY DEF SolverInv, Solutions
  <2>4. best'.cost \in Nat /\ best'.cost <= Top.cost
    BY <1>1, <2>2, <2>3
  <2>5. QED BY <2>2, <2>4 DEF NotLost
<1>4. CASE i # Len(stack)
  <2>1. i \in 1..Len(stack) - 1
    BY <1>2, <1>4
  <2>2. i \in DOMAIN stack' /\ stack'[i] = stack[i]
    BY <1>2, <2>1
  <2>3. QED BY <2>2 DEF NotLost
<1>5. QED BY <1>3, <1>4

\* Of the node that is branched on, the child that leads to the plan is pushed, or already as long
\* as the best, and so is the plan.
LEMMA BranchLosesNone ==
  ASSUME SolverInv, NoneIdle, Branch, EqualFleet, NEW f, PlanOK(f),
         NEW i \in DOMAIN stack, Leads(stack[i], f)
  PROVE  NotLost(f)
<1>1. /\ stack # <<>> /\ Top \in Nodes /\ ~ Complete(Top) /\ Len(stack) \in Nat
      /\ DOMAIN stack' = 1..Len(stack) - 1 + Len(Children(Top))
      /\ \A k \in 1..Len(stack) - 1 : stack'[k] = stack[k]
      /\ \A k \in 1..Len(Children(Top)) : /\ Len(stack) - 1 + k \in DOMAIN stack'
                                          /\ stack'[Len(stack) - 1 + k] = Children(Top)[k]
      /\ Len(Children(Top)) \in Nat
  BY StackAfterBranch
<1>2. InputOK /\ best' = best
  BY InputIsOK DEF SolverInv, Branch
<1>3. DOMAIN stack = 1..Len(stack) /\ Top = stack[Len(stack)]
  BY <1>1, StackParts
<1>4. CASE i # Len(stack)
  <2>1. i \in 1..Len(stack) - 1
    BY <1>1, <1>3, <1>4
  <2>2. i \in DOMAIN stack' /\ stack'[i] = stack[i]
    BY <1>1, <2>1
  <2>3. QED BY <2>2 DEF NotLost
<1>5. CASE i = Len(stack)
  <2>1. Busy(Top) /\ Leads(Top, f)
    BY <1>3, <1>5 DEF NoneIdle
  <2>2. PICK p \in Placements(Top) : Leads(Child(Top, p), f)
    BY <1>1, <1>2, <2>1, SomeChildLeads
  <2>3. CASE p \in Pushed(Top)
    <3>1. PICK k \in 1..Len(Children(Top)) : Children(Top)[k] = Child(Top, p)
      BY <1>1, <1>2, <2>3, ChildrenAre
    <3>2. Len(stack) - 1 + k \in DOMAIN stack' /\ stack'[Len(stack) - 1 + k] = Child(Top, p)
      BY <1>1, <3>1
    <3>3. QED BY <2>2, <3>2 DEF NotLost
  <2>4. CASE p \notin Pushed(Top)
    <3>1. PICK child : child = Child(Top, p)
      OBVIOUS
    <3>2. ~ (child.cost < best.cost)
      BY <2>4, <3>1 DEF Pushed
    <3>3. child \in Nodes /\ Busy(child) /\ Leads(child, f)
      BY <1>1, <1>2, <2>1, <2>2, <3>1, ChildIsNode, ChildIsBusy
    <3>4. child.cost \in Nat /\ CostOf(f) \in Nat /\ child.cost <= CostOf(f)
      BY <1>2, <3>3, LeadsCostsMore
    <3>5. best.cost \in Nat
      BY DEF SolverInv, Solutions
    <3>6. CostOf(f) >= best.cost
      BY <3>2, <3>4, <3>5
    <3>7. QED BY <1>2, <3>6 DEF NotLost
  <2>5. QED BY <2>3, <2>4
<1>6. QED BY <1>4, <1>5

LEMMA StepLosesNoPlan == SolverInv /\ NoneIdle /\ [Next]_vars => [LosesNoPlan]_vars
<1> SUFFICES ASSUME SolverInv, NoneIdle, Next, phase = "search", ~ late', EqualFleet,
                    stack # <<>>, ~ Pruned(Top),
                    NEW f \in Plans, NEW i \in DOMAIN stack, Leads(stack[i], f)
             PROVE  NotLost(f)
  BY DEF LosesNoPlan, NotLost
<1>1. PlanOK(f)
  BY InputIsOK, PlanIs DEF SolverInv
<1>2. CASE Solve
  BY <1>1, <1>2, SolveLosesNone
<1>3. CASE Branch
  BY <1>1, <1>3, BranchLosesNone
<1>4. CASE Assign \/ StartSearch \/ Prune \/ TimePasses \/ Answer
  BY <1>4 DEF Assign, StartSearch, Prune, TimePasses, Answer
<1>5. QED BY <1>2, <1>3, <1>4 DEF Next

\* For every metric, fleet of equal vehicles and list of stops: a plan that a partial solution on the
\* stack can still become, and that is better than the best, is not lost by a step of branchAndBound
\* that does not judge by the lower bound.  The insertions and the new route that it branches to, and
\* the test against the best before a child is pushed, leave out nothing that is better.
THEOREM SearchLosesOnlyByBound == Spec => OnlyBoundLosesPlans
<1>1. SolverInv /\ NoneIdle /\ [Next]_vars => (SolverInv /\ NoneIdle)'
  BY InvStep, NoneIdleStep
<1>2. Init => SolverInv /\ NoneIdle
  BY InvInit, NoneIdleInit
<1>3. QED BY <1>1, <1>2, StepLosesNoPlan, PTL DEF Spec, OnlyBoundLosesPlans
=============================================================================

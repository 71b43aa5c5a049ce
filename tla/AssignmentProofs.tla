---------------------------- MODULE AssignmentProofs ----------------------------
(***************************************************************************)
(* hungarian.ts, for every cost matrix: the assignment is a cheapest one.  *)
(* The potentials fit the costs at every step, whichever way a path was    *)
(* turned over; summed up, they bound what any assignment costs, and the   *)
(* result costs just that. The sums are those of ServicesProofs, here of   *)
(* integers.                                                               *)
(*                                                                         *)
(* With the assignment's, the types of all services of MCServices.         *)
(***************************************************************************)
EXTENDS ServicesProofs

-----------------------------------------------------------------------------
(* Sums of integers *)

\* The equations of a sum.
LEMMA SumsAt ==
  ASSUME NEW S, NEW weight, NEW f, IsSum(f, weight, S)
  PROVE  /\ f[{}] = 0
         /\ \A s \in SUBSET S : s # {} => Picked(s) \in s /\ f[s] = weight[Picked(s)] + f[s \ {Picked(s)}]
<1>1. {} \in SUBSET S
  OBVIOUS
<1>2. f[{}] = 0
  BY <1>1, SumAt
<1>3. ASSUME NEW s \in SUBSET S, s # {}
      PROVE Picked(s) \in s /\ f[s] = weight[Picked(s)] + f[s \ {Picked(s)}]
  BY <1>3, SumAt
<1>4. QED BY <1>2, <1>3

LEMMA SumIsInt ==
  ASSUME NEW S, IsFiniteSet(S), NEW weight, \A x \in S : weight[x] \in Int,
         NEW f, IsSum(f, weight, S)
  PROVE  \A s \in SUBSET S : f[s] \in Int
<1> DEFINE Bad == {s \in SUBSET S : f[s] \notin Int}
<1> SUFFICES ASSUME Bad # {} PROVE FALSE
  OBVIOUS
<1>1. PICK s \in Bad : \A x \in s : s \ {x} \notin Bad
  BY SmallestSet
<1>2. s # {} /\ Picked(s) \in s /\ f[s] = weight[Picked(s)] + f[s \ {Picked(s)}]
  <2> HIDE DEF Bad
  <2>1. f[{}] = 0 /\ \A r \in SUBSET S : r # {} => Picked(r) \in r /\ f[r] = weight[Picked(r)] + f[r \ {Picked(r)}]
    BY SumsAt
  <2>2. s \in SUBSET S /\ f[s] \notin Int
    BY <1>1 DEF Bad
  <2>3. s # {}
    <3>1. f[{}] \in Int
      BY <2>1
    <3>2. QED BY <2>2, <3>1
  <2>4. QED BY <2>1, <2>2, <2>3
<1>3. f[s \ {Picked(s)}] \in Int /\ weight[Picked(s)] \in Int
  BY <1>1, <1>2
<1>4. QED BY <1>1, <1>2, <1>3

LEMMA IntSumWithout ==
  ASSUME NEW S, IsFiniteSet(S), NEW weight, \A x \in S : weight[x] \in Int,
         NEW f, IsSum(f, weight, S)
  PROVE  \A s \in SUBSET S : \A t \in s : f[s] = weight[t] + f[s \ {t}]
<1> DEFINE Bad == {s \in SUBSET S : \E t \in s : f[s] # weight[t] + f[s \ {t}]}
<1> SUFFICES ASSUME Bad # {} PROVE FALSE
  OBVIOUS
<1>1. PICK s \in Bad : \A x \in s : s \ {x} \notin Bad
  BY SmallestSet
<1>2. PICK t \in s : f[s] # weight[t] + f[s \ {t}]
  BY <1>1
<1> DEFINE x == Picked(s)
<1>3. x \in s /\ f[s] = weight[x] + f[s \ {x}]
  <2>1. s \in SUBSET S
    BY <1>1
  <2>2. s # {}
    BY <1>2
  <2>3. Picked(s) \in s /\ f[s] = weight[Picked(s)] + f[s \ {Picked(s)}]
    BY <2>1, <2>2, SumsAt
  <2>4. QED BY <2>3
<1> HIDE DEF x
<1>4. x # t
  BY <1>2, <1>3
<1>5. f[s \ {x}] = weight[t] + f[(s \ {x}) \ {t}]
  <2>1. s \ {x} \in SUBSET S /\ s \ {x} \notin Bad /\ t \in s \ {x}
    BY <1>1, <1>2, <1>3, <1>4
  <2>2. QED BY <2>1
<1>6. f[s \ {t}] = weight[x] + f[(s \ {t}) \ {x}]
  <2>1. s \ {t} \in SUBSET S /\ s \ {t} \notin Bad /\ x \in s \ {t}
    BY <1>1, <1>2, <1>3, <1>4
  <2>2. QED BY <2>1
<1>7. (s \ {x}) \ {t} = (s \ {t}) \ {x}
  OBVIOUS
<1>8. f[(s \ {t}) \ {x}] \in Int /\ weight[x] \in Int /\ weight[t] \in Int
  <2>1. (s \ {t}) \ {x} \in SUBSET S /\ x \in S /\ t \in S
    BY <1>1, <1>2, <1>3
  <2>2. QED BY <2>1, SumIsInt
<1>9. PICK k \in Int : k = f[(s \ {t}) \ {x}]
  BY <1>8
<1>10. f[s] = weight[x] + (weight[t] + k) /\ f[s \ {t}] = weight[x] + k
  BY <1>3, <1>5, <1>6, <1>7, <1>9
<1>11. weight[x] + (weight[t] + k) = weight[t] + (weight[x] + k)
  BY <1>8, <1>9
<1>12. QED BY <1>2, <1>10, <1>11

\* f[s] is the sum of the integer weights of s, for each part s of S.
Sums(f, weight, S) ==
  /\ f[S] = SumOver(weight, S) /\ f[{}] = 0
  /\ \A s \in SUBSET S : f[s] \in Int /\ \A t \in s : f[s] = weight[t] + f[s \ {t}]

LEMMA SumsExist ==
  ASSUME NEW S, IsFiniteSet(S), NEW weight, \A x \in S : weight[x] \in Int
  PROVE  \E f : Sums(f, weight, S)
<1>1. PICK f : IsSum(f, weight, S) /\ SumOver(weight, S) = f[S]
  BY SumOverIs
<1>2. f[{}] = 0
  BY <1>1, SumsAt
<1>3. \A s \in SUBSET S : f[s] \in Int
  BY <1>1, SumIsInt
<1>4. \A s \in SUBSET S : \A t \in s : f[s] = weight[t] + f[s \ {t}]
  <2>1. ASSUME NEW s \in SUBSET S, NEW t \in s PROVE f[s] = weight[t] + f[s \ {t}]
    <3>1. s \ {t} \in SUBSET S /\ t \in S
      OBVIOUS
    <3>2. weight[t] \in Int /\ f[s \ {t}] \in Int /\ f[s] \in Int
      BY <1>3, <3>1
    <3>3. QED BY <1>1, <3>2, IntSumWithout
  <2>2. QED BY <2>1
<1>5. QED BY <1>1, <1>2, <1>3, <1>4 DEF Sums

\* Weights of which none exceeds the other sum up so.
LEMMA IntSumsCompare ==
  ASSUME NEW S, IsFiniteSet(S), NEW weight, NEW heavier,
         \A x \in S : weight[x] \in Int /\ heavier[x] \in Int /\ weight[x] <= heavier[x]
  PROVE  SumOver(weight, S) <= SumOver(heavier, S)
<1>1. PICK f : Sums(f, weight, S)
  BY SumsExist
<1>2. PICK g : Sums(g, heavier, S)
  BY SumsExist
<1> DEFINE Bad == {s \in SUBSET S : ~(f[s] <= g[s])}
<1>3. Bad = {}
  <2> SUFFICES ASSUME Bad # {} PROVE FALSE
    OBVIOUS
  <2>1. PICK s \in Bad : \A x \in s : s \ {x} \notin Bad
    BY SmallestSet
  <2>2. s \in SUBSET S /\ ~(f[s] <= g[s])
    BY <2>1
  <2>3. s # {}
    <3>1. f[{}] = 0 /\ g[{}] = 0
      BY <1>1, <1>2 DEF Sums
    <3>2. f[{}] <= g[{}]
      BY <3>1
    <3>3. QED BY <2>2, <3>2
  <2>4. PICK x \in s : TRUE
    BY <2>3
  <2> DEFINE r == s \ {x}
  <2>5. r \in SUBSET S /\ x \in S /\ f[r] <= g[r]
    BY <2>1, <2>4
  <2> HIDE DEF r, Bad
  <2>6. f[s] = weight[x] + f[r] /\ f[r] \in Int
    BY <1>1, <2>2, <2>4, <2>5 DEF Sums, r
  <2>7. g[s] = heavier[x] + g[r] /\ g[r] \in Int
    BY <1>2, <2>2, <2>4, <2>5 DEF Sums, r
  <2>8. weight[x] \in Int /\ heavier[x] \in Int /\ weight[x] <= heavier[x]
    BY <2>5
  <2>9. QED BY <2>2, <2>5, <2>6, <2>7, <2>8
<1>4. S \in SUBSET S
  OBVIOUS
<1>5. f[S] <= g[S]
  BY <1>3, <1>4
<1>6. QED BY <1>1, <1>2, <1>5 DEF Sums

LEMMA SumOfSums ==
  ASSUME NEW S, IsFiniteSet(S), NEW weight, NEW extra, NEW both,
         \A x \in S : weight[x] \in Int /\ extra[x] \in Int /\ both[x] = weight[x] + extra[x]
  PROVE  SumOver(both, S) = SumOver(weight, S) + SumOver(extra, S)
<1>1. PICK f : Sums(f, weight, S)
  BY SumsExist
<1>2. PICK g : Sums(g, extra, S)
  BY SumsExist
<1>3. PICK h : Sums(h, both, S)
  <2>1. \A x \in S : both[x] \in Int
    OBVIOUS
  <2>2. QED BY <2>1, SumsExist
<1> DEFINE Bad == {s \in SUBSET S : h[s] # f[s] + g[s]}
<1>4. Bad = {}
  <2> SUFFICES ASSUME Bad # {} PROVE FALSE
    OBVIOUS
  <2>1. PICK s \in Bad : \A x \in s : s \ {x} \notin Bad
    BY SmallestSet
  <2>2. s \in SUBSET S /\ h[s] # f[s] + g[s]
    BY <2>1
  <2>3. s # {}
    <3>1. f[{}] = 0 /\ g[{}] = 0 /\ h[{}] = 0
      BY <1>1, <1>2, <1>3 DEF Sums
    <3>2. h[{}] = f[{}] + g[{}]
      BY <3>1
    <3>3. QED BY <2>2, <3>2
  <2>4. PICK x \in s : TRUE
    BY <2>3
  <2> DEFINE r == s \ {x}
  <2>5. r \in SUBSET S /\ x \in S /\ h[r] = f[r] + g[r]
    BY <2>1, <2>4
  <2> HIDE DEF r, Bad
  <2>6. f[s] = weight[x] + f[r] /\ f[r] \in Int
    BY <1>1, <2>2, <2>4, <2>5 DEF Sums, r
  <2>7. g[s] = extra[x] + g[r] /\ g[r] \in Int
    BY <1>2, <2>2, <2>4, <2>5 DEF Sums, r
  <2>8. h[s] = both[x] + h[r]
    BY <1>3, <2>2, <2>4, <2>5 DEF Sums, r
  <2>9. weight[x] \in Int /\ extra[x] \in Int /\ both[x] = weight[x] + extra[x]
    BY <2>5
  <2>10. QED BY <2>2, <2>5, <2>6, <2>7, <2>8, <2>9
<1>5. S \in SUBSET S
  OBVIOUS
<1>6. h[S] = f[S] + g[S]
  BY <1>4, <1>5
<1>7. QED BY <1>1, <1>2, <1>3, <1>6 DEF Sums

\* A sum can be taken in another order.
LEMMA SumInOrder ==
  ASSUME NEW D, IsFiniteSet(D), NEW weight, \A x \in D : weight[x] \in Int,
         NEW at, \A x \in D : at[x] \in D, \A x, y \in D : at[x] = at[y] => x = y,
         NEW c, \A x \in D : c[x] = weight[at[x]]
  PROVE  SumOver(c, D) = SumOver(weight, D)
<1>1. PICK f : Sums(f, weight, D)
  BY SumsExist
<1>2. PICK g : Sums(g, c, D)
  <2>1. \A x \in D : c[x] \in Int
    OBVIOUS
  <2>2. QED BY <2>1, SumsExist
<1> DEFINE Image(s) == {at[x] : x \in s}
           Bad == {s \in SUBSET D : g[s] # f[Image(s)]}
<1>3. Bad = {}
  <2> SUFFICES ASSUME Bad # {} PROVE FALSE
    OBVIOUS
  <2>1. PICK s \in Bad : \A x \in s : s \ {x} \notin Bad
    <3> HIDE DEF Image
    <3>1. QED BY SmallestSet
  <2>2. s \in SUBSET D /\ g[s] # f[Image(s)]
    BY <2>1
  <2>3. s # {}
    <3>1. f[{}] = 0 /\ g[{}] = 0 /\ Image({}) = {}
      BY <1>1, <1>2 DEF Sums
    <3> HIDE DEF Image
    <3>2. QED BY <2>2, <3>1
  <2>4. PICK x \in s : TRUE
    BY <2>3
  <2> DEFINE r == s \ {x}
  <2>5. r \in SUBSET D /\ x \in D /\ g[r] = f[Image(r)]
    <3> HIDE DEF Image
    <3>1. QED BY <2>1, <2>4
  <2>6. Image(s) \in SUBSET D /\ at[x] \in Image(s) /\ Image(r) = Image(s) \ {at[x]}
    <3>1. \A y \in r : at[y] # at[x]
      BY <2>2, <2>4
    <3>2. QED BY <2>2, <2>4, <3>1
  <2> HIDE DEF r, Bad, Image
  <2>7. g[s] = c[x] + g[r]
    BY <1>2, <2>2, <2>4, <2>5 DEF Sums, r
  <2>8. f[Image(s)] = weight[at[x]] + f[Image(r)]
    <3>1. \A q \in SUBSET D : \A t \in q : f[q] = weight[t] + f[q \ {t}]
      BY <1>1 DEF Sums
    <3>2. f[Image(s)] = weight[at[x]] + f[Image(s) \ {at[x]}]
      BY <2>6, <3>1
    <3>3. QED BY <2>6, <3>2
  <2>9. c[x] = weight[at[x]]
    BY <2>5
  <2>10. QED BY <2>2, <2>5, <2>7, <2>8, <2>9
<1>4. Image(D) = D
  <2> DEFINE turn == [x \in D |-> at[x]]
  <2>1. turn \in Injection(D, D)
    BY DEF Injection, IsInjective
  <2>2. turn \in Surjection(D, D)
    BY <2>1, FS_Injection
  <2>3. \A y \in D : \E x \in D : turn[x] = y
    BY <2>2 DEF Surjection
  <2>4. \A y \in D : \E x \in D : at[x] = y
    BY <2>3
  <2>5. QED BY <2>4
<1>5. D \in SUBSET D
  OBVIOUS
<1>6. g[D] = f[D]
  <2> HIDE DEF Image
  <2>1. QED BY <1>3, <1>4, <1>5
<1>7. QED BY <1>1, <1>2, <1>6 DEF Sums

\* What weighs nothing can be left out.
LEMMA SumOfPart ==
  ASSUME NEW D, IsFiniteSet(D), NEW P \in SUBSET D, NEW weight, NEW c,
         \A x \in P : c[x] \in Int /\ weight[x] = c[x], \A x \in D \ P : weight[x] = 0
  PROVE  SumOver(weight, D) = SumOver(c, P)
<1>1. PICK f : Sums(f, weight, D)
  <2>1. \A x \in D : weight[x] \in Int
    <3>1. \A x \in P : weight[x] \in Int
      OBVIOUS
    <3>2. 0 \in Int
      OBVIOUS
    <3>3. \A x \in D \ P : weight[x] \in Int
      BY <3>2
    <3>4. QED BY <3>1, <3>3
  <2>2. QED BY <2>1, SumsExist
<1>2. PICK g : Sums(g, c, P)
  <2>1. IsFiniteSet(P)
    BY FS_Subset
  <2>2. QED BY <2>1, SumsExist
<1> DEFINE Bad == {s \in SUBSET D : f[s] # g[s \cap P]}
<1>3. Bad = {}
  <2> SUFFICES ASSUME Bad # {} PROVE FALSE
    OBVIOUS
  <2>1. PICK s \in Bad : \A x \in s : s \ {x} \notin Bad
    BY SmallestSet
  <2>2. s \in SUBSET D /\ f[s] # g[s \cap P] /\ s \cap P \in SUBSET P
    BY <2>1
  <2>3. s # {}
    <3>1. f[{}] = 0 /\ g[{}] = 0 /\ {} \cap P = {}
      BY <1>1, <1>2 DEF Sums
    <3>2. QED BY <2>2, <3>1
  <2>4. PICK x \in s : TRUE
    BY <2>3
  <2> DEFINE r == s \ {x}
  <2>5. r \in SUBSET D /\ x \in D /\ f[r] = g[r \cap P]
    BY <2>1, <2>4
  <2> HIDE DEF Bad
  <2>6. f[s] = weight[x] + f[r]
    BY <1>1, <2>2, <2>4 DEF Sums
  <2>7. CASE x \in P
    <3>1. x \in s \cap P /\ r \cap P = (s \cap P) \ {x}
      BY <2>4, <2>7
    <3>2. g[s \cap P] = c[x] + g[r \cap P]
      BY <1>2, <2>2, <3>1 DEF Sums
    <3>3. weight[x] = c[x]
      BY <2>7
    <3> HIDE DEF r
    <3>4. QED BY <2>2, <2>5, <2>6, <3>2, <3>3
  <2>8. CASE x \notin P
    <3>1. r \cap P = s \cap P /\ weight[x] = 0
      BY <2>5, <2>8
    <3>2. g[s \cap P] \in Int
      BY <1>2, <2>2 DEF Sums
    <3> HIDE DEF r
    <3>3. f[s] = 0 + g[s \cap P]
      BY <2>5, <2>6, <3>1
    <3>4. QED BY <2>2, <3>2, <3>3
  <2>9. QED BY <2>7, <2>8
<1>4. D \in SUBSET D /\ D \cap P = P
  OBVIOUS
<1>5. f[D] = g[P]
  BY <1>3, <1>4
<1>6. QED BY <1>1, <1>2, <1>5 DEF Sums

\* Potentials that add up to the costs c along one way of pairing, and exceed none of the costs d along another,
Decide(D, ofRow, ofColumn, at, to, c, d) ==
  /\ \A x \in D : ofRow[x] \in Int /\ ofColumn[x] \in Int
  /\ \A x \in D : at[x] \in D /\ to[x] \in D
  /\ \A x, y \in D : at[x] = at[y] => x = y
  /\ \A x, y \in D : to[x] = to[y] => x = y
  /\ \A x \in D : c[x] = ofRow[x] + ofColumn[at[x]]
  /\ \A x \in D : d[x] \in Int /\ ofRow[x] + ofColumn[to[x]] <= d[x]

\* show that the first is no dearer.
LEMMA PotentialsDecide ==
  ASSUME NEW D, IsFiniteSet(D), NEW ofRow, NEW ofColumn, NEW at, NEW to, NEW c, NEW d,
         Decide(D, ofRow, ofColumn, at, to, c, d)
  PROVE  SumOver(c, D) <= SumOver(d, D)
<1> DEFINE atColumn == [x \in D |-> ofColumn[at[x]]]
           toColumn == [x \in D |-> ofColumn[to[x]]]
           least == [x \in D |-> ofRow[x] + toColumn[x]]
<1>1. \A x \in D : /\ ofRow[x] \in Int /\ atColumn[x] \in Int /\ toColumn[x] \in Int
                   /\ c[x] = ofRow[x] + atColumn[x] /\ least[x] = ofRow[x] + toColumn[x]
                   /\ least[x] \in Int /\ least[x] <= d[x] /\ d[x] \in Int
                   /\ atColumn[x] = ofColumn[at[x]] /\ toColumn[x] = ofColumn[to[x]]
  BY DEF Decide
<1> HIDE DEF atColumn, toColumn, least
<1>2. SumOver(c, D) = SumOver(ofRow, D) + SumOver(atColumn, D)
  <2>1. \A x \in D : ofRow[x] \in Int /\ atColumn[x] \in Int /\ c[x] = ofRow[x] + atColumn[x]
    BY <1>1
  <2>2. QED BY <2>1, SumOfSums
<1>3. SumOver(least, D) = SumOver(ofRow, D) + SumOver(toColumn, D)
  <2>1. \A x \in D : ofRow[x] \in Int /\ toColumn[x] \in Int /\ least[x] = ofRow[x] + toColumn[x]
    BY <1>1
  <2>2. QED BY <2>1, SumOfSums
<1>4. SumOver(atColumn, D) = SumOver(ofColumn, D)
  BY <1>1, SumInOrder DEF Decide
<1>5. SumOver(toColumn, D) = SumOver(ofColumn, D)
  BY <1>1, SumInOrder DEF Decide
<1>6. SumOver(least, D) <= SumOver(d, D)
  BY <1>1, IntSumsCompare
<1>7. QED BY <1>2, <1>3, <1>4, <1>5, <1>6

-----------------------------------------------------------------------------
(* hungarian.ts: the inductive invariant, for N rows and columns with the costs M *)

\* The potentials never exceed a cost; those of rows to come are zero, so that none does with them.
Fits(N, M) ==
  /\ row \in 0..N /\ j0 \in 0..N /\ used \subseteq 0..N /\ loop \in {"rows", "grow", "augment"}
  /\ p \in [0..N -> 0..N] /\ \A j \in 0..N : way[j] \in 0..N
  /\ \A j \in 0..N : u[j] \in Int /\ v[j] \in Int /\ minDist[j] \in Int \cup {Infinity}
  /\ \A i \in 1..row, j \in 1..N : u[i] + v[j] <= M[i][j]
  /\ \A i \in row + 1..N : u[i] = 0
  /\ \A j \in 1..N : v[j] <= 0

\* But for the columns in X, whose entries do not count, each row so far has one column, for which
\* the potentials add up to the cost.
Matched(N, M, X) ==
  /\ \A j, k \in (0..N) \ X : p[j] = p[k] /\ p[j] # 0 => j = k
  /\ \A j \in (0..N) \ X : p[j] <= row
  /\ \A i \in 1..row : \E j \in (0..N) \ X : p[j] = i
  /\ \A j \in (1..N) \ X : p[j] # 0 => u[p[j]] + v[j] = M[p[j]][j]

\* The edge to column j from the column it was reached from.
Reached(M, j) == way[j] \in used /\ u[p[way[j]]] + v[j] = M[p[way[j]]][j]

\* How far the columns outside the tree are from it.
Frontier(N, M) ==
  \A j \in (1..N) \ (used \cup {j0}) :
    /\ used = {} => minDist[j] = Infinity
    /\ used # {} => /\ way[j] \in used /\ minDist[j] = M[p[way[j]]][j] - u[p[way[j]]] - v[j]
                    /\ \A k \in used : minDist[j] <= M[p[k]][j] - u[p[k]] - v[j]

\* A tree grows from column 0: each column was reached from one that had joined it before.
Tree(N, M) ==
  /\ j0 \notin used /\ (used = {} => j0 = 0) /\ (used # {} => 0 \in used)
  /\ \A j \in used \cup {j0} : p[j] # 0
  /\ \E rank \in [0..N -> Nat] :
       /\ \A j \in used : rank[j] < rank[j0]
       /\ \A j \in (used \cup {j0}) \ {0} : Reached(M, j) /\ rank[way[j]] < rank[j]

\* What is left of the path along which the rows move: its columns still have their rows.
Path(N, M) ==
  /\ j0 # 0
  /\ \E rank \in [0..N -> Nat] :
       \A j \in (used \cup {j0}) \ {0} : rank[j] <= rank[j0] => Reached(M, j) /\ rank[way[j]] < rank[j]

PotentialInv(N, M) ==
  /\ Fits(N, M)
  /\ loop = "rows" => Matched(N, M, {0})
  /\ loop = "grow" => Matched(N, M, {}) /\ Tree(N, M) /\ Frontier(N, M)
  /\ loop = "augment" => Matched(N, M, {j0}) /\ Path(N, M)

\* The size of the padded matrix is N, and its entries are those of M.
IsMatrix(N, M) ==
  /\ N \in Nat \ {0} /\ \A i, j \in 1..N : M[i][j] \in Nat
  /\ H!n = N /\ \A i, j \in 1..N : H!mat(i, j) = M[i][j]

HungarianInv == costMatrix \in Matrices /\ \E N, M : IsMatrix(N, M) /\ PotentialInv(N, M)

-----------------------------------------------------------------------------

LEMMA MatrixExists ==
  ASSUME costMatrix \in Matrices
  PROVE  /\ H!numRows \in Nat \ {0} /\ H!numCols \in Nat
         /\ H!n \in Nat \ {0} /\ H!numRows <= H!n /\ H!numCols <= H!n
         /\ H!n = H!numRows \/ H!n = H!numCols
         /\ \A i \in 1..H!numRows, j \in 1..H!numCols : costMatrix[i][j] \in Nat
         /\ Padding \in Nat /\ Infinity \notin Int
         /\ \E M : IsMatrix(H!n, M)
<1>1. /\ costMatrix \in Seq(Seq(Nat)) /\ costMatrix # <<>>
      /\ \A i \in 1..Len(costMatrix) : Len(costMatrix[i]) = Len(costMatrix[1])
      /\ Padding \in Nat /\ Infinity \notin Int
  BY Bounds DEF H!HungarianOK
<1>2. Len(costMatrix) \in Nat \ {0} /\ costMatrix[1] \in Seq(Nat)
  BY <1>1
<1>3. H!numRows = Len(costMatrix) /\ H!numCols = Len(costMatrix[1]) /\ H!numCols \in Nat
  BY <1>2 DEF H!numRows, H!numCols
<1>4. ASSUME NEW i \in 1..H!numRows, NEW j \in 1..H!numCols PROVE costMatrix[i][j] \in Nat
  <2>1. costMatrix[i] \in Seq(Nat) /\ Len(costMatrix[i]) = H!numCols
    BY <1>1, <1>2, <1>3, <1>4
  <2>2. QED BY <2>1, <1>4
<1>5. /\ H!n \in Nat \ {0} /\ H!numRows <= H!n /\ H!numCols <= H!n
      /\ H!n = H!numRows \/ H!n = H!numCols
  BY <1>2, <1>3 DEF H!n
<1>6. ASSUME NEW i \in 1..H!n, NEW j \in 1..H!n PROVE H!mat(i, j) \in Nat
  BY <1>1, <1>2, <1>3, <1>4, <1>5 DEF H!mat
<1>7. IsMatrix(H!n, [i \in 1..H!n |-> [j \in 1..H!n |-> H!mat(i, j)]])
  BY <1>5, <1>6 DEF IsMatrix
<1>8. QED BY <1>1, <1>2, <1>3, <1>4, <1>5, <1>7

\* A call keeps its matrix.
LEMMA MatrixKept ==
  ASSUME NEW N, NEW M, IsMatrix(N, M), costMatrix' = costMatrix
  PROVE  IsMatrix(N, M)'
<1>1. H!numRows' = H!numRows /\ H!numCols' = H!numCols
  BY DEF H!numRows, H!numCols
<1>2. H!n' = H!n
  BY <1>1 DEF H!n
<1>3. ASSUME NEW i \in 1..N, NEW j \in 1..N PROVE (H!mat(i, j))' = H!mat(i, j)
  BY <1>1 DEF H!mat
<1>4. QED BY <1>2, <1>3 DEF IsMatrix

LEMMA InitHungarian == Init => HungarianInv
<1> SUFFICES ASSUME H!HungarianInit PROVE HungarianInv
  BY DEF Init
<1>1. costMatrix \in Matrices
  BY DEF H!HungarianInit
<1>2. PICK N, M : IsMatrix(N, M)
  BY <1>1, MatrixExists
<1>3. N \in Nat \ {0} /\ H!n = N
  BY <1>2 DEF IsMatrix
<1>4. /\ row = 0 /\ u = [j \in 0..N |-> 0] /\ v = [j \in 0..N |-> 0] /\ p = [j \in 0..N |-> 0]
      /\ way = [j \in 0..N |-> 0] /\ minDist = [j \in 0..N |-> 0] /\ used = {} /\ j0 = 0 /\ loop = "rows"
  BY <1>3 DEF H!HungarianInit, H!Zeros
<1>5. Fits(N, M)
  BY <1>3, <1>4 DEF Fits
<1>6. Matched(N, M, {0})
  BY <1>3, <1>4 DEF Matched
<1>7. PotentialInv(N, M)
  BY <1>4, <1>5, <1>6 DEF PotentialInv
<1>8. QED BY <1>1, <1>2, <1>7 DEF HungarianInv

LEMMA NextRowStep ==
  ASSUME NEW N, NEW M, IsMatrix(N, M), PotentialInv(N, M), H!NextRow
  PROVE  PotentialInv(N, M)'
<1>1. /\ loop = "rows" /\ row < N /\ row' = row + 1 /\ p' = [p EXCEPT ![0] = row + 1]
      /\ j0' = 0 /\ used' = {} /\ minDist' = [j \in 0..N |-> Infinity] /\ loop' = "grow"
      /\ u' = u /\ v' = v /\ way' = way
  BY DEF H!NextRow, IsMatrix
<1>2. /\ N \in Nat \ {0} /\ row \in 0..N /\ \A i, j \in 1..N : M[i][j] \in Nat
      /\ \A j \in 0..N : u[j] \in Int /\ v[j] \in Int /\ way[j] \in 0..N
      /\ \A i \in 1..row, j \in 1..N : u[i] + v[j] <= M[i][j]
      /\ \A i \in row + 1..N : u[i] = 0
      /\ \A j \in 1..N : v[j] <= 0
  BY DEF IsMatrix, PotentialInv, Fits
<1>3. /\ p' \in [0..N -> 0..N] /\ p'[0] = row + 1 /\ \A j \in 1..N : p'[j] = p[j] /\ p[j] \in 0..N
      /\ row' \in 0..N
  <2>1. N \in Nat /\ row \in 0..N /\ p \in [0..N -> 0..N]
    BY DEF IsMatrix, PotentialInv, Fits
  <2>2. row + 1 \in 0..N /\ 0 \in 0..N /\ p' = [p EXCEPT ![0] = row + 1]
    BY <1>1, <2>1
  <2>3. p' \in [0..N -> 0..N] /\ p'[0] = row + 1 /\ \A j \in (0..N) \ {0} : p'[j] = p[j] /\ p[j] \in 0..N
    BY <2>1, <2>2
  <2>4. \A j \in 1..N : j \in (0..N) \ {0}
    BY <2>1
  <2>5. QED BY <1>1, <2>2, <2>3, <2>4
<1>4. Fits(N, M)'
  <2>1. ASSUME NEW i \in 1..row', NEW j \in 1..N PROVE u'[i] + v'[j] <= M[i][j]
    <3>1. CASE i = row + 1
      <4>1. u[i] = 0 /\ v[j] <= 0 /\ v[j] \in Int /\ M[i][j] \in Nat
        <5>1. i \in row + 1..N /\ i \in 1..N /\ j \in 0..N
          BY <1>1, <1>2, <1>3, <3>1
        <5>2. QED BY <1>2, <5>1
      <4>2. QED BY <1>1, <4>1
    <3>2. CASE i # row + 1
      <4>1. i \in 1..row
        BY <1>1, <1>2, <3>2
      <4>2. QED BY <1>1, <1>2, <4>1
    <3>3. QED BY <3>1, <3>2
  <2>2. \A j \in 0..N : minDist'[j] \in Int \cup {Infinity}
    BY <1>1
  <2>3. \A i \in row' + 1..N : u'[i] = 0
    <3>1. \A i \in row' + 1..N : i \in row + 1..N
      BY <1>1, <1>2
    <3>2. QED BY <1>1, <1>2, <3>1
  <2>4. /\ j0' \in 0..N /\ used' \subseteq 0..N /\ loop' \in {"rows", "grow", "augment"}
        /\ \A j \in 0..N : way'[j] \in 0..N /\ u'[j] \in Int /\ v'[j] \in Int
        /\ \A j \in 1..N : v'[j] <= 0
    BY <1>1, <1>2
  <2>5. QED BY <1>3, <2>1, <2>2, <2>3, <2>4 DEF Fits
<1>5. Matched(N, M, {0})
  BY <1>1 DEF PotentialInv
<1>6. /\ \A j, k \in 1..N : p[j] = p[k] /\ p[j] # 0 => j = k
      /\ \A j \in 1..N : p[j] <= row /\ (p[j] # 0 => u[p[j]] + v[j] = M[p[j]][j])
      /\ \A i \in 1..row : \E j \in 1..N : p[j] = i
  <2>1. (0..N) \ {0} = 1..N /\ (1..N) \ {0} = 1..N
    BY <1>2
  <2>2. QED BY <1>5, <2>1 DEF Matched
<1>7. Matched(N, M, {})'
  <2>1. \A j \in 0..N : j = 0 \/ j \in 1..N
    BY <1>2
  <2>2. ASSUME NEW j \in 1..N PROVE p'[j] # p'[0]
    <3>1. p'[j] = p[j] /\ p[j] \in 0..N /\ p'[0] = row + 1
      BY <1>3
    <3>2. row \in Nat /\ p[j] <= row
      BY <1>2, <1>6
    <3>3. QED BY <3>1, <3>2
  <2>3. \A j, k \in 0..N : p'[j] = p'[k] /\ p'[j] # 0 => j = k
    BY <1>3, <1>6, <2>1, <2>2
  <2>4. \A i \in 1..row' : \E j \in 0..N : p'[j] = i
    <3> SUFFICES ASSUME NEW i \in 1..row' PROVE \E j \in 0..N : p'[j] = i
      OBVIOUS
    <3>1. CASE i = row + 1
      <4>1. 0 \in 0..N
        BY <1>2
      <4>2. QED BY <1>3, <3>1, <4>1
    <3>2. CASE i # row + 1
      <4>1. i \in 1..row
        BY <1>1, <1>2, <3>2
      <4>2. PICK j \in 1..N : p[j] = i
        BY <1>6, <4>1
      <4>3. j \in 0..N
        BY <4>2
      <4>4. QED BY <1>3, <4>2, <4>3
    <3>3. QED BY <3>1, <3>2
  <2>5. \A j \in 0..N : p'[j] <= row'
    <3>1. \A j \in 1..N : p[j] <= row + 1
      BY <1>2, <1>3, <1>6
    <3>2. QED BY <1>1, <1>2, <1>3, <2>1, <3>1
  <2>6. \A j \in 1..N : p'[j] # 0 => u'[p'[j]] + v'[j] = M[p'[j]][j]
    BY <1>1, <1>3, <1>6
  <2>7. QED BY <2>3, <2>4, <2>5, <2>6 DEF Matched
<1>8. Tree(N, M)'
  <2>1. [j \in 0..N |-> 0] \in [0..N -> Nat]
    OBVIOUS
  <2>2. p'[0] # 0
    BY <1>2, <1>3
  <2>3. /\ j0' \notin used' /\ (used' = {} => j0' = 0) /\ (used' # {} => 0 \in used')
        /\ \A j \in used' \cup {j0'} : j = 0
    BY <1>1
  <2>4. \A j \in used' \cup {j0'} : p'[j] # 0
    BY <2>2, <2>3
  <2>5. \E rank \in [0..N -> Nat] :
          /\ \A j \in used' : rank[j] < rank[j0']
          /\ \A j \in (used' \cup {j0'}) \ {0} : Reached(M, j)' /\ rank[way'[j]] < rank[j]
    BY <1>1, <2>1
  <2>6. QED BY <2>3, <2>4, <2>5 DEF Tree
<1>9. Frontier(N, M)'
  BY <1>1 DEF Frontier
<1>10. QED BY <1>1, <1>4, <1>7, <1>8, <1>9 DEF PotentialInv

\* One step back: the column that was empty has a row, the one it was reached from is empty now.
LEMMA AugmentStep ==
  ASSUME NEW N, NEW M, IsMatrix(N, M), PotentialInv(N, M), H!Augment
  PROVE  PotentialInv(N, M)'
<1>1. /\ loop = "augment" /\ p' = [p EXCEPT ![j0] = p[way[j0]]] /\ j0' = way[j0]
      /\ loop' = IF way[j0] = 0 THEN "rows" ELSE "augment"
      /\ row' = row /\ u' = u /\ v' = v /\ way' = way /\ minDist' = minDist /\ used' = used
  BY DEF H!Augment
<1>2. /\ N \in Nat \ {0} /\ row \in 0..N /\ j0 \in 0..N
      /\ used \subseteq 0..N /\ \A j \in 0..N : way[j] \in 0..N
  BY DEF IsMatrix, PotentialInv, Fits
<1>3. Fits(N, M) /\ Matched(N, M, {j0}) /\ Path(N, M) /\ j0 # 0
  BY <1>1 DEF PotentialInv, Path
<1>4. PICK rank \in [0..N -> Nat] :
        \A j \in (used \cup {j0}) \ {0} : rank[j] <= rank[j0] => Reached(M, j) /\ rank[way[j]] < rank[j]
  BY <1>3 DEF Path
<1>5. PICK w \in 0..N : w = way[j0]
  BY <1>2
<1>6. w \in used /\ rank[w] < rank[j0] /\ w # j0 /\ u[p[w]] + v[j0] = M[p[w]][j0]
  <2>1. rank[j0] \in Nat /\ rank[j0] <= rank[j0]
    BY <1>2
  <2>2. Reached(M, j0) /\ rank[w] < rank[j0]
    BY <1>3, <1>4, <1>5, <2>1
  <2>3. QED BY <1>5, <2>1, <2>2 DEF Reached
<1>7. /\ p' \in [0..N -> 0..N] /\ p'[j0] = p[w] /\ \A j \in (0..N) \ {j0} : p'[j] = p[j]
      /\ j0' = w
  <2>1. p \in [0..N -> 0..N]
    BY DEF PotentialInv, Fits
  <2>2. p' = [p EXCEPT ![j0] = p[w]] /\ p[w] \in 0..N
    BY <1>1, <1>5, <2>1
  <2>3. QED BY <1>1, <1>2, <1>5, <2>1, <2>2
<1>8. Fits(N, M)'
  BY <1>1, <1>3, <1>7 DEF Fits
<1>9. Matched(N, M, {w})'
  <2>1. \A j, k \in (0..N) \ {w} : p'[j] = p'[k] /\ p'[j] # 0 => j = k
    BY <1>3, <1>6, <1>7 DEF Matched
  <2>2. \A j \in (0..N) \ {w} : p'[j] <= row'
    BY <1>1, <1>3, <1>6, <1>7 DEF Matched
  <2>3. \A i \in 1..row' : \E j \in (0..N) \ {w} : p'[j] = i
    <3> SUFFICES ASSUME NEW i \in 1..row PROVE \E j \in (0..N) \ {w} : p'[j] = i
      BY <1>1
    <3>1. PICK j \in (0..N) \ {j0} : p[j] = i
      BY <1>3 DEF Matched
    <3>2. CASE j = w
      BY <1>2, <1>6, <1>7, <3>1, <3>2
    <3>3. CASE j # w
      BY <1>7, <3>1, <3>3
    <3>4. QED BY <3>2, <3>3
  <2>4. \A j \in (1..N) \ {w} : p'[j] # 0 => u'[p'[j]] + v'[j] = M[p'[j]][j]
    <3> SUFFICES ASSUME NEW j \in (1..N) \ {w}, p'[j] # 0 PROVE u[p'[j]] + v[j] = M[p'[j]][j]
      BY <1>1
    <3>1. CASE j = j0
      BY <1>6, <1>7, <3>1
    <3>2. CASE j # j0
      BY <1>3, <1>7, <3>2 DEF Matched
    <3>3. QED BY <3>1, <3>2
  <2>5. QED BY <2>1, <2>2, <2>3, <2>4 DEF Matched
<1>10. CASE w = 0
  <2>1. loop' = "rows"
    BY <1>1, <1>5, <1>10
  <2>2. QED BY <1>8, <1>9, <1>10, <2>1 DEF PotentialInv
<1>11. CASE w # 0
  <2>1. loop' = "augment"
    BY <1>1, <1>5, <1>11
  <2>2. ASSUME NEW j \in (used \cup {w}) \ {0}, rank[j] <= rank[w]
        PROVE  way[j] \in used /\ u[p'[way[j]]] + v[j] = M[p'[way[j]]][j] /\ rank[way[j]] < rank[j]
    <3>1. j \in used /\ j \in 0..N /\ rank[j] \in Nat /\ rank[w] \in Nat /\ rank[j0] \in Nat
      BY <1>2, <1>6, <2>2
    <3>2. rank[j] <= rank[j0] /\ way[j] \in 0..N /\ rank[way[j]] \in Nat
      BY <1>2, <1>6, <2>2, <3>1
    <3>3. Reached(M, j) /\ rank[way[j]] < rank[j]
      BY <1>4, <2>2, <3>1, <3>2
    <3>4. way[j] # j0
      BY <1>6, <2>2, <3>1, <3>2, <3>3
    <3>5. QED BY <1>7, <3>2, <3>3, <3>4 DEF Reached
  <2>3. \A j \in (used' \cup {j0'}) \ {0} :
          rank[j] <= rank[j0'] => Reached(M, j)' /\ rank[way'[j]] < rank[j]
    BY <1>1, <1>7, <2>2 DEF Reached
  <2>4. Path(N, M)'
    BY <1>7, <1>11, <2>3 DEF Path
  <2>5. QED BY <1>7, <1>8, <1>9, <2>1, <2>4 DEF PotentialInv
<1>12. QED BY <1>10, <1>11

\* Of columns with distances one is the first of the nearest.
LEMMA NearestIs ==
  ASSUME NEW S \in SUBSET Nat, S # {}, NEW d, \A j \in S : d[j] \in Nat
  PROVE  \E j \in S : \A k \in S : d[j] < d[k] \/ (d[j] = d[k] /\ j <= k)
<1> DEFINE Values == {d[j] : j \in S}
<1>1. Values \in SUBSET Nat /\ Values # {}
  OBVIOUS
<1>2. PICK x \in Values : \A y \in Values : x <= y
  BY <1>1, LeastNumber
<1> DEFINE Firsts == {j \in S : d[j] = x}
<1>3. Firsts \in SUBSET Nat /\ Firsts # {}
  BY <1>2
<1>4. PICK j \in Firsts : \A k \in Firsts : j <= k
  BY <1>3, LeastNumber
<1>5. ASSUME NEW k \in S PROVE d[j] < d[k] \/ (d[j] = d[k] /\ j <= k)
  <2>1. d[j] = x /\ d[k] \in Values /\ d[j] \in Nat /\ d[k] \in Nat
    BY <1>4
  <2>2. d[j] <= d[k]
    BY <1>2, <2>1
  <2>3. CASE d[k] = d[j]
    BY <1>4, <2>1, <2>3
  <2>4. QED BY <2>1, <2>2, <2>3
<1>6. QED BY <1>4, <1>5

\* Some column is outside the tree: every one inside has a row of its own, and so has column 0.
LEMMA SomeAreFree ==
  ASSUME NEW N, NEW M, IsMatrix(N, M), PotentialInv(N, M), loop = "grow"
  PROVE  (1..N) \ (used \cup {j0}) # {}
<1> SUFFICES ASSUME 1..N \subseteq used \cup {j0} PROVE FALSE
  OBVIOUS
<1>1. N \in Nat \ {0} /\ row \in 0..N /\ Matched(N, M, {}) /\ Tree(N, M) /\ \A j \in 0..N : p[j] \in 0..N
  BY DEF IsMatrix, PotentialInv, Fits
<1>2. \A j \in 0..N : p[j] \in 1..row /\ \A k \in 0..N : p[j] = p[k] => j = k
  <2>1. 0 \in used \cup {j0}
    BY <1>1 DEF Tree
  <2>2. \A j \in 0..N : j \in used \cup {j0}
    BY <1>1, <2>1
  <2>3. \A j \in 0..N : p[j] # 0 /\ p[j] <= row /\ p[j] \in 0..N
    BY <1>1, <2>2 DEF Tree, Matched
  <2>4. QED BY <1>1, <2>3 DEF Matched
<1>3. p \in [0..N -> 1..row]
  <2>1. p \in [0..N -> 0..N]
    BY DEF PotentialInv, Fits
  <2>2. QED BY <1>2, <2>1
<1>4. /\ IsFiniteSet(0..N) /\ Cardinality(0..N) = N + 1
      /\ IsFiniteSet(1..row) /\ Cardinality(1..row) = row
  <2>1. N \in Int /\ row \in Int /\ N >= 0 /\ row >= 0
    BY <1>1
  <2>2. QED BY <2>1, FS_Interval
<1>5. Cardinality(1..row) < Cardinality(0..N)
  BY <1>1, <1>4
<1>6. \E x, y \in 0..N : x # y /\ p[x] = p[y]
  BY <1>3, <1>4, <1>5, FS_PigeonHole
<1>7. QED BY <1>2, <1>6

\* The distances from the tree with j0 in it.
LEMMA DistancesAre ==
  ASSUME NEW N, NEW M, IsMatrix(N, M), PotentialInv(N, M), H!Grow,
         NEW tree, tree = used \cup {j0}
  PROVE  /\ \A k \in tree : p[k] \in 1..row
         /\ \A j \in (1..N) \ tree :
              /\ way'[j] \in tree /\ H!dist[j] \in Nat
              /\ H!dist[j] = M[p[way'[j]]][j] - u[p[way'[j]]] - v[j]
              /\ \A k \in tree : H!dist[j] <= M[p[k]][j] - u[p[k]] - v[j]
         /\ \A j \in tree : way'[j] = way[j]
         /\ \A j \in 0..N : way'[j] \in 0..N
<1>1. /\ loop = "grow" /\ N \in Nat \ {0} /\ row \in 0..N /\ used \subseteq 0..N /\ j0 \in 0..N
      /\ \A j \in 0..N : p[j] \in 0..N /\ u[j] \in Int /\ v[j] \in Int /\ way[j] \in 0..N
  BY DEF IsMatrix, PotentialInv, Fits, H!Grow
<1>2. /\ Matched(N, M, {}) /\ Tree(N, M) /\ Frontier(N, M) /\ \A i, j \in 1..N : M[i][j] \in Nat
      /\ \A i \in 1..row, j \in 1..N : u[i] + v[j] <= M[i][j]
      /\ \A j \in 0..N : minDist[j] \in Int \cup {Infinity}
  BY DEF IsMatrix, PotentialInv, Fits, H!Grow
<1>0. ASSUME NEW k \in tree PROVE p[k] \in 1..row /\ k \in 0..N /\ p[k] \in 1..N /\ p[k] \in 0..N
  <2>1. k \in 0..N
    BY <1>1
  <2>2. p[k] # 0 /\ p[k] <= row /\ p[k] \in 0..N
    BY <1>1, <1>2, <2>1 DEF Tree, Matched
  <2>3. QED BY <1>1, <2>1, <2>2
<1>3. /\ H!free = (1..N) \ tree /\ H!dist = [j \in 0..N |-> IF j \in H!closer THEN H!cur(j) ELSE minDist[j]]
      /\ way' = [j \in 0..N |-> IF j \in H!closer THEN j0 ELSE way[j]]
      /\ H!closer \subseteq H!free
      /\ \A j \in H!free : j \in H!closer <=> minDist[j] = Infinity \/ H!cur(j) < minDist[j]
  BY DEF H!Grow, H!free, H!dist, H!closer, H!inTree, IsMatrix
<1>4. ASSUME NEW j \in 1..N PROVE H!cur(j) = M[p[j0]][j] - u[p[j0]] - v[j]
  <2>1. p[j0] \in 1..N
    BY <1>0
  <2>2. H!mat(p[j0], j) = M[p[j0]][j]
    BY <2>1 DEF IsMatrix
  <2>3. QED BY <2>2 DEF H!cur
<1>5. Infinity \notin Int
  BY Bounds DEF H!HungarianOK
<1> DEFINE Slack(k, j) == M[p[k]][j] - u[p[k]] - v[j]
<1>6. ASSUME NEW j \in (1..N) \ tree, NEW k \in tree PROVE Slack(k, j) \in Nat
  <2>1. PICK i \in 1..row : i = p[k] /\ i \in 1..N /\ i \in 0..N
    BY <1>0
  <2>2. M[i][j] \in Nat /\ u[i] \in Int /\ v[j] \in Int /\ u[i] + v[j] <= M[i][j]
    BY <1>1, <1>2, <2>1
  <2>3. M[i][j] - u[i] - v[j] \in Nat
    BY <2>2
  <2>4. QED BY <2>1, <2>3
<1>7. ASSUME NEW j \in (1..N) \ tree
      PROVE  /\ way'[j] \in tree /\ H!dist[j] = Slack(way'[j], j) /\ H!dist[j] \in Nat
             /\ \A k \in tree : H!dist[j] <= Slack(k, j)
  <2> HIDE DEF Slack
  <2>1. H!cur(j) = Slack(j0, j)
    BY <1>4 DEF Slack
  <2>2. j \in H!free /\ j \in 0..N /\ j \notin used /\ j # j0
    BY <1>3
  <2>3. CASE j \in H!closer
    <3>1. way'[j] = j0 /\ H!dist[j] = Slack(j0, j)
      BY <1>3, <2>1, <2>2, <2>3
    <3>2. ASSUME NEW k \in used PROVE H!dist[j] <= Slack(k, j)
      <4>1. minDist[j] # Infinity /\ minDist[j] <= Slack(k, j)
        <5>1. used # {} /\ minDist[j] = Slack(way[j], j) /\ way[j] \in used /\ minDist[j] <= Slack(k, j)
          BY <1>2, <2>2, <3>2 DEF Frontier, Slack
        <5>2. Slack(way[j], j) \in Nat
          BY <1>6, <5>1
        <5>3. QED BY <1>5, <5>1, <5>2
      <4>2. H!cur(j) < minDist[j] /\ minDist[j] \in Int
        BY <1>2, <1>3, <2>2, <2>3, <4>1
      <4>3. Slack(j0, j) \in Nat /\ Slack(k, j) \in Nat
        BY <1>6
      <4>4. QED BY <2>1, <3>1, <4>1, <4>2, <4>3
    <3>3. Slack(j0, j) \in Nat
      BY <1>6
    <3>4. QED BY <3>1, <3>2, <3>3
  <2>4. CASE j \notin H!closer
    <3>1. way'[j] = way[j] /\ H!dist[j] = minDist[j] /\ minDist[j] # Infinity /\ ~(H!cur(j) < minDist[j])
      BY <1>3, <2>2, <2>4
    <3>2. used # {} /\ way[j] \in used /\ minDist[j] = Slack(way[j], j) /\ \A k \in used : minDist[j] <= Slack(k, j)
      BY <1>2, <2>2, <3>1 DEF Frontier, Slack
    <3>3. Slack(way[j], j) \in Nat /\ Slack(j0, j) \in Nat
      BY <1>6, <3>2
    <3>4. minDist[j] <= Slack(j0, j)
      BY <2>1, <3>1, <3>2, <3>3
    <3>5. QED BY <3>1, <3>2, <3>3, <3>4
  <2>5. QED BY <2>3, <2>4
<1>8. \A j \in tree : way'[j] = way[j]
  BY <1>0, <1>3
<1>9. \A j \in 0..N : way'[j] \in 0..N
  BY <1>1, <1>3
<1>10. QED BY <1>0, <1>7, <1>8, <1>9

LEMMA Shifted ==
  ASSUME NEW m \in Int, NEW x \in Int, NEW y \in Int, NEW z \in Int, NEW d \in Nat
  PROVE  /\ z <= m - x - y => z - d <= m - (x + d) - y
         /\ z = m - x - y => z - d = m - (x + d) - y
OBVIOUS

\* The tree takes in a column, and the potentials move by the distance of the next.
LEMMA GrowStep ==
  ASSUME NEW N, NEW M, IsMatrix(N, M), PotentialInv(N, M), H!Grow
  PROVE  PotentialInv(N, M)'
<1>1. /\ loop = "grow" /\ N \in Nat \ {0} /\ row \in 0..N /\ used \subseteq 0..N /\ j0 \in 0..N
      /\ \A j \in 0..N : p[j] \in 0..N /\ u[j] \in Int /\ v[j] \in Int
      /\ \A i, j \in 1..N : M[i][j] \in Nat
  BY DEF IsMatrix, PotentialInv, Fits, H!Grow
<1>0. Fits(N, M) /\ Matched(N, M, {}) /\ Tree(N, M)
  BY <1>1 DEF PotentialInv
<1>2. PICK tree : tree = used \cup {j0}
  OBVIOUS
<1>3. PICK far : far = H!dist
  OBVIOUS
<1>4. /\ \A k \in tree : p[k] \in 1..row
      /\ \A j \in (1..N) \ tree :
           /\ way'[j] \in tree /\ far[j] \in Nat
           /\ far[j] = M[p[way'[j]]][j] - u[p[way'[j]]] - v[j]
           /\ \A k \in tree : far[j] <= M[p[k]][j] - u[p[k]] - v[j]
      /\ \A j \in tree : way'[j] = way[j]
      /\ \A j \in 0..N : way'[j] \in 0..N
  <2>1. tree = used \cup {j0}
    BY <1>2
  <2>2. QED BY <1>3, <2>1, DistancesAre
<1>5. tree \subseteq 0..N /\ 0 \in tree /\ \A j \in 0..N : j \in tree \/ j \in (1..N) \ tree
  <2>1. tree \subseteq 0..N /\ 0 \in tree
    BY <1>0, <1>1, <1>2 DEF Tree
  <2>2. \A j \in 0..N : j = 0 \/ j \in 1..N
    BY <1>1
  <2>3. QED BY <2>1, <2>2
<1>6. PICK j1 \in (1..N) \ tree : j1 = H!nearest /\ \A k \in (1..N) \ tree : far[j1] <= far[k]
  <2>1. H!free = (1..N) \ tree
    BY <1>2 DEF H!free, H!inTree, IsMatrix
  <2>2. PICK S : S = (1..N) \ tree
    OBVIOUS
  <2>3. S \in SUBSET Nat /\ S # {} /\ \A j \in S : far[j] \in Nat
    <3>1. S # {}
      BY <1>1, <1>2, <2>2, SomeAreFree
    <3>2. S \in SUBSET Nat
      BY <1>1, <2>2
    <3>3. QED BY <1>4, <2>2, <3>1, <3>2
  <2>4. \E j \in S : \A k \in S : far[j] < far[k] \/ (far[j] = far[k] /\ j <= k)
    BY <2>3, NearestIs
  <2>5. H!nearest = CHOOSE j \in S : \A k \in S : far[j] < far[k] \/ (far[j] = far[k] /\ j <= k)
    BY <1>3, <2>1, <2>2 DEF H!nearest
  <2>6. H!nearest \in S /\ \A k \in S : far[H!nearest] < far[k] \/ far[H!nearest] = far[k]
    BY <2>4, <2>5
  <2>7. \A k \in S : far[H!nearest] <= far[k]
    BY <2>3, <2>6
  <2>8. QED BY <2>2, <2>6, <2>7
<1>7. PICK d \in Nat : d = far[j1]
  BY <1>4, <1>6
<1>8. /\ used' = tree /\ j0' = j1 /\ row' = row /\ p' = p
      /\ u' = [i \in 0..N |-> IF \E j \in tree : p[j] = i THEN u[i] + d ELSE u[i]]
      /\ v' = [j \in 0..N |-> IF j \in tree THEN v[j] - d ELSE v[j]]
      /\ minDist' = [j \in 0..N |-> IF j \in tree THEN far[j] ELSE far[j] - d]
      /\ loop' = IF p[j1] = 0 THEN "augment" ELSE "grow"
  BY <1>2, <1>3, <1>6, <1>7 DEF H!Grow, H!delta, H!inTree, IsMatrix
<1>9. /\ \A j \in 0..N : u'[j] \in Int /\ v'[j] \in Int
      /\ \A k \in tree : u'[p[k]] = u[p[k]] + d /\ v'[k] = v[k] - d
      /\ \A j \in (1..N) \ tree : v'[j] = v[j] /\ minDist'[j] = far[j] - d
      /\ \A i \in 0..N : (\A k \in tree : p[k] # i) => u'[i] = u[i]
  <2>1. ASSUME NEW i \in 0..N
        PROVE  /\ (\E k \in tree : p[k] = i) => u'[i] = u[i] + d
               /\ (\A k \in tree : p[k] # i) => u'[i] = u[i]
    BY <1>8
  <2>2. ASSUME NEW j \in 0..N
        PROVE  /\ j \in tree => v'[j] = v[j] - d
               /\ j \notin tree => v'[j] = v[j] /\ minDist'[j] = far[j] - d
    BY <1>8
  <2>3. ASSUME NEW i \in 0..N PROVE u'[i] \in Int /\ v'[i] \in Int
    <3>1. u[i] \in Int /\ v[i] \in Int /\ d \in Int
      BY <1>1, <1>7
    <3>2. (u'[i] = u[i] + d \/ u'[i] = u[i]) /\ (v'[i] = v[i] - d \/ v'[i] = v[i])
      BY <2>1, <2>2
    <3>3. QED BY <3>1, <3>2
  <2>4. \A k \in tree : k \in 0..N /\ p[k] \in 0..N
    BY <1>1, <1>5
  <2>5. \A j \in (1..N) \ tree : j \in 0..N
    BY <1>1
  <2>6. QED BY <2>1, <2>2, <2>3, <2>4, <2>5
<1>20. /\ \A i \in 1..row, j \in 1..N : u[i] + v[j] <= M[i][j]
       /\ \A i \in row + 1..N : u[i] = 0
       /\ \A j \in 1..N : v[j] <= 0
  BY <1>0 DEF Fits
<1>21. \A i \in 1..N : i \in 0..N
  OBVIOUS
<1>22. \A i \in 1..row : i \in 1..N
  BY <1>1
<1>10. Fits(N, M)'
  <2>1. ASSUME NEW i \in 1..row, NEW j \in 1..N PROVE u'[i] + v'[j] <= M[i][j]
    <3>1. u[i] \in Int /\ v[j] \in Int /\ M[i][j] \in Nat /\ u[i] + v[j] <= M[i][j]
      BY <1>1, <1>20, <1>21, <1>22
    <3>2. CASE \E k \in tree : p[k] = i
      <4>1. PICK k \in tree : p[k] = i
        BY <3>2
      <4>2. u'[i] = u[i] + d
        BY <1>9, <4>1
      <4>3. CASE j \in tree
        <5>1. v'[j] = v[j] - d
          BY <1>9, <4>3
        <5>2. QED BY <1>7, <3>1, <4>2, <5>1
      <4>4. CASE j \notin tree
        <5>1. v'[j] = v[j] /\ far[j] \in Nat /\ far[j] <= M[i][j] - u[i] - v[j] /\ d <= far[j]
          BY <1>4, <1>6, <1>7, <1>9, <4>1, <4>4
        <5>2. QED BY <1>7, <3>1, <4>2, <5>1
      <4>5. QED BY <4>3, <4>4
    <3>3. CASE \A k \in tree : p[k] # i
      <4>1. u'[i] = u[i]
        BY <1>9, <1>21, <1>22, <3>3
      <4>2. v'[j] = v[j] \/ v'[j] = v[j] - d
        BY <1>9
      <4>3. QED BY <1>7, <3>1, <4>1, <4>2
    <3>4. QED BY <3>2, <3>3
  <2>2. ASSUME NEW i \in row + 1..N PROVE u'[i] = 0
    <3>1. i \in 0..N /\ i \notin 1..row
      BY <1>1
    <3>2. \A k \in tree : p[k] # i
      BY <1>4, <3>1
    <3>3. QED BY <1>9, <1>20, <3>1, <3>2
  <2>3. ASSUME NEW j \in 1..N PROVE v'[j] <= 0
    <3>1. v'[j] = v[j] \/ v'[j] = v[j] - d
      BY <1>9
    <3>2. v[j] \in Int /\ v[j] <= 0
      BY <1>1, <1>20, <1>21
    <3>3. QED BY <1>7, <3>1, <3>2
  <2>4. ASSUME NEW j \in 0..N PROVE minDist'[j] \in Int \cup {Infinity}
    <3>1. CASE j \in tree
      <4>1. j \notin H!closer
        BY <1>2, <3>1 DEF H!closer, H!free, H!inTree
      <4>2. far[j] = minDist[j]
        BY <1>3, <4>1 DEF H!dist, IsMatrix
      <4>3. minDist'[j] = far[j]
        BY <1>8, <3>1
      <4>4. minDist[j] \in Int \cup {Infinity}
        BY <1>0 DEF Fits
      <4>5. QED BY <4>2, <4>3, <4>4
    <3>2. CASE j \notin tree
      <4>1. minDist'[j] = far[j] - d /\ far[j] \in Nat
        BY <1>4, <1>5, <1>9, <3>2
      <4>2. QED BY <1>7, <4>1
    <3>3. QED BY <3>1, <3>2
  <2>5. /\ row' \in 0..N /\ j0' \in 0..N /\ used' \subseteq 0..N
        /\ loop' \in {"rows", "grow", "augment"}
    BY <1>1, <1>5, <1>6, <1>8, <1>21
  <2>6. p' \in [0..N -> 0..N]
    BY <1>0, <1>8 DEF Fits
  <2>7. QED BY <1>4, <1>8, <1>9, <2>1, <2>2, <2>3, <2>4, <2>5, <2>6 DEF Fits
<1>11. Matched(N, M, {})'
  <2>1. ASSUME NEW j \in 1..N, p[j] # 0 PROVE u'[p[j]] + v'[j] = M[p[j]][j]
    <3>1. /\ u[p[j]] + v[j] = M[p[j]][j] /\ p[j] \in 1..N
          /\ u[p[j]] \in Int /\ v[j] \in Int
      <4>1. p[j] \in 0..N /\ j \in 0..N
        BY <1>1, <1>21
      <4>2. p[j] \in 1..N
        BY <1>1, <2>1, <4>1
      <4>3. u[p[j]] + v[j] = M[p[j]][j]
        BY <1>0, <2>1 DEF Matched
      <4>4. QED BY <1>1, <4>1, <4>2, <4>3
    <3>2. CASE j \in tree
      <4>1. u'[p[j]] = u[p[j]] + d /\ v'[j] = v[j] - d
        BY <1>9, <3>2
      <4>2. QED BY <1>7, <3>1, <4>1
    <3>3. CASE j \notin tree
      <4>1. \A k \in tree : p[k] # p[j]
        BY <1>0, <1>5, <1>21, <2>1, <3>3 DEF Matched
      <4>2. QED BY <1>9, <1>21, <3>1, <3>3, <4>1
    <3>4. QED BY <3>2, <3>3
  <2>2. /\ \A j, k \in 0..N : p[j] = p[k] /\ p[j] # 0 => j = k
        /\ \A j \in 0..N : p[j] <= row
        /\ \A i \in 1..row : \E j \in 0..N : p[j] = i
    BY <1>0 DEF Matched
  <2>3. QED BY <1>8, <2>1, <2>2 DEF Matched
<1>12. PICK rank \in [0..N -> Nat] :
         /\ \A j \in used : rank[j] < rank[j0]
         /\ \A j \in tree \ {0} : Reached(M, j) /\ rank[way[j]] < rank[j]
  BY <1>0, <1>2 DEF Tree
<1>13. PICK order : order = [rank EXCEPT ![j1] = rank[j0] + 1]
  OBVIOUS
<1>14. /\ order \in [0..N -> Nat] /\ order[j1] = rank[j0] + 1
       /\ \A j \in tree : order[j] = rank[j] /\ order[j] < order[j1]
  <2>1. order \in [0..N -> Nat] /\ order[j1] = rank[j0] + 1 /\ \A j \in tree : order[j] = rank[j]
    <3>1. rank[j0] + 1 \in Nat /\ j1 \in 0..N /\ j1 \notin tree
      BY <1>1, <1>6, <1>21
    <3>2. QED BY <1>5, <1>13, <3>1
  <2>2. ASSUME NEW j \in tree PROVE rank[j] < rank[j0] + 1
    <3>1. rank[j] \in Nat /\ rank[j0] \in Nat /\ (rank[j] < rank[j0] \/ j = j0)
      BY <1>1, <1>2, <1>5, <1>12
    <3>2. QED BY <3>1
  <2>3. QED BY <2>1, <2>2
<1>15. \A j \in (tree \cup {j1}) \ {0} :
         way'[j] \in tree /\ u'[p[way'[j]]] + v'[j] = M[p[way'[j]]][j] /\ order[way'[j]] < order[j]
  <2> SUFFICES ASSUME NEW j \in (tree \cup {j1}) \ {0}
               PROVE  /\ way'[j] \in tree /\ u'[p[way'[j]]] + v'[j] = M[p[way'[j]]][j]
                      /\ order[way'[j]] < order[j]
    OBVIOUS
  <2>1. CASE j \in tree
    <3>1. /\ way'[j] = way[j] /\ way[j] \in used /\ rank[way[j]] < rank[j]
          /\ u[p[way[j]]] + v[j] = M[p[way[j]]][j]
      BY <1>4, <1>12, <2>1 DEF Reached
    <3>2. way[j] \in tree /\ u'[p[way[j]]] = u[p[way[j]]] + d /\ v'[j] = v[j] - d
      BY <1>2, <1>9, <2>1, <3>1
    <3>3. u[p[way[j]]] \in Int /\ v[j] \in Int
      BY <1>1, <1>5, <2>1, <3>2
    <3>4. u'[p[way[j]]] + v'[j] = u[p[way[j]]] + v[j]
      BY <1>7, <3>2, <3>3
    <3>5. QED BY <1>14, <2>1, <3>1, <3>2, <3>4
  <2>2. CASE j = j1
    <3>1. PICK w \in tree : w = way'[j1]
      BY <1>4, <1>6
    <3>2. /\ d = M[p[w]][j1] - u[p[w]] - v[j1] /\ u'[p[w]] = u[p[w]] + d /\ v'[j1] = v[j1]
          /\ p[w] \in 1..row
      BY <1>4, <1>6, <1>7, <1>9, <3>1
    <3>3. M[p[w]][j1] \in Nat /\ u[p[w]] \in Int /\ v[j1] \in Int
      <4>1. p[w] \in 1..N /\ p[w] \in 0..N /\ j1 \in 0..N /\ j1 \in 1..N
        BY <1>6, <1>21, <1>22, <3>2
      <4>2. QED BY <1>1, <4>1
    <3>4. u'[p[w]] + v'[j1] = M[p[w]][j1]
      BY <1>7, <3>2, <3>3
    <3>5. QED BY <1>14, <2>2, <3>1, <3>4
  <2>3. QED BY <2>1, <2>2
<1>16. \A j \in (used' \cup {j0'}) \ {0} : Reached(M, j)' /\ order[way'[j]] < order[j]
  <2>1. used' = tree /\ j0' = j1 /\ p' = p
    BY <1>8
  <2>2. QED BY <1>15, <2>1 DEF Reached
<1>17. CASE p[j1] = 0
  <2>1. loop' = "augment"
    BY <1>8, <1>17
  <2>2. Matched(N, M, {j1})'
    <3>1. p'[j1] = 0 /\ \A i \in 1..row' : i # 0
      BY <1>8, <1>17
    <3>2. /\ \A j, k \in 0..N : p'[j] = p'[k] /\ p'[j] # 0 => j = k
          /\ \A j \in 0..N : p'[j] <= row'
          /\ \A i \in 1..row' : \E j \in 0..N : p'[j] = i
          /\ \A j \in 1..N : p'[j] # 0 => u'[p'[j]] + v'[j] = M[p'[j]][j]
      BY <1>11 DEF Matched
    <3>3. \A i \in 1..row' : \E j \in (0..N) \ {j1} : p'[j] = i
      <4> SUFFICES ASSUME NEW i \in 1..row' PROVE \E j \in (0..N) \ {j1} : p'[j] = i
        OBVIOUS
      <4>1. PICK j \in 0..N : p'[j] = i
        BY <3>2
      <4>2. j # j1
        BY <3>1, <4>1
      <4>3. QED BY <4>1, <4>2
    <3>4. QED BY <3>2, <3>3 DEF Matched
  <2>3. Path(N, M)'
    <3>1. j0' # 0
      BY <1>6, <1>8
    <3>2. order \in [0..N -> Nat]
      BY <1>14
    <3>3. QED BY <1>16, <3>1, <3>2 DEF Path
  <2>4. QED BY <1>8, <1>10, <2>1, <2>2, <2>3 DEF PotentialInv
<1>18. CASE p[j1] # 0
  <2>1. loop' = "grow"
    BY <1>8, <1>18
  <2>2. Tree(N, M)'
    <3>1. j0' \notin used' /\ used' # {} /\ 0 \in used'
      BY <1>5, <1>6, <1>8
    <3>2. \A j \in used' \cup {j0'} : p'[j] # 0
      <4>1. \A k \in tree : p[k] # 0
        BY <1>4
      <4>2. QED BY <1>8, <1>18, <4>1
    <3>3. \A j \in used' : order[j] < order[j0']
      BY <1>8, <1>14
    <3>4. QED BY <1>14, <1>16, <3>1, <3>2, <3>3 DEF Tree
  <2>3. Frontier(N, M)'
    <3> SUFFICES ASSUME NEW j \in (1..N) \ tree
                 PROVE  /\ way'[j] \in tree /\ minDist'[j] = M[p[way'[j]]][j] - u'[p[way'[j]]] - v'[j]
                        /\ \A k \in tree : minDist'[j] <= M[p[k]][j] - u'[p[k]] - v'[j]
      <4>1. used' = tree /\ j0' = j1 /\ p' = p /\ tree # {}
        BY <1>5, <1>8
      <4>2. QED BY <4>1 DEF Frontier
    <3>1. minDist'[j] = far[j] - d /\ v'[j] = v[j] /\ far[j] \in Nat /\ v[j] \in Int
      BY <1>1, <1>4, <1>9, <1>21
    <3>2. \A k \in tree : /\ M[p[k]][j] \in Nat /\ u[p[k]] \in Int /\ u'[p[k]] = u[p[k]] + d
                          /\ far[j] <= M[p[k]][j] - u[p[k]] - v[j]
      <4>1. \A k \in tree : p[k] \in 1..N /\ p[k] \in 0..N
        BY <1>4, <1>21, <1>22
      <4>2. \A k \in tree : M[p[k]][j] \in Nat /\ u[p[k]] \in Int
        BY <1>1, <4>1
      <4>3. \A k \in tree : u'[p[k]] = u[p[k]] + d
        BY <1>9, <4>1
      <4>4. \A k \in tree : far[j] <= M[p[k]][j] - u[p[k]] - v[j]
        BY <1>4
      <4>5. QED BY <4>2, <4>3, <4>4
    <3>3. \A k \in tree : minDist'[j] <= M[p[k]][j] - u'[p[k]] - v'[j]
      <4> SUFFICES ASSUME NEW k \in tree PROVE minDist'[j] <= M[p[k]][j] - u'[p[k]] - v'[j]
        OBVIOUS
      <4>1. /\ M[p[k]][j] \in Nat /\ u[p[k]] \in Int /\ u'[p[k]] = u[p[k]] + d
            /\ far[j] <= M[p[k]][j] - u[p[k]] - v[j]
        BY <3>2
      <4>2. PICK m \in Int, w \in Int, y \in Int, z \in Int :
              m = M[p[k]][j] /\ w = u[p[k]] /\ y = v[j] /\ z = far[j]
        BY <3>1, <4>1
      <4>3. z <= m - w - y
        BY <4>1, <4>2
      <4>4. z - d <= m - (w + d) - y
        BY <1>7, <4>3, Shifted
      <4>5. QED BY <3>1, <4>1, <4>2, <4>4
    <3>4. PICK w \in tree : w = way'[j]
      BY <1>4
    <3>5. far[j] = M[p[w]][j] - u[p[w]] - v[j]
      BY <1>4, <3>4
    <3>6. minDist'[j] = M[p[w]][j] - u'[p[w]] - v'[j]
      <4>1. M[p[w]][j] \in Nat /\ u[p[w]] \in Int /\ u'[p[w]] = u[p[w]] + d
        BY <3>2
      <4>2. PICK m \in Int, x \in Int, y \in Int, z \in Int :
              m = M[p[w]][j] /\ x = u[p[w]] /\ y = v[j] /\ z = far[j]
        BY <3>1, <4>1
      <4>3. z = m - x - y
        BY <3>5, <4>2
      <4>4. z - d = m - (x + d) - y
        BY <1>7, <4>3, Shifted
      <4>5. QED BY <3>1, <4>1, <4>2, <4>4
    <3>7. QED BY <3>3, <3>4, <3>6
  <2>4. QED BY <1>10, <1>11, <2>1, <2>2, <2>3 DEF PotentialInv
<1>19. QED BY <1>17, <1>18

LEMMA HungarianStep ==
  ASSUME HungarianInv, H!HungarianNext \/ UNCHANGED hungarianVars
  PROVE  HungarianInv'
<1>1. PICK N, M : IsMatrix(N, M) /\ PotentialInv(N, M)
  BY DEF HungarianInv
<1>2. costMatrix' = costMatrix
  BY DEF H!HungarianNext, H!NextRow, H!Grow, H!Augment, hungarianVars
<1>3. IsMatrix(N, M)'
  BY <1>1, <1>2, MatrixKept
<1>4. CASE UNCHANGED hungarianVars
  <2> USE DEF hungarianVars
  <2>1. Fits(N, M)' = Fits(N, M)
    BY <1>4 DEF Fits
  <2>2. \A X : Matched(N, M, X)' = Matched(N, M, X)
    BY <1>4 DEF Matched
  <2>3. Tree(N, M)' = Tree(N, M)
    BY <1>4 DEF Tree, Reached
  <2>4. Frontier(N, M)' = Frontier(N, M) /\ Path(N, M)' = Path(N, M)
    BY <1>4 DEF Frontier, Path, Reached
  <2>5. (loop = "augment" => Matched(N, M, {j0}))' = (loop = "augment" => Matched(N, M, {j0}))
    BY <1>4 DEF Matched
  <2>6. loop' = loop
    BY <1>4
  <2>7. PotentialInv(N, M)'
    BY <1>1, <2>1, <2>2, <2>3, <2>4, <2>5, <2>6 DEF PotentialInv
  <2>8. QED BY <1>2, <1>3, <2>7 DEF HungarianInv
<1>5. CASE H!HungarianNext
  <2>1. PotentialInv(N, M)'
    BY <1>1, <1>5, NextRowStep, GrowStep, AugmentStep DEF H!HungarianNext
  <2>2. QED BY <1>2, <1>3, <2>1 DEF HungarianInv
<1>6. QED BY <1>4, <1>5

-----------------------------------------------------------------------------
(* hungarian.ts: the potentials decide *)

LEMMA CostIs ==
  ASSUME NEW columns
  PROVE  H!Cost(columns) =
           SumOver([i \in 1..H!numRows |-> IF columns[i] = 0 THEN 0 ELSE costMatrix[i][columns[i]]], 1..H!numRows)
BY DEF H!Cost, H!MapThenFoldSet, SumOver, IsSum, Picked

LEMMA SizesAre ==
  ASSUME NEW N, NEW M, IsMatrix(N, M), costMatrix \in Matrices
  PROVE  /\ N \in Nat \ {0} /\ H!numRows \in 1..N /\ H!numCols \in 0..N
         /\ N = H!numRows \/ N = H!numCols
         /\ Padding \in Nat
         /\ \A i \in 1..H!numRows, j \in 1..H!numCols : M[i][j] = costMatrix[i][j]
         /\ \A i, j \in 1..N : M[i][j] \in Int /\ (i > H!numRows \/ j > H!numCols => M[i][j] = Padding)
<1>1. /\ N \in Nat \ {0} /\ H!n = N /\ \A i, j \in 1..N : M[i][j] \in Nat
      /\ \A i, j \in 1..N : H!mat(i, j) = M[i][j]
  BY DEF IsMatrix
<1>2. /\ H!numRows \in Nat \ {0} /\ H!numCols \in Nat /\ H!numRows <= N /\ H!numCols <= N
      /\ N = H!numRows \/ N = H!numCols
      /\ Padding \in Nat
  BY <1>1, MatrixExists
<1>3. \A i \in 1..H!numRows, j \in 1..H!numCols : M[i][j] = costMatrix[i][j]
  BY <1>1, <1>2 DEF H!mat
<1>4. ASSUME NEW i \in 1..N, NEW j \in 1..N, i > H!numRows \/ j > H!numCols PROVE M[i][j] = Padding
  BY <1>1, <1>2, <1>4 DEF H!mat
<1>5. \A i, j \in 1..N : M[i][j] \in Int
  BY <1>1
<1>6. QED BY <1>1, <1>2, <1>3, <1>4, <1>5

\* An assignment gives a column of the square to every row: a padded one to the rows without.
Completes(to, columns, N) ==
  /\ \A x \in 1..N : to[x] \in 1..N
  /\ \A x, y \in 1..N : to[x] = to[y] => x = y
  /\ \A x \in 1..H!numRows : IF columns[x] = 0 THEN to[x] > H!numCols ELSE to[x] = columns[x]

\* What a row costs with its column; nothing outside the matrix.
Share(M, to, x) == IF x <= H!numRows /\ to[x] <= H!numCols THEN M[x][to[x]] ELSE 0

LEMMA CostInSquare ==
  ASSUME NEW N, NEW M, IsMatrix(N, M), costMatrix \in Matrices,
         NEW columns, \A x \in 1..H!numRows : columns[x] \in 0..H!numCols,
         NEW to, Completes(to, columns, N)
  PROVE  H!Cost(columns) = SumOver([x \in 1..N |-> Share(M, to, x)], 1..N)
<1> DEFINE c == [i \in 1..H!numRows |-> IF columns[i] = 0 THEN 0 ELSE costMatrix[i][columns[i]]]
           d == [x \in 1..N |-> Share(M, to, x)]
<1>1. /\ N \in Nat \ {0} /\ H!numRows \in 1..N /\ H!numCols \in 0..N
      /\ \A i \in 1..H!numRows, j \in 1..H!numCols : M[i][j] = costMatrix[i][j]
      /\ \A i, j \in 1..N : M[i][j] \in Int
  BY SizesAre
<1>2. ASSUME NEW x \in 1..H!numRows PROVE c[x] \in Int /\ d[x] = c[x]
  <2>1. x \in 1..N /\ columns[x] \in 0..H!numCols /\ x <= H!numRows
    BY <1>1
  <2>2. CASE columns[x] = 0
    <3>1. to[x] > H!numCols /\ to[x] \in 1..N
      BY <2>1, <2>2 DEF Completes
    <3>2. Share(M, to, x) = 0
      BY <1>1, <3>1 DEF Share
    <3>3. QED BY <2>1, <2>2, <3>2
  <2>3. CASE columns[x] # 0
    <3>1. to[x] = columns[x] /\ columns[x] \in 1..H!numCols /\ columns[x] \in 1..N
      BY <1>1, <2>1, <2>3 DEF Completes
    <3>2. Share(M, to, x) = M[x][columns[x]] /\ M[x][columns[x]] \in Int
      BY <1>1, <2>1, <3>1 DEF Share
    <3>3. M[x][columns[x]] = costMatrix[x][columns[x]]
      BY <1>1, <3>1
    <3>4. QED BY <2>1, <2>3, <3>2, <3>3
  <2>4. QED BY <2>2, <2>3
<1>3. ASSUME NEW x \in (1..N) \ (1..H!numRows) PROVE d[x] = 0
  <2>1. ~(x <= H!numRows) /\ x \in 1..N
    BY <1>1
  <2>2. QED BY <2>1 DEF Share
<1>4. 1..H!numRows \in SUBSET (1..N) /\ IsFiniteSet(1..N)
  <2>1. IsFiniteSet(1..N)
    BY <1>1, FS_Interval
  <2>2. QED BY <1>1, <2>1
<1> DEFINE D == 1..N
           P == 1..H!numRows
<1> HIDE DEF c, d
<1>5. SumOver(d, D) = SumOver(c, P)
  <2>1. /\ \A x \in P : c[x] \in Int /\ d[x] = c[x]
        /\ \A x \in D \ P : d[x] = 0
        /\ P \in SUBSET D /\ IsFiniteSet(D)
    BY <1>2, <1>3, <1>4
  <2> HIDE DEF D, P
  <2>2. QED BY <2>1, SumOfPart
<1>6. QED BY <1>5, CostIs DEF c, d

LEMMA AssignmentCompletes ==
  ASSUME NEW N, NEW M, IsMatrix(N, M), costMatrix \in Matrices,
         NEW columns, \A x \in 1..H!numRows : columns[x] \in 0..H!numCols, H!IsAssignment(columns)
  PROVE  \E to : Completes(to, columns, N)
<1> DEFINE Given == {i \in 1..H!numRows : columns[i] # 0}
           Taken == {columns[i] : i \in Given}
           Least == IF H!numRows < H!numCols THEN H!numRows ELSE H!numCols
<1>1. /\ N \in Nat \ {0} /\ H!numRows \in 1..N /\ H!numCols \in 0..N
  BY SizesAre
<1>2. Given \in SUBSET (1..H!numRows) /\ Given \in SUBSET (1..N)
      /\ Taken \in SUBSET (1..H!numCols) /\ Taken \in SUBSET (1..N)
  <2>1. \A i \in Given : columns[i] \in 1..H!numCols
    BY <1>1
  <2>2. QED BY <1>1, <2>1
<1>3. /\ IsFiniteSet(1..N) /\ IsFiniteSet(1..H!numRows) /\ Cardinality(1..H!numRows) = H!numRows
      /\ IsFiniteSet(1..H!numCols) /\ Cardinality(1..H!numCols) = H!numCols /\ Cardinality(1..N) = N
  BY <1>1, FS_Interval
<1>4. IsFiniteSet(Given) /\ Cardinality(Given) = Least
  <2>1. IsFiniteSet(Given)
    <3> HIDE DEF Given
    <3>1. QED BY <1>2, <1>3, FS_Subset
  <2>2. QED BY <2>1 DEF H!IsAssignment, H!Cardinality, Cardinality
<1>5. \A i, k \in Given : columns[i] = columns[k] => i = k
  BY DEF H!IsAssignment
<1>6. IsFiniteSet(Taken) /\ Cardinality(Taken) = Least
  <2> DEFINE f == [i \in Given |-> columns[i]]
  <2>1. f \in Injection(Given, Taken)
    BY <1>5 DEF Injection, IsInjective
  <2>2. f \in Surjection(Given, Taken)
    BY DEF Surjection
  <2>3. ExistsBijection(Given, Taken)
    <3> HIDE DEF f, Given, Taken
    <3>1. QED BY <2>1, <2>2 DEF ExistsBijection, Bijection
  <2> HIDE DEF Given, Taken, f
  <2>4. QED BY <1>4, <2>3, FS_Bijection
<1> HIDE DEF Given, Taken
<1>7. PICK b : b \in Bijection((1..N) \ Given, (1..N) \ Taken)
  <2>1. IsFiniteSet((1..N) \ Given) /\ IsFiniteSet((1..N) \ Taken)
    BY <1>3, FS_Difference
  <2>2. (1..N) \cap Given = Given /\ (1..N) \cap Taken = Taken
    BY <1>2
  <2>3. Cardinality((1..N) \ Given) = N - Least /\ Cardinality((1..N) \ Taken) = N - Least
    <3> DEFINE D == 1..N
    <3>1. IsFiniteSet(D) /\ Cardinality(D) = N /\ D \cap Given = Given /\ D \cap Taken = Taken
      BY <1>3, <2>2
    <3> HIDE DEF D
    <3>2. /\ Cardinality(D \ Given) = Cardinality(D) - Cardinality(D \cap Given)
          /\ Cardinality(D \ Taken) = Cardinality(D) - Cardinality(D \cap Taken)
      BY <3>1, FS_Difference
    <3>3. Cardinality(D \ Given) = N - Least /\ Cardinality(D \ Taken) = N - Least
      <4> HIDE DEF Least
      <4>1. QED BY <1>4, <1>6, <3>1, <3>2
    <3>4. QED BY <3>3 DEF D
  <2>4. ExistsBijection((1..N) \ Given, (1..N) \ Taken)
    BY <2>1, <2>3, FS_SameCardinalityBij
  <2>5. QED BY <2>4 DEF ExistsBijection
<1>8. /\ \A x \in (1..N) \ Given : b[x] \in (1..N) \ Taken
      /\ \A x, y \in (1..N) \ Given : b[x] = b[y] => x = y
  BY <1>7 DEF Bijection, Injection, IsInjective
<1> DEFINE to == [x \in 1..N |-> IF x \in Given THEN columns[x] ELSE b[x]]
<1>9. \A x \in Given : columns[x] \in Taken
  BY DEF Taken
<1>10. \A x \in 1..N : to[x] \in 1..N
  BY <1>2, <1>8, <1>9
<1>11. ASSUME NEW x \in 1..N, NEW y \in 1..N, to[x] = to[y] PROVE x = y
  <2>1. CASE x \in Given /\ y \in Given
    BY <1>5, <1>11, <2>1
  <2>2. CASE x \notin Given /\ y \notin Given
    BY <1>8, <1>11, <2>2
  <2>3. CASE x \in Given /\ y \notin Given
    BY <1>8, <1>9, <1>11, <2>3
  <2>4. CASE x \notin Given /\ y \in Given
    BY <1>8, <1>9, <1>11, <2>4
  <2>5. QED BY <2>1, <2>2, <2>3, <2>4
<1>12. ASSUME NEW x \in 1..H!numRows PROVE IF columns[x] = 0 THEN to[x] > H!numCols ELSE to[x] = columns[x]
  <2>1. x \in 1..N
    BY <1>1
  <2>2. CASE columns[x] # 0
    BY <2>1, <2>2 DEF Given
  <2>3. CASE columns[x] = 0
    <3>1. x \notin Given /\ Given # 1..H!numRows
      BY <2>3 DEF Given
    <3>2. ~(H!numRows < H!numCols)
      <4>1. Cardinality(Given) # H!numRows
        BY <1>2, <1>3, <3>1, FS_Subset
      <4>2. QED BY <1>4, <4>1
    <3>3. Cardinality(Taken) = Cardinality(1..H!numCols)
      BY <1>3, <1>6, <3>2
    <3>4. Taken = 1..H!numCols
      BY <1>2, <1>3, <3>3, FS_Subset
    <3>5. to[x] = b[x] /\ b[x] \in (1..N) \ (1..H!numCols)
      BY <1>8, <2>1, <3>1, <3>4
    <3>6. to[x] > H!numCols
      BY <1>1, <3>5
    <3>7. QED BY <2>3, <3>6
  <2>4. QED BY <2>2, <2>3
<1>13. Completes(to, columns, N)
  BY <1>10, <1>11, <1>12 DEF Completes
<1>14. QED BY <1>13

\* When the rows are through, each has a column of its own, for which the potentials add up.
LEMMA ColumnsAre ==
  ASSUME NEW N, NEW M, IsMatrix(N, M), PotentialInv(N, M), H!Returned, NEW i \in 1..N
  PROVE  /\ H!ColumnOf(i) \in 1..N /\ p[H!ColumnOf(i)] = i
         /\ u[i] + v[H!ColumnOf(i)] = M[i][H!ColumnOf(i)]
<1>1. loop = "rows" /\ row = N /\ H!n = N /\ N \in Nat \ {0}
  BY DEF H!Returned, IsMatrix
<1>2. /\ \A k \in 1..row : \E j \in (0..N) \ {0} : p[j] = k
      /\ \A j \in (1..N) \ {0} : p[j] # 0 => u[p[j]] + v[j] = M[p[j]][j]
  BY <1>1 DEF PotentialInv, Matched
<1>3. \E j \in 1..N : p[j] = i
  BY <1>1, <1>2
<1>4. H!ColumnOf(i) \in 1..N /\ p[H!ColumnOf(i)] = i
  BY <1>1, <1>3 DEF H!ColumnOf
<1>5. H!ColumnOf(i) \in (1..N) \ {0} /\ p[H!ColumnOf(i)] # 0
  BY <1>4
<1>6. QED BY <1>2, <1>4, <1>5

LEMMA ResultIsAssignment ==
  ASSUME NEW N, NEW M, IsMatrix(N, M), PotentialInv(N, M), costMatrix \in Matrices, H!Returned
  PROVE  /\ \A x \in 1..H!numRows : H!Assignment[x] \in 0..H!numCols
         /\ H!IsAssignment(H!Assignment)
         /\ Completes([x \in 1..N |-> H!ColumnOf(x)], H!Assignment, N)
<1>1. /\ N \in Nat \ {0} /\ H!numRows \in 1..N /\ H!numCols \in 0..N
      /\ N = H!numRows \/ N = H!numCols
  BY SizesAre
<1>2. \A x \in 1..N : H!ColumnOf(x) \in 1..N /\ p[H!ColumnOf(x)] = x
  BY ColumnsAre
<1>3. \A x \in 1..H!numRows :
        /\ x \in 1..N
        /\ H!Assignment[x] = IF H!ColumnOf(x) <= H!numCols THEN H!ColumnOf(x) ELSE 0
  BY <1>1 DEF H!Assignment
<1>4. \A x \in 1..H!numRows :
        /\ H!Assignment[x] \in 0..H!numCols
        /\ H!Assignment[x] = 0 <=> H!ColumnOf(x) > H!numCols
        /\ H!Assignment[x] # 0 => H!Assignment[x] = H!ColumnOf(x)
  BY <1>1, <1>2, <1>3
<1>5. \A x, y \in 1..N : H!ColumnOf(x) = H!ColumnOf(y) => x = y
  BY <1>2
<1>6. Completes([x \in 1..N |-> H!ColumnOf(x)], H!Assignment, N)
  BY <1>2, <1>3, <1>4, <1>5 DEF Completes
<1> DEFINE Given == {i \in 1..H!numRows : H!Assignment[i] # 0}
<1>7. \A i, k \in 1..H!numRows : H!Assignment[i] = H!Assignment[k] /\ H!Assignment[i] # 0 => i = k
  BY <1>3, <1>4, <1>5
<1>8. Cardinality(Given) = IF H!numRows < H!numCols THEN H!numRows ELSE H!numCols
  <2>1. CASE H!numRows < H!numCols
    <3>1. N = H!numCols
      BY <1>1, <2>1
    <3>2. Given = 1..H!numRows
      BY <1>1, <1>2, <1>3, <1>4, <3>1
    <3>3. Cardinality(1..H!numRows) = H!numRows
      BY <1>1, FS_Interval
    <3>4. QED BY <2>1, <3>2, <3>3
  <2>2. CASE ~(H!numRows < H!numCols)
    <3>1. N = H!numRows
      BY <1>1, <2>2
    <3>2. \A j \in 1..H!numCols : p[j] \in Given /\ H!Assignment[p[j]] = j
      <4>1. \A j \in 1..N : \E x \in 1..N : H!ColumnOf(x) = j
        <5> DEFINE D == 1..N
                   turn == [x \in D |-> H!ColumnOf(x)]
        <5>1. turn \in Injection(D, D)
          BY <1>2, <1>5 DEF Injection, IsInjective
        <5>2. IsFiniteSet(D)
          BY <1>1, FS_Interval
        <5>3. turn \in Surjection(D, D)
          <6> HIDE DEF D, turn
          <6>1. QED BY <5>1, <5>2, FS_Injection
        <5>4. \A j \in D : \E x \in D : turn[x] = j
          BY <5>3 DEF Surjection
        <5>5. QED BY <5>4
      <4> SUFFICES ASSUME NEW j \in 1..H!numCols PROVE p[j] \in Given /\ H!Assignment[p[j]] = j
        OBVIOUS
      <4>2. PICK x \in 1..N : H!ColumnOf(x) = j
        BY <1>1, <4>1
      <4>3. p[j] = x /\ x \in 1..H!numRows
        BY <1>2, <3>1, <4>2
      <4>4. H!Assignment[x] = j /\ j # 0
        BY <1>1, <1>3, <4>2, <4>3
      <4>5. QED BY <4>3, <4>4
    <3>3. \A x \in Given : H!Assignment[x] \in 1..H!numCols
      BY <1>1, <1>4
    <3> DEFINE back == [x \in Given |-> H!Assignment[x]]
               P == 1..H!numCols
    <3>4. back \in Injection(Given, P)
      BY <1>7, <3>3 DEF Injection, IsInjective
    <3>5. back \in Surjection(Given, P)
      BY <3>2, <3>4 DEF Surjection, Injection
    <3>6. IsFiniteSet(P) /\ Cardinality(P) = H!numCols
      BY <1>1, FS_Interval
    <3> HIDE DEF back, Given, P
    <3>7. Cardinality(Given) = Cardinality(P)
      BY <3>4, <3>5, <3>6, FS_Injection
    <3>8. QED BY <2>2, <3>6, <3>7
  <2>3. QED BY <2>1, <2>2
<1>9. H!IsAssignment(H!Assignment)
  BY <1>7, <1>8 DEF H!IsAssignment, H!Cardinality, Cardinality
<1>10. QED BY <1>4, <1>6, <1>9

\* What the padded matrix has in a place outside the matrix.
Blank(i, j) == IF i <= H!numRows /\ j <= H!numCols THEN 0 ELSE Padding

\* The potentials less what is padded: those of the matrix itself.
LEMMA NoneIsCheaper ==
  ASSUME NEW N, NEW M, IsMatrix(N, M), PotentialInv(N, M), costMatrix \in Matrices, H!Returned,
         NEW other \in [1..H!numRows -> 0..H!numCols], H!IsAssignment(other)
  PROVE  H!Cost(H!Assignment) <= H!Cost(other)
<1>1. /\ N \in Nat \ {0} /\ H!numRows \in 1..N /\ H!numCols \in 0..N
      /\ N = H!numRows \/ N = H!numCols
      /\ Padding \in Nat
      /\ \A i, j \in 1..N : M[i][j] \in Int /\ (i > H!numRows \/ j > H!numCols => M[i][j] = Padding)
  BY SizesAre
<1>2. \A x \in 1..N : /\ H!ColumnOf(x) \in 1..N
                      /\ u[x] + v[H!ColumnOf(x)] = M[x][H!ColumnOf(x)]
  BY ColumnsAre
<1>3. /\ \A x \in 1..N : u[x] \in Int /\ v[x] \in Int
      /\ \A i, j \in 1..N : u[i] + v[j] <= M[i][j]
  <2>1. row = N /\ Fits(N, M)
    BY DEF H!Returned, PotentialInv, IsMatrix
  <2>2. \A x \in 1..N : x \in 0..N
    BY <1>1
  <2>3. QED BY <2>1, <2>2 DEF Fits
<1> DEFINE at == [x \in 1..N |-> H!ColumnOf(x)]
           D == 1..N
           c == [x \in 1..N |-> Share(M, at, x)]
<1>4. Completes(at, H!Assignment, N) /\ \A x \in 1..H!numRows : H!Assignment[x] \in 0..H!numCols
  BY ResultIsAssignment
<1>5. \A x \in 1..H!numRows : other[x] \in 0..H!numCols
  OBVIOUS
<1>6. PICK to : Completes(to, other, N)
  BY <1>5, AssignmentCompletes
<1> DEFINE d == [x \in 1..N |-> Share(M, to, x)]
           ofRow == [x \in 1..N |-> IF x > H!numRows THEN u[x] - Padding ELSE u[x]]
           ofColumn == [x \in 1..N |-> IF x > H!numCols THEN v[x] - Padding ELSE v[x]]
<1>7. \A x \in D : ofRow[x] \in Int /\ ofColumn[x] \in Int
  BY <1>1, <1>3
<1>8. ASSUME NEW i \in D, NEW j \in D
      PROVE  ofRow[i] + ofColumn[j] =
               u[i] + v[j] - Blank(i, j)
  <2>1. u[i] \in Int /\ v[j] \in Int
    BY <1>3
  <2>2. ofRow[i] = (IF i > H!numRows THEN u[i] - Padding ELSE u[i])
        /\ ofColumn[j] = (IF j > H!numCols THEN v[j] - Padding ELSE v[j])
    OBVIOUS
  <2>3. ~(i > H!numRows /\ j > H!numCols)
    BY <1>1
  <2> HIDE DEF ofRow, ofColumn
  <2>4. QED BY <1>1, <2>1, <2>2, <2>3 DEF Blank
<1>9. ASSUME NEW x \in D, NEW turn, turn[x] \in D
      PROVE  Share(M, turn, x) = M[x][turn[x]] - Blank(x, turn[x])
  <2>1. M[x][turn[x]] \in Int /\ (x > H!numRows \/ turn[x] > H!numCols => M[x][turn[x]] = Padding)
    BY <1>1, <1>9
  <2>2. QED BY <1>1, <1>9, <2>1 DEF Share, Blank
<1>10. \A x \in D : at[x] \in D
  BY <1>2
<1>11. \A x \in D : to[x] \in D
  BY <1>6 DEF Completes
<1>12. ASSUME NEW x \in D PROVE c[x] = ofRow[x] + ofColumn[at[x]]
  <2>1. at[x] \in D /\ u[x] + v[at[x]] = M[x][at[x]]
    BY <1>2
  <2>2. c[x] = Share(M, at, x)
    OBVIOUS
  <2> HIDE DEF at, c, ofRow, ofColumn
  <2>3. ofRow[x] + ofColumn[at[x]] =
          u[x] + v[at[x]] - Blank(x, at[x])
    BY <1>8, <2>1
  <2>4. Share(M, at, x) = M[x][at[x]] - Blank(x, at[x])
    BY <1>9, <2>1
  <2>5. u[x] + v[at[x]] - Blank(x, at[x]) = M[x][at[x]] - Blank(x, at[x])
    <3>1. u[x] \in Int /\ v[at[x]] \in Int /\ M[x][at[x]] \in Int
      BY <1>1, <1>3, <2>1
    <3>2. Blank(x, at[x]) \in Int
      BY <1>1 DEF Blank
    <3>3. QED BY <2>1, <3>1, <3>2
  <2>6. QED BY <2>2, <2>3, <2>4, <2>5
<1>13. ASSUME NEW x \in D PROVE d[x] \in Int /\ ofRow[x] + ofColumn[to[x]] <= d[x]
  <2>1. to[x] \in D /\ u[x] + v[to[x]] <= M[x][to[x]] /\ M[x][to[x]] \in Int
    BY <1>1, <1>3, <1>11
  <2>2. d[x] = Share(M, to, x)
    OBVIOUS
  <2>3. u[x] \in Int /\ v[to[x]] \in Int
    BY <1>3, <2>1
  <2> HIDE DEF d, ofRow, ofColumn
  <2>4. ofRow[x] + ofColumn[to[x]] =
          u[x] + v[to[x]] - Blank(x, to[x])
    BY <1>8, <2>1
  <2>5. Share(M, to, x) = M[x][to[x]] - Blank(x, to[x])
    BY <1>9, <2>1
  <2>6. Blank(x, to[x]) \in Int
    BY <1>1 DEF Blank
  <2>7. QED BY <2>1, <2>2, <2>3, <2>4, <2>5, <2>6
<1>14. IsFiniteSet(D)
  BY <1>1, FS_Interval
<1>15. /\ \A x, y \in D : at[x] = at[y] => x = y
       /\ \A x, y \in D : to[x] = to[y] => x = y
  BY <1>4, <1>6 DEF Completes
<1>16. SumOver(c, D) <= SumOver(d, D)
  <2> HIDE DEF D, at, c, d, ofRow, ofColumn
  <2>1. Decide(D, ofRow, ofColumn, at, to, c, d)
    BY <1>7, <1>10, <1>11, <1>12, <1>13, <1>15 DEF Decide
  <2>2. QED BY <1>14, <2>1, PotentialsDecide
<1>17. H!Cost(H!Assignment) = SumOver(c, D)
  <2> HIDE DEF at
  <2>1. QED BY <1>4, CostInSquare
<1>18. H!Cost(other) = SumOver(d, D)
  BY <1>5, <1>6, CostInSquare
<1>19. QED BY <1>16, <1>17, <1>18

-----------------------------------------------------------------------------
(* The theorem of the assignment *)

\* HungarianSolver (hungarian.ts): for every cost matrix, what the solver returns gives as many orders as
\* can be a warehouse of their own, and costs no more than any other way of doing so. While it runs the
\* potentials never exceed a cost, and add up to it where a row is assigned.
THEOREM CheapestAssigned == Spec => []AssignmentIsOptimal
<1> DEFINE Inv == part = "hungarian" => HungarianInv
<1>1. Init => Inv
  BY InitHungarian
<1>2. Inv /\ [Next]_vars => Inv'
  <2>1. [Next]_vars => part' = part
    BY DEF Next, Others, vars
  <2>2. ASSUME part = "hungarian", [Next]_vars PROVE H!HungarianNext \/ UNCHANGED hungarianVars
    BY <2>2 DEF Next, vars
  <2>3. QED BY <2>1, <2>2, HungarianStep
<1>3. Inv => AssignmentIsOptimal
  <2> SUFFICES ASSUME HungarianInv PROVE H!PotentialsFit /\ H!AssignmentOptimal
    BY DEF AssignmentIsOptimal
  <2>1. PICK N, M : IsMatrix(N, M) /\ PotentialInv(N, M)
    BY DEF HungarianInv
  <2>2. costMatrix \in Matrices
    BY DEF HungarianInv
  <2>3. H!PotentialsFit
    <3>1. H!n = N /\ N \in Nat \ {0} /\ \A i, j \in 1..N : H!mat(i, j) = M[i][j]
      BY <2>1 DEF IsMatrix
    <3>2. /\ row \in 0..N /\ p \in [0..N -> 0..N]
          /\ \A i \in 1..row, j \in 1..N : u[i] + v[j] <= M[i][j]
      BY <2>1 DEF PotentialInv, Fits
    <3>3. \A i \in 1..row : i \in 1..N
      BY <3>1, <3>2
    <3>4. \A i \in 1..row, j \in 1..H!n : u[i] + v[j] <= H!mat(i, j)
      BY <3>1, <3>2, <3>3
    <3>5. ASSUME loop = "rows", NEW j \in 1..H!n, p[j] # 0 PROVE u[p[j]] + v[j] = H!mat(p[j], j)
      <4>1. j \in (1..N) \ {0} /\ p[j] \in 1..N
        BY <3>1, <3>2, <3>5
      <4>2. u[p[j]] + v[j] = M[p[j]][j]
        BY <2>1, <3>5, <4>1 DEF PotentialInv, Matched
      <4>3. QED BY <3>1, <4>1, <4>2
    <3>6. QED BY <3>4, <3>5 DEF H!PotentialsFit
  <2>4. ASSUME H!Returned PROVE H!IsAssignment(H!Assignment)
    BY <2>1, <2>2, <2>4, ResultIsAssignment
  <2>5. ASSUME H!Returned, NEW other \in [1..H!numRows -> 0..H!numCols], H!IsAssignment(other)
        PROVE  H!Cost(H!Assignment) <= H!Cost(other)
    BY <2>1, <2>2, <2>5, NoneIsCheaper
  <2>6. QED BY <2>3, <2>4, <2>5 DEF H!AssignmentOptimal
<1>4. QED BY <1>1, <1>2, <1>3, PTL DEF Spec

-----------------------------------------------------------------------------
(* The types of all services: what the invariants above leave open *)

\* hungarian.ts: the arrays are as long as the matrix is wide.
Arrays ==
  /\ u = [j \in 0..H!n |-> u[j]] /\ v = [j \in 0..H!n |-> v[j]]
  /\ way = [j \in 0..H!n |-> way[j]] /\ minDist = [j \in 0..H!n |-> minDist[j]]

\* order.service.ts: a run that has chosen has a warehouse, and the costs it compared.
Compared(run) == run.warehouse \in Warehouses /\ \A w \in Warehouses : run.cost[w] \in Nat
Decisions == [order : Orders, assigned : Warehouses, runnerUp : Warehouses \cup {None}]
Chosen ==
  /\ decisions \in Seq(Decisions)
  /\ \A a \in Allocations : allocation[a].at \in {"update", "record"} => Compared(allocation[a])
  /\ crossed \subseteq Orders /\ unsynced \subseteq Warehouses

\* authentication-manager.ts: what is revoked or overtaken was issued.
Revocations ==
  /\ blacklist \subseteq A!Issued /\ late \subseteq A!Issued
  /\ resetToken \in BOOLEAN /\ locked \in BOOLEAN /\ unrevoked \in BOOLEAN
  /\ failed \in 0..MaxAttempts /\ recent \in Nat /\ epoch \in 0..MaxEpochs

\* jwt.ts: the token is accepted up to its expiry.
Acceptance == loggedOut \in BOOLEAN /\ seconds \subseteq 0..Expiry

\* sms-processor.ts: every copy is of a message that may still be retried, and a handler has one in hand from
\* its Send to its LREM or SET.
Retried(c) == c.of \in Messages /\ c.retries \in 0..MaxRetries
InHand == {"remove", "record", "retry", "give up", "drop"}
Copies ==
  /\ \A c \in pending : Retried(c)
  /\ \A x \in Executions : \A c \in todo[x] : Retried(c)
  /\ \A x \in Executions :
       /\ outer[x] = "idle" => handler[x] = "none"
       /\ handler[x] \in InHand => Retried(current[x])
       /\ handler[x] = "retry" => current[x].retries < MaxRetries
       /\ handler[x] \notin InHand => current[x] = None

-----------------------------------------------------------------------------

LEMMA ArraysInit == Init => Arrays
BY DEF Init, H!HungarianInit, H!Zeros, Arrays

LEMMA ArraysStep ==
  ASSUME Arrays, H!HungarianNext
  PROVE  Arrays'
<1>1. H!n' = H!n
  BY DEF H!HungarianNext, H!NextRow, H!Grow, H!Augment, H!n, H!numRows, H!numCols
<1>2. CASE H!NextRow
  BY <1>1, <1>2 DEF H!NextRow, Arrays
<1>3. CASE H!Grow
  BY <1>1, <1>3 DEF H!Grow, Arrays
<1>4. CASE H!Augment
  BY <1>1, <1>4 DEF H!Augment, Arrays
<1>5. QED BY <1>2, <1>3, <1>4 DEF H!HungarianNext

LEMMA ArraysAreTyped == HungarianInv /\ Arrays => H!HungarianTypeOK
<1> SUFFICES ASSUME HungarianInv, Arrays PROVE H!HungarianTypeOK
  OBVIOUS
<1>1. PICK N, M : IsMatrix(N, M) /\ PotentialInv(N, M)
  BY DEF HungarianInv
<1>2. H!n = N
  BY <1>1 DEF IsMatrix
<1>3. /\ row \in 0..N /\ j0 \in 0..N /\ used \subseteq 0..N /\ loop \in {"rows", "grow", "augment"}
      /\ p \in [0..N -> 0..N] /\ \A j \in 0..N : way[j] \in 0..N
      /\ \A j \in 0..N : u[j] \in Int /\ v[j] \in Int /\ minDist[j] \in Int \cup {Infinity}
  BY <1>1 DEF PotentialInv, Fits
<1>4. u \in [0..N -> Int] /\ v \in [0..N -> Int]
  BY <1>2, <1>3 DEF Arrays
<1>5. way \in [0..N -> 0..N] /\ minDist \in [0..N -> Int \cup {Infinity}]
  BY <1>2, <1>3 DEF Arrays
<1>6. QED BY <1>2, <1>3, <1>4, <1>5 DEF H!HungarianTypeOK

LEMMA AcceptanceStep ==
  ASSUME TokenInv, Acceptance, L!ApiAuthNext
  PROVE  Acceptance'
<1>1. CASE L!Accept
  <2>1. loggedOut' = loggedOut /\ (seconds' = seconds \/ seconds' = seconds \cup {L!Now})
    BY <1>1 DEF L!Accept
  <2>2. L!Now \in 0..Expiry
    <3>1. L!Now \in Nat /\ Expiry \in Nat
      BY NowIs, Bounds DEF L!ApiAuthOK
    <3>2. L!Now <= Expiry
      BY <1>1 DEF L!Accept, L!Verified
    <3>3. QED BY <3>1, <3>2
  <2>3. QED BY <2>1, <2>2 DEF Acceptance
<1>2. CASE L!LogOut
  BY <1>2 DEF L!LogOut, Acceptance
<1>3. CASE L!Tick \/ L!AttemptsExpire
  BY <1>3 DEF L!Tick, L!AttemptsExpire, L!tokenVars, Acceptance
<1>4. ASSUME NEW c \in Logins,
             \/ L!CheckLockout(c) \/ L!Compare(c) \/ L!IncrAttempts(c) \/ L!ExpireAttempts(c)
             \/ L!ClearLockout(c) \/ L!RecordFails(c)
      PROVE  Acceptance'
  BY <1>4 DEF L!CheckLockout, L!Compare, L!IncrAttempts, L!ExpireAttempts, L!ClearLockout, L!RecordFails,
              L!tokenVars, Acceptance
<1>5. QED BY <1>1, <1>2, <1>3, <1>4 DEF L!ApiAuthNext

LEMMA LockoutIsTyped == TokenInv /\ LockoutInv /\ Acceptance => L!ApiAuthTypeOK
BY DEF TokenInv, LockoutInv, Acceptance, L!ApiAuthTypeOK

\* A token that is stored is a new one.
LEMMA OneMoreIssued ==
  ASSUME AuthInv, NEW c \in Calls, A!StoreToken(c)
  PROVE  A!Issued \subseteq A!Issued' /\ late' \subseteq late \cup A!Issued'
<1>1. PICK k \in Nat : issuedIn \in [1..k -> Nat]
  BY DEF AuthInv, TokensOK
<1>2. A!Issued = 1..k /\ A!Cardinality(A!Issued) = k
  BY <1>1, IssuedAre
<1>3. /\ issuedIn' = [t \in 1..k + 1 |-> IF t = k + 1 THEN call[c].epoch ELSE issuedIn[t]]
      /\ late' = late \/ late' = late \cup {k + 1}
  BY <1>2 DEF A!StoreToken
<1>4. IsFiniteSet(1..k + 1) /\ Cardinality(1..k + 1) = k + 1
  BY FS_Interval
<1>5. DOMAIN issuedIn' = 1..k + 1
  BY <1>3
<1>6. A!Issued' = 1..k + 1
  BY <1>4, <1>5 DEF A!Issued, A!Cardinality, Cardinality
<1>7. k + 1 \in 1..k + 1 /\ 1..k \subseteq 1..k + 1
  OBVIOUS
<1>8. QED BY <1>2, <1>3, <1>6, <1>7

LEMMA RevocationsStep ==
  ASSUME AuthInv, Revocations, AttemptsInv', A!AuthNext
  PROVE  Revocations'
<1> USE DEF A!tableVars, A!pastVars, A!lockVars
<1>1. recent' \in Nat /\ MaxAttempts \in Nat \ {0} /\ MaxEpochs \in Nat
  BY Bounds DEF A!AuthOK, AttemptsInv
<1>2. ASSUME NEW c \in Calls, A!StoreToken(c) PROVE Revocations'
  <2>1. A!Issued \subseteq A!Issued' /\ late' \subseteq late \cup A!Issued'
    BY <1>2, OneMoreIssued
  <2>2. UNCHANGED <<resetToken, blacklist, failed, locked, recent, epoch, unrevoked>>
    BY <1>2 DEF A!StoreToken
  <2>3. QED BY <2>1, <2>2 DEF Revocations
<1>3. ASSUME UNCHANGED issuedIn PROVE A!Issued' = A!Issued
  BY <1>3 DEF A!Issued
<1>4. ASSUME NEW c \in Calls,
             \/ A!CheckBruteForce(c) \/ A!SelectUser(c) \/ A!InsertAttempt(c) \/ A!DropOldToken(c)
             \/ A!BeginChange(c) \/ A!BeginReset(c)
      PROVE  Revocations'
  <2>1. UNCHANGED <<blacklist, late, resetToken, locked, unrevoked, failed, epoch, issuedIn>>
    BY <1>4 DEF A!CheckBruteForce, A!SelectUser, A!InsertAttempt, A!DropOldToken, A!BeginChange, A!BeginReset
  <2>2. QED BY <1>1, <1>3, <2>1 DEF Revocations
<1>5. ASSUME NEW c \in Calls, A!PasswordRight(c) \/ A!PasswordWrong(c) PROVE Revocations'
  <2>1. UNCHANGED <<blacklist, late, resetToken, unrevoked, epoch, issuedIn>>
    BY <1>5 DEF A!PasswordRight, A!PasswordWrong
  <2>2. failed' = 0 \/ failed' = (IF failed < MaxAttempts THEN failed + 1 ELSE failed)
    BY <1>5 DEF A!PasswordRight, A!PasswordWrong
  <2>3. locked' = FALSE \/ locked' = (locked \/ failed' >= MaxAttempts)
    BY <1>5 DEF A!PasswordRight, A!PasswordWrong
  <2>4. failed' \in 0..MaxAttempts
    BY <1>1, <2>2 DEF Revocations
  <2>5. locked' \in BOOLEAN
    BY <2>3 DEF Revocations
  <2>6. QED BY <1>1, <1>3, <2>1, <2>4, <2>5 DEF Revocations
<1>6. ASSUME NEW c \in Calls, A!RequestReset(c) \/ A!ClearResetToken(c) \/ A!RevokeTokens(c)
      PROVE  Revocations'
  <2>1. UNCHANGED <<blacklist, late, locked, failed, epoch, issuedIn>>
    BY <1>6 DEF A!RequestReset, A!ClearResetToken, A!RevokeTokens
  <2>2. resetToken' \in BOOLEAN /\ unrevoked' \in BOOLEAN
    BY <1>6 DEF A!RequestReset, A!ClearResetToken, A!RevokeTokens, Revocations
  <2>3. QED BY <1>1, <1>3, <2>1, <2>2 DEF Revocations
<1>7. ASSUME NEW c \in Calls, A!UpdatePassword(c) PROVE Revocations'
  <2>1. UNCHANGED <<blacklist, late, resetToken, locked, unrevoked, failed, issuedIn>>
    BY <1>7 DEF A!UpdatePassword
  <2>2. epoch' \in 0..MaxEpochs
    BY <1>1, <1>7 DEF A!UpdatePassword, Revocations
  <2>3. QED BY <1>1, <1>3, <2>1, <2>2 DEF Revocations
<1>8. ASSUME NEW c \in Calls, A!AuthCallFails(c) PROVE Revocations'
  <2>1. UNCHANGED <<blacklist, late, resetToken, locked, failed, epoch, issuedIn>>
    BY <1>8 DEF A!AuthCallFails
  <2>2. unrevoked' \in BOOLEAN
    BY <1>8 DEF A!AuthCallFails
  <2>3. QED BY <1>1, <1>3, <2>1, <2>2 DEF Revocations
<1>9. ASSUME NEW c \in Calls, NEW t \in A!Issued, A!BeginRefresh(c, t) PROVE Revocations'
  <2>1. UNCHANGED <<blacklist, late, resetToken, locked, unrevoked, failed, epoch, issuedIn>>
    BY <1>9 DEF A!BeginRefresh
  <2>2. QED BY <1>1, <1>3, <2>1 DEF Revocations
<1>10. ASSUME NEW c \in Calls, NEW t \in A!Issued, A!Logout(c, t) PROVE Revocations'
  <2>1. UNCHANGED <<late, resetToken, locked, failed, issuedIn>> /\ blacklist' = blacklist \cup {t}
    BY <1>10 DEF A!Logout
  <2>2. epoch' \in 0..MaxEpochs
    BY <1>1, <1>10 DEF A!Logout, Revocations
  <2>3. unrevoked' \in BOOLEAN
    BY <1>10 DEF A!Logout
  <2>4. QED BY <1>1, <1>3, <2>1, <2>2, <2>3 DEF Revocations
<1>11. CASE A!ResetTokenExpires \/ A!LockEnds \/ A!AttemptAges
  <2>1. UNCHANGED <<blacklist, late, unrevoked, failed, epoch, issuedIn>>
    BY <1>11 DEF A!ResetTokenExpires, A!LockEnds, A!AttemptAges
  <2>2. resetToken' \in BOOLEAN /\ locked' \in BOOLEAN
    BY <1>11 DEF A!ResetTokenExpires, A!LockEnds, A!AttemptAges, Revocations
  <2>3. QED BY <1>1, <1>3, <2>1, <2>2 DEF Revocations
<1>12. QED BY <1>2, <1>4, <1>5, <1>6, <1>7, <1>8, <1>9, <1>10, <1>11 DEF A!AuthNext

LEMMA AuthIsTyped == AuthInv /\ Revocations => A!AuthTypeOK
<1> SUFFICES ASSUME AuthInv, Revocations PROVE A!AuthTypeOK
  OBVIOUS
<1>1. refreshTokens \subseteq A!Issued
  BY DEF AuthInv, TokensOK
<1>2. epoch \in Nat /\ \A c \in Calls : /\ call[c].token \in A!Issued \cup {0} /\ call[c].epoch \in Nat
                                        /\ call[c].epoch <= epoch
  BY DEF AuthInv, TokensOK
<1>3. \A c \in Calls : call[c].epoch \in 0..epoch
  BY <1>2
<1>4. QED BY <1>1, <1>2, <1>3 DEF Revocations, A!AuthTypeOK

-----------------------------------------------------------------------------

LEMMA FailuresBounded ==
  ASSUME B!BillingTypeOK, B!CallFails \/ billingFailures' = billingFailures
  PROVE  billingFailures' \in 0..MaxBillingFailures
BY BillingConstants DEF B!BillingTypeOK, B!CallFails

LEMMA StripeTyped ==
  ASSUME B!BillingTypeOK, StripeInv', B!StripeNext
  PROVE  B!BillingTypeOK'
<1>1. /\ event' \in [Events -> StripeEvents \cup {None}]
      /\ delivery' \in [Events -> {"idle", "active", "past_due", "update"}]
      /\ stored' \in StoredRows \cup {None}
  BY DEF StripeInv, StripeTypes
<1>2. UNCHANGED <<retryCount, inWindow, suspended>>
  BY DEF B!StripeNext, B!paymentVars, B!CreateCustomer, B!CreateInStripe, B!StoreSubscription, B!CreateFails,
         B!StripeEvent, B!Receive, B!InvoicePaid, B!FindFailed, B!PaymentFailed, B!DeliveryFails
<1>3. B!CallFails \/ billingFailures' = billingFailures
  BY DEF B!StripeNext, B!CreateCustomer, B!CreateInStripe, B!StoreSubscription, B!CreateFails,
         B!StripeEvent, B!Receive, B!InvoicePaid, B!FindFailed, B!PaymentFailed, B!DeliveryFails
<1>4. billingFailures' \in 0..MaxBillingFailures
  BY <1>3, FailuresBounded
<1>5. \A e \in Events : event'[e] = None \/ event'[e].of \in Subscriptions
  BY <1>1 DEF StripeEvents
<1>6. QED BY <1>1, <1>2, <1>4, <1>5 DEF B!BillingTypeOK, StoredRows, Statuses

LEMMA PaymentTyped ==
  ASSUME B!BillingTypeOK, PaymentInv', B!PaymentNext
  PROVE  B!BillingTypeOK'
<1>1. UNCHANGED <<event, delivery, stored>>
  BY DEF B!PaymentNext, B!stripeVars, B!ReadFailures, B!CountFailure, B!PaymentCallFails, B!ResetFailures,
         B!ThirtyDaysPass
<1>2. retryCount' = None \/ retryCount' \in 0..SuspendAt - 1
  BY DEF PaymentInv, CountsOK
<1>3. suspended' \in BOOLEAN /\ inWindow' \in BOOLEAN
  BY DEF B!PaymentNext, B!ReadFailures, B!CountFailure, B!PaymentCallFails, B!ResetFailures,
         B!ThirtyDaysPass, B!BillingTypeOK
<1>4. B!CallFails \/ billingFailures' = billingFailures
  BY DEF B!PaymentNext, B!ReadFailures, B!CountFailure, B!PaymentCallFails, B!ResetFailures, B!ThirtyDaysPass
<1>5. billingFailures' \in 0..MaxBillingFailures
  BY <1>4, FailuresBounded
<1>6. QED BY <1>1, <1>2, <1>3, <1>5 DEF B!BillingTypeOK

-----------------------------------------------------------------------------

LEMMA CopiesInit == Init => Copies
<1> SUFFICES ASSUME J!JobsInit PROVE Copies
  BY DEF Init
<1>1. PICK retries \in [Messages -> 0..MaxRetries] : pending = {J!Copy(m, retries[m], None) : m \in Messages}
  BY DEF J!JobsInit
<1>2. \A m \in Messages : Retried(J!Copy(m, retries[m], None))
  BY <1>1 DEF J!Copy, Retried
<1>3. \A c \in pending : Retried(c)
  BY <1>1, <1>2
<1>4. \A x \in Executions : /\ todo[x] = {} /\ handler[x] = "none" /\ current[x] = None
  BY DEF J!JobsInit
<1>5. QED BY <1>3, <1>4 DEF Copies, InHand

\* What the handler holds in a step of one execution.
LEMMA CopiesKept ==
  ASSUME Copies, \A c \in pending' : Retried(c),
         NEW x \in Executions,
         \A y \in Executions \ {x} :
           todo'[y] = todo[y] /\ current'[y] = current[y] /\ handler'[y] = handler[y] /\ outer'[y] = outer[y],
         todo'[x] \subseteq todo[x] \cup pending,
         outer'[x] = "idle" => handler'[x] = "none",
         handler'[x] \in InHand => Retried(current'[x]),
         handler'[x] = "retry" => current'[x].retries < MaxRetries,
         handler'[x] \notin InHand => current'[x] = None
  PROVE  Copies'
<1>1. \A c \in todo'[x] : Retried(c)
  BY DEF Copies
<1>2. \A y \in Executions \ {x} : \A c \in todo'[y] : Retried(c)
  BY DEF Copies
<1>3. \A y \in Executions \ {x} :
        /\ outer'[y] = "idle" => handler'[y] = "none"
        /\ handler'[y] \in InHand => Retried(current'[y])
        /\ handler'[y] = "retry" => current'[y].retries < MaxRetries
        /\ handler'[y] \notin InHand => current'[y] = None
  BY DEF Copies
<1>4. QED BY <1>1, <1>2, <1>3 DEF Copies, Retried, InHand

LEMMA LocksKeepCopies ==
  ASSUME JobsInv, Copies,
         \/ J!LockExpires
         \/ \E x \in Executions : \/ J!AcquireFails(x) \/ J!Settle(x) \/ J!ReadLock(x) \/ J!DeleteLock(x)
                                  \/ J!ReleaseFails(x)
  PROVE  Copies'
<1>1. UNCHANGED <<handler, todo, current, pending>>
  BY DEF J!LockExpires, J!AcquireFails, J!Settle, J!ReadLock, J!DeleteLock, J!ReleaseFails, J!smsVars
<1>2. \A y \in Executions : outer'[y] = "idle" => outer[y] = "idle"
  BY DEF J!LockExpires, J!AcquireFails, J!Settle, J!ReadLock, J!DeleteLock, J!ReleaseFails, J!Outer,
         JobsInv, JobsTypes
<1>3. QED BY <1>1, <1>2 DEF Copies, Retried, InHand

LEMMA RunsKeepCopies ==
  ASSUME JobsInv, Copies, NEW x \in Executions, J!Acquire(x) \/ J!JobCrash(x) \/ J!ListPending(x) \/ J!RunEnds(x)
  PROVE  Copies'
<1>1. /\ DOMAIN todo = Executions /\ DOMAIN current = Executions /\ DOMAIN outer = Executions
      /\ DOMAIN handler = Executions
  BY DEF JobsInv, JobsTypes
<1>2. pending' = pending /\ \A c \in pending : Retried(c)
  BY DEF J!Acquire, J!JobCrash, J!ListPending, J!RunEnds, J!smsVars, Copies
<1>3. \A y \in Executions \ {x} :
        todo'[y] = todo[y] /\ current'[y] = current[y] /\ handler'[y] = handler[y] /\ outer'[y] = outer[y]
  BY <1>1 DEF J!Acquire, J!JobCrash, J!ListPending, J!RunEnds, J!Handler
<1>4. todo'[x] \subseteq todo[x] \cup pending
  BY <1>1 DEF J!Acquire, J!JobCrash, J!ListPending, J!RunEnds
<1>5. CASE J!Acquire(x)
  <2>1. handler[x] = "none" /\ current[x] = None
    BY <1>5 DEF J!Acquire, Copies, InHand
  <2>2. outer'[x] # "idle" /\ handler'[x] \in {"none", "list"} /\ current'[x] = None
    BY <1>1, <1>5, <2>1 DEF J!Acquire
  <2>3. QED BY <1>2, <1>3, <1>4, <2>2, CopiesKept DEF InHand
<1>6. CASE J!JobCrash(x)
  <2>1. outer'[x] = "done" /\ handler'[x] = "ended" /\ current'[x] = None
    BY <1>1, <1>6 DEF J!JobCrash
  <2>2. QED BY <1>2, <1>3, <1>4, <2>1, CopiesKept DEF InHand
<1>7. CASE J!ListPending(x) \/ J!RunEnds(x)
  <2>1. handler[x] \in {"list", "next"} /\ handler'[x] \in {"next", "ended"} /\ UNCHANGED <<current, outer>>
    BY <1>1, <1>7 DEF J!ListPending, J!RunEnds, J!Handler
  <2>2. outer'[x] # "idle" /\ current'[x] = None
    BY <2>1 DEF Copies, InHand
  <2>3. QED BY <1>2, <1>3, <1>4, <2>1, <2>2, CopiesKept DEF InHand
<1>8. QED BY <1>5, <1>6, <1>7

LEMMA SendingKeepsCopies ==
  ASSUME JobsInv, Copies, NEW x \in Executions,
         J!NotDue(x) \/ J!Send(x) \/ J!Record(x) \/ J!SendFails(x) \/ J!GiveUp(x) \/ J!RunFails(x)
  PROVE  Copies'
<1>1. /\ DOMAIN todo = Executions /\ DOMAIN current = Executions /\ DOMAIN outer = Executions
      /\ DOMAIN handler = Executions
  BY DEF JobsInv, JobsTypes
<1>2. pending' = pending /\ outer' = outer /\ \A c \in pending : Retried(c)
  BY DEF J!NotDue, J!Send, J!Record, J!SendFails, J!GiveUp, J!RunFails, J!smsVars, Copies
<1>3. handler[x] # "none" /\ outer'[x] # "idle"
  BY <1>2 DEF J!NotDue, J!Send, J!Record, J!SendFails, J!GiveUp, J!RunFails, J!Handler, Copies
<1>4. \A y \in Executions \ {x} :
        todo'[y] = todo[y] /\ current'[y] = current[y] /\ handler'[y] = handler[y] /\ outer'[y] = outer[y]
  BY <1>1, <1>2 DEF J!NotDue, J!Send, J!Record, J!SendFails, J!GiveUp, J!RunFails, J!Handler, J!Advance
<1>5. todo'[x] \subseteq todo[x] \cup pending
  <2>1. CASE UNCHANGED todo
    BY <2>1
  <2>2. ASSUME NEW c \in todo[x], J!Advance(x, c) PROVE todo'[x] \subseteq todo[x]
    BY <1>1, <2>2 DEF J!Advance
  <2>3. UNCHANGED todo \/ \E c \in todo[x] : J!Advance(x, c)
    BY DEF J!NotDue, J!Send, J!Record, J!SendFails, J!GiveUp, J!RunFails
  <2>4. QED BY <2>1, <2>2, <2>3
<1>6. CASE J!NotDue(x)
  <2>1. handler[x] = "next" /\ UNCHANGED <<handler, current>>
    BY <1>6 DEF J!NotDue
  <2>2. handler'[x] = "next" /\ current'[x] = None
    BY <2>1 DEF Copies, InHand
  <2>3. QED BY <1>2, <1>3, <1>4, <1>5, <2>2, CopiesKept DEF InHand
<1>7. CASE J!Send(x)
  <2>1. PICK c \in todo[x] : current' = [current EXCEPT ![x] = c]
    BY <1>7 DEF J!Send
  <2>2. handler'[x] = "remove" /\ current'[x] = c /\ Retried(c)
    BY <1>1, <1>7, <2>1 DEF J!Send, J!Handler, Copies
  <2>3. QED BY <1>2, <1>3, <1>4, <1>5, <2>2, CopiesKept DEF InHand
<1>8. CASE J!Record(x) \/ J!RunFails(x)
  <2>1. handler'[x] \in {"next", "threw"} /\ current'[x] = None
    BY <1>1, <1>8 DEF J!Record, J!RunFails, J!Handler
  <2>2. QED BY <1>2, <1>3, <1>4, <1>5, <2>1, CopiesKept DEF InHand
<1>9. CASE J!SendFails(x)
  <2>1. Retried(current[x]) /\ current'[x] = current[x]
    BY <1>9 DEF J!SendFails, Copies, InHand
  <2>2. handler'[x] = IF current[x].retries < MaxRetries THEN "retry" ELSE "give up"
    BY <1>1, <1>9 DEF J!SendFails, J!Handler
  <2>3. QED BY <1>2, <1>3, <1>4, <1>5, <2>1, <2>2, CopiesKept DEF InHand
<1>10. CASE J!GiveUp(x)
  <2>1. Retried(current[x]) /\ current'[x] = current[x] /\ handler'[x] = "drop"
    BY <1>1, <1>10 DEF J!GiveUp, J!Handler, Copies, InHand
  <2>2. QED BY <1>2, <1>3, <1>4, <1>5, <2>1, CopiesKept DEF InHand
<1>11. QED BY <1>6, <1>7, <1>8, <1>9, <1>10

LEMMA ListsKeepCopies ==
  ASSUME JobsInv, Copies, NEW x \in Executions, J!Remove(x) \/ J!DropGivenUp(x) \/ J!Retry(x)
  PROVE  Copies'
<1>1. DOMAIN current = Executions /\ DOMAIN handler = Executions
  BY DEF JobsInv, JobsTypes
<1>2. UNCHANGED <<outer, todo>> /\ outer'[x] # "idle"
  BY DEF J!Remove, J!DropGivenUp, J!Retry, J!Handler, Copies
<1>3. \A y \in Executions \ {x} :
        todo'[y] = todo[y] /\ current'[y] = current[y] /\ handler'[y] = handler[y] /\ outer'[y] = outer[y]
  BY <1>1, <1>2 DEF J!Remove, J!DropGivenUp, J!Retry, J!Handler
<1>4. CASE J!Remove(x)
  <2>1. \A c \in pending' : Retried(c)
    BY <1>4 DEF J!Remove, Copies
  <2>2. Retried(current[x]) /\ current'[x] = current[x] /\ handler'[x] = "record"
    BY <1>1, <1>4 DEF J!Remove, J!Handler, Copies, InHand
  <2>3. QED BY <1>2, <1>3, <2>1, <2>2, CopiesKept DEF InHand
<1>5. CASE J!DropGivenUp(x)
  <2>1. \A c \in pending' : Retried(c)
    BY <1>5 DEF J!DropGivenUp, Copies
  <2>2. current'[x] = None /\ handler'[x] = "next"
    BY <1>1, <1>5 DEF J!DropGivenUp, J!Handler
  <2>3. QED BY <1>2, <1>3, <2>1, <2>2, CopiesKept DEF InHand
<1>6. CASE J!Retry(x)
  <2>1. Retried(current[x]) /\ current[x].retries < MaxRetries
    BY <1>6 DEF J!Retry, J!Handler, Copies, InHand
  <2>2. PICK again : again = J!Copy(current[x].of, current[x].retries + 1, <<x, redisErrors>>)
    OBVIOUS
  <2>3. again.of = current[x].of /\ again.retries = current[x].retries + 1
    BY <2>2 DEF J!Copy
  <2>4. MaxRetries \in Nat
    BY Bounds DEF J!JobsOK
  <2>5. Retried(again)
    BY <2>1, <2>3, <2>4 DEF Retried
  <2>6. pending' = pending \cup {again}
    BY <1>6, <2>2 DEF J!Retry
  <2>7. \A c \in pending' : Retried(c)
    BY <2>5, <2>6 DEF Copies
  <2>8. current'[x] = None /\ handler'[x] = "next"
    BY <1>1, <1>6 DEF J!Retry, J!Handler
  <2>9. QED BY <1>2, <1>3, <2>7, <2>8, CopiesKept DEF InHand
<1>7. QED BY <1>4, <1>5, <1>6

LEMMA CopiesStep ==
  ASSUME JobsInv, Copies, J!JobsNext
  PROVE  Copies'
BY LocksKeepCopies, RunsKeepCopies, SendingKeepsCopies, ListsKeepCopies DEF J!JobsNext

LEMMA JobsAreTyped == JobsInv /\ Copies => J!JobsTypeOK
<1> SUFFICES ASSUME JobsInv, Copies PROVE J!JobsTypeOK
  OBVIOUS
<1>1. lock \in Executions \cup {None} /\ sent \in [Messages -> 0..2]
  BY DEF JobsInv, JobsTypes
<1>2. failedList \subseteq Messages
  BY DEF JobsInv, HandOK
<1>3. QED BY <1>1, <1>2 DEF Copies, Retried, InHand, J!JobsTypeOK

-----------------------------------------------------------------------------

LEMMA ChosenInit == Init => Chosen
<1> SUFFICES ASSUME O!OrdersInit PROVE Chosen
  BY DEF Init
<1>1. decisions = <<>> /\ crossed = {} /\ unsynced = {} /\ allocation = [a \in Allocations |-> O!Unset]
  BY DEF O!OrdersInit
<1>2. O!Unset.at = "none"
  BY DEF O!Unset
<1>3. \A a \in Allocations : allocation[a].at = "none"
  BY <1>1, <1>2
<1>4. decisions \in Seq(Decisions)
  BY <1>1
<1>5. QED BY <1>1, <1>3, <1>4 DEF Chosen

\* What the warehouses cost, as they are read.
LEMMA CostsAre ==
  ASSUME StockInv, NEW w \in Warehouses
  PROVE  O!Costs[w] \in Nat
<1>1. Distance[w] \in Nat /\ Capacity[w] \in Nat
  BY Bounds DEF O!OrdersOK
<1>2. currentUnits[w] \in Nat
  BY DEF StockInv
<1>3. O!UnitsOf(w) \in Nat \ {0}
  BY <1>1 DEF O!UnitsOf
<1>4. (200 * currentUnits[w]) \div O!UnitsOf(w) \in Nat
  <2>1. 200 * currentUnits[w] \in Nat
    BY <1>2
  <2>2. QED BY <1>3, <2>1, SecondOf
<1>5. O!CapacityPenalty(w) \in Nat
  BY <1>4 DEF O!CapacityPenalty
<1>6. O!Costs[w] = Distance[w] + O!CapacityPenalty(w)
  BY DEF O!Costs
<1>7. QED BY <1>1, <1>5, <1>6

\* Of the other warehouses one is a cheapest.
LEMMA RunnerUpIs ==
  ASSUME NEW a \in Allocations, Compared(allocation[a])
  PROVE  O!RunnerUp(a) \in Warehouses \cup {None}
<1>1. PICK cost : cost = allocation[a].cost
  OBVIOUS
<1>2. PICK others : others = O!Alternatives(a)
  OBVIOUS
<1>3. others \subseteq Warehouses /\ \A w \in Warehouses : cost[w] \in Nat
  BY <1>1, <1>2 DEF O!Alternatives, Compared
<1>4. CASE others = {}
  BY <1>2, <1>4 DEF O!RunnerUp
<1>5. CASE others # {}
  <2> DEFINE prices == {cost[w] : w \in others}
  <2>1. prices \in SUBSET Nat /\ prices # {}
    BY <1>3, <1>5
  <2>2. PICK least \in prices : \A i \in prices : least <= i
    BY <2>1, LeastNumber
  <2>3. \E w \in others : \A x \in others : cost[w] <= cost[x]
    BY <2>2
  <2>4. O!RunnerUp(a) = CHOOSE w \in others : \A x \in others : cost[w] <= cost[x]
    BY <1>1, <1>2, <1>5 DEF O!RunnerUp
  <2>5. O!RunnerUp(a) \in others
    <3> HIDE DEF prices
    <3>1. QED BY <2>3, <2>4
  <2>6. QED BY <1>3, <2>5
<1>6. QED BY <1>4, <1>5

\* A run moves on.
LEMMA RunChosen ==
  ASSUME Chosen, NEW a \in Allocations,
         \A b \in Allocations \ {a} : allocation'[b] = allocation[b],
         allocation'[a].at \in {"update", "record"} => Compared(allocation'[a]),
         decisions' \in Seq(Decisions), crossed' \subseteq Orders, unsynced' = unsynced
  PROVE  Chosen'
<1>1. \A b \in Allocations : allocation'[b].at \in {"update", "record"} => Compared(allocation'[b])
  BY DEF Chosen
<1>2. QED BY <1>1 DEF Chosen, Compared, Decisions

LEMMA BeginningChosen ==
  ASSUME OrderInv, StockInv, Chosen, NEW a \in Allocations,
         \/ \E o \in Orders : O!ReallocateOrder(a, o) \/ \E located \in BOOLEAN : O!CreateOrder(a, o, located)
         \/ O!ReadWarehouses(a)
  PROVE  Chosen'
<1>1. PICK costs : allocation \in [Allocations -> Runs(costs)]
  BY DEF OrderInv, OrderTypes
<1>2. UNCHANGED <<decisions, crossed, unsynced>> /\ decisions \in Seq(Decisions) /\ crossed \subseteq Orders
  BY DEF O!ReallocateOrder, O!CreateOrder, O!ReadWarehouses, O!stockVars, Chosen
<1>3. ASSUME NEW o \in Orders, NEW step \in {"read", "done"},
             allocation' = [allocation EXCEPT ![a].order = o, ![a].at = step]
      PROVE  Chosen'
  <2>1. PICK run : run = [allocation[a] EXCEPT !.order = o, !.at = step]
    OBVIOUS
  <2>2. run.at = step
    BY <1>1, <2>1 DEF Runs
  <2>3. allocation' = [allocation EXCEPT ![a] = run]
    BY <1>1, <1>3, <2>1
  <2>4. allocation'[a] = run /\ \A b \in Allocations \ {a} : allocation'[b] = allocation[b]
    BY <1>1, <2>3
  <2>5. allocation'[a].at \notin {"update", "record"}
    BY <2>2, <2>4
  <2>6. QED BY <1>2, <2>4, <2>5, RunChosen
<1>4. ASSUME NEW o \in Orders, O!ReallocateOrder(a, o) PROVE Chosen'
  BY <1>3, <1>4 DEF O!ReallocateOrder
<1>5. ASSUME NEW o \in Orders, NEW located \in BOOLEAN, O!CreateOrder(a, o, located) PROVE Chosen'
  BY <1>3, <1>5 DEF O!CreateOrder
<1>6. CASE O!ReadWarehouses(a)
  <2>1. PICK cost : cost = O!Costs
    OBVIOUS
  <2>2. PICK w \in Warehouses :
          allocation' = [allocation EXCEPT ![a].at = "update", ![a].cost = cost, ![a].warehouse = w]
    BY <1>6, <2>1 DEF O!ReadWarehouses
  <2>3. PICK run : run = [allocation[a] EXCEPT !.at = "update", !.cost = cost, !.warehouse = w]
    OBVIOUS
  <2>4. run.cost = cost /\ run.warehouse = w
    BY <1>1, <2>3 DEF Runs
  <2>5. Compared(run)
    <3>1. \A x \in Warehouses : cost[x] \in Nat
      BY <2>1, CostsAre
    <3>2. QED BY <2>4, <3>1 DEF Compared
  <2>6. allocation' = [allocation EXCEPT ![a] = run]
    BY <1>1, <2>2, <2>3
  <2>7. allocation'[a] = run /\ \A b \in Allocations \ {a} : allocation'[b] = allocation[b]
    BY <1>1, <2>6
  <2>8. QED BY <1>2, <2>5, <2>7, RunChosen
<1>7. QED BY <1>4, <1>5, <1>6

LEMMA GoingOnChosen ==
  ASSUME OrderInv, Chosen, NEW a \in Allocations, O!UpdateOrder(a) \/ O!AllocationFails(a) \/ O!RecordDecision(a)
  PROVE  Chosen'
<1>0. PICK o \in Orders : o = allocation[a].order
  BY RunIs DEF O!UpdateOrder, O!AllocationFails, O!RecordDecision
<1>1. unsynced' = unsynced /\ decisions \in Seq(Decisions) /\ crossed \subseteq Orders
  BY DEF O!UpdateOrder, O!AllocationFails, O!RecordDecision, O!stockVars, Chosen
<1>2. PICK costs : allocation \in [Allocations -> Runs(costs)]
  BY DEF OrderInv, OrderTypes
<1>3. CASE O!UpdateOrder(a)
  <2>1. PICK run : run = [allocation[a] EXCEPT !.at = "record"]
    OBVIOUS
  <2>2. run.cost = allocation[a].cost /\ run.warehouse = allocation[a].warehouse
    BY <1>2, <2>1 DEF Runs
  <2>3. Compared(run)
    <3>1. Compared(allocation[a])
      BY <1>3 DEF O!UpdateOrder, Chosen
    <3>2. QED BY <2>2, <3>1 DEF Compared
  <2>4. allocation' = [allocation EXCEPT ![a] = run]
    BY <1>2, <1>3, <2>1 DEF O!UpdateOrder
  <2>5. allocation'[a] = run /\ \A b \in Allocations \ {a} : allocation'[b] = allocation[b]
    BY <1>2, <2>4
  <2>6. crossed' \subseteq Orders /\ decisions' = decisions
    BY <1>0, <1>1, <1>3 DEF O!UpdateOrder
  <2>7. QED BY <1>1, <2>3, <2>5, <2>6, RunChosen
<1>4. CASE O!AllocationFails(a) \/ O!RecordDecision(a)
  <2>1. allocation' = [allocation EXCEPT ![a].at = "done"]
    BY <1>4 DEF O!AllocationFails, O!RecordDecision
  <2>2. allocation'[a].at = "done" /\ \A b \in Allocations \ {a} : allocation'[b] = allocation[b]
    BY <2>1, StepOf
  <2>3. crossed' \subseteq Orders
    BY <1>0, <1>1, <1>4 DEF O!AllocationFails, O!RecordDecision
  <2>4. decisions' \in Seq(Decisions)
    <3>1. CASE O!AllocationFails(a)
      BY <1>1, <3>1 DEF O!AllocationFails
    <3>2. CASE O!RecordDecision(a)
      <4>1. PICK runnerUp : runnerUp = O!RunnerUp(a)
        OBVIOUS
      <4>2. Compared(allocation[a])
        BY <3>2 DEF O!RecordDecision, Chosen
      <4>3. runnerUp \in Warehouses \cup {None} /\ allocation[a].warehouse \in Warehouses
        BY <4>1, <4>2, RunnerUpIs DEF Compared
      <4>4. PICK new : new = [order |-> o, assigned |-> allocation[a].warehouse, runnerUp |-> runnerUp]
        OBVIOUS
      <4>5. new \in Decisions
        BY <4>3, <4>4 DEF Decisions
      <4>6. decisions' = Append(decisions, new)
        BY <1>0, <3>2, <4>1, <4>4 DEF O!RecordDecision, O!Append, Append
      <4>7. QED BY <1>1, <4>5, <4>6
    <3>3. QED BY <1>4, <3>1, <3>2
  <2>5. QED BY <1>1, <2>2, <2>3, <2>4, RunChosen
<1>5. QED BY <1>3, <1>4

LEMMA ChosenStep ==
  ASSUME OrderInv, StockInv, Chosen, O!OrdersNext
  PROVE  Chosen'
<1>1. ASSUME NEW a \in Allocations,
             \/ \E o \in Orders : O!ReallocateOrder(a, o) \/ \E located \in BOOLEAN : O!CreateOrder(a, o, located)
             \/ O!ReadWarehouses(a) \/ O!UpdateOrder(a) \/ O!RecordDecision(a) \/ O!AllocationFails(a)
      PROVE  Chosen'
  BY <1>1, BeginningChosen, GoingOnChosen
<1>2. ASSUME NEW o \in Orders, O!RouteOrder(o) PROVE Chosen'
  BY <1>2 DEF O!RouteOrder, O!stockVars, Chosen, Compared, Decisions
<1>3. ASSUME NEW k \in Upserts, O!SyncUnits(k) \/ O!SyncFails(k) PROVE Chosen'
  <2>1. UNCHANGED <<decisions, allocation, crossed>>
    BY <1>3 DEF O!SyncUnits, O!SyncFails, O!allocVars
  <2>2. upsert[k].warehouse \in Warehouses
    BY <1>3 DEF O!SyncUnits, O!SyncFails, StockInv
  <2>3. unsynced' \subseteq Warehouses
    BY <1>3, <2>2 DEF O!SyncUnits, O!SyncFails, Chosen
  <2>4. QED BY <2>1, <2>3 DEF Chosen, Compared, Decisions
<1>4. ASSUME NEW k \in Upserts, NEW w \in Warehouses, NEW s \in Skus, NEW q \in Quantities,
             O!SetLine(k, w, s, q)
      PROVE  Chosen'
  BY <1>4 DEF O!SetLine, O!allocVars, Chosen, Compared, Decisions
<1>5. QED BY <1>1, <1>2, <1>3, <1>4 DEF O!OrdersNext

LEMMA OrdersAreTyped == OrderInv /\ StockInv /\ Chosen => O!OrdersTypeOK
<1> SUFFICES ASSUME OrderInv, StockInv, Chosen PROVE O!OrdersTypeOK
  OBVIOUS
<1>1. orders \in [Orders -> OrderRows \cup {None}]
  BY DEF OrderInv, OrderTypes
<1>2. PICK costs : allocation \in [Allocations -> Runs(costs)]
  BY DEF OrderInv, OrderTypes
<1>3. \A a \in Allocations : allocation[a].at \in {"none", "read", "update", "record", "done"}
  BY <1>2 DEF Runs
<1>4. decisions \in Seq(Decisions) /\ crossed \subseteq Orders /\ unsynced \subseteq Warehouses
  BY DEF Chosen
<1>5. /\ inventory \in [Warehouses -> [Skus -> Nat]] /\ currentUnits \in [Warehouses -> Nat]
      /\ \A k \in Upserts : upsert[k].at \in {"none", "sum", "done"}
  BY DEF StockInv
<1>6. QED BY <1>1, <1>3, <1>4, <1>5 DEF O!OrdersTypeOK, OrderRows, Decisions, O!Seq, Seq

-----------------------------------------------------------------------------

LEMMA RequestsAreReplies ==
  ASSUME TwilioInv, requested \cup unmatched \subseteq Sids, T!CallsNext \/ T!NoticesNext
  PROVE  (requested \cup unmatched)' \subseteq Sids
<1>1. ASSUME NEW c \in Calls,
             T!FindNothing(c) \/ T!RequestReschedule(c) \/ (smsCall[c].at = "ask" /\ T!CallThrows(c))
      PROVE  (requested \cup unmatched)' \subseteq Sids
  <2>1. /\ smsCall[c].at \in {"find", "ask"}
        /\ (requested \cup unmatched)' \subseteq requested \cup unmatched \cup {smsCall[c].sid}
    BY <1>1 DEF T!FindNothing, T!RequestReschedule, T!CallThrows, T!Goes
  <2>2. smsCall[c].sid \in Sids \cup {None} /\ smsCall[c].sid # None
    BY <2>1 DEF TwilioInv, TwilioTypes, Handled
  <2>3. QED BY <2>1, <2>2
<1>2. ASSUME NEW c \in Calls,
             \/ \E sid \in Sids : T!Incoming(c, sid) \/ T!IncomingUnread(c, sid)
             \/ T!Outgoing(c) \/ T!FindDelivery(c) \/ T!ReadLogs(c) \/ T!LogSent(c) \/ T!LogFailed(c)
             \/ T!MarkProcessed(c) \/ (smsCall[c].at # "ask" /\ T!CallThrows(c))
      PROVE  requested' = requested /\ unmatched' = unmatched
  BY <1>2 DEF T!Incoming, T!IncomingUnread, T!Outgoing, T!FindDelivery, T!ReadLogs, T!LogSent, T!LogFailed,
              T!MarkProcessed, T!CallThrows
<1>3. CASE T!LogsAge \/ T!MarksExpire
  BY <1>3 DEF T!LogsAge, T!MarksExpire
<1>4. CASE T!NoticesNext
  BY <1>4 DEF T!NoticesNext, T!SetIfAbsent, T!ExpireKey, T!FailOpen, T!Post, T!PostFails, T!KeyExpires, T!callVars
<1>5. QED BY <1>1, <1>2, <1>3, <1>4 DEF T!CallsNext

LEMMA TwilioIsTyped == TwilioInv /\ requested \cup unmatched \subseteq Sids => T!TwilioTypeOK
BY DEF TwilioInv, TwilioTypes, Handled, T!TwilioTypeOK

LEMMA RateIsTyped == RateInv => R!RateTypeOK
BY DEF RateInv, R!RateTypeOK

LEMMA RotationIsTyped == RotationInv => K!RotationTypeOK
BY DEF RotationInv, RotationTypes, K!RotationTypeOK

LEMMA BillingBegins == Init => B!BillingTypeOK
<1> SUFFICES ASSUME B!BillingInit PROVE B!BillingTypeOK
  BY DEF Init
<1>1. MaxBillingFailures \in Nat
  BY BillingConstants
<1>2. /\ event = [e \in Events |-> None] /\ delivery = [e \in Events |-> "idle"] /\ stored = None
      /\ retryCount = None /\ inWindow = FALSE /\ suspended = FALSE /\ billingFailures = 0
  BY DEF B!BillingInit
<1>3. billingFailures \in 0..MaxBillingFailures
  BY <1>1, <1>2
<1>4. QED BY <1>2, <1>3 DEF B!BillingTypeOK

LEMMA RevocationsBegin == Init => Revocations
<1> SUFFICES ASSUME A!AuthInit PROVE Revocations
  BY DEF Init
<1>1. MaxAttempts \in Nat /\ MaxEpochs \in Nat
  BY Bounds DEF A!AuthOK
<1>2. /\ resetToken = FALSE /\ blacklist = {} /\ late = {} /\ locked = FALSE /\ unrevoked = FALSE
      /\ failed = 0 /\ recent = 0 /\ epoch = 0
  BY DEF A!AuthInit
<1>3. failed \in 0..MaxAttempts /\ recent \in Nat /\ epoch \in 0..MaxEpochs
  BY <1>1, <1>2
<1>4. QED BY <1>2, <1>3 DEF Revocations

LEMMA AcceptanceBegins == Init => Acceptance
BY DEF Init, L!ApiAuthInit, Acceptance

LEMMA RequestsBegin == Init => requested \cup unmatched \subseteq Sids
BY DEF Init, T!TwilioInit

-----------------------------------------------------------------------------
(* Every service with its types *)

AllocationTyped == HungarianInv /\ Arrays
OrdersTyped == OrderInv /\ StockInv /\ Chosen
AuthTyped == AuthInv /\ AttemptsInv /\ Revocations
LockoutTyped == TokenInv /\ LockoutInv /\ Acceptance
StripesTyped == StripeInv /\ B!BillingTypeOK
PaymentsTyped == PaymentInv /\ B!BillingTypeOK
QueueTyped == JobsInv /\ Copies
MessagesTyped == TwilioInv /\ requested \cup unmatched \subseteq Sids

ServicesInv ==
  /\ part \in Parts
  /\ part = "hungarian" => AllocationTyped
  /\ part = "orders" => OrdersTyped
  /\ part = "auth" => AuthTyped
  /\ part = "lockout" => LockoutTyped
  /\ part = "rate" => RateInv
  /\ part = "stripe" => StripesTyped
  /\ part = "payments" => PaymentsTyped
  /\ part = "jobs" => QueueTyped
  /\ part \in {"calls", "notices"} => MessagesTyped
  /\ part = "rotation" => RotationInv

LEMMA AllocationKept ==
  ASSUME AllocationTyped, H!HungarianNext \/ UNCHANGED hungarianVars
  PROVE  AllocationTyped'
<1>1. HungarianInv'
  BY HungarianStep DEF AllocationTyped
<1>2. CASE H!HungarianNext
  BY <1>1, <1>2, ArraysStep DEF AllocationTyped
<1>3. CASE UNCHANGED hungarianVars
  <2>1. Arrays'
    BY <1>3 DEF AllocationTyped, Arrays, hungarianVars, H!n, H!numRows, H!numCols
  <2>2. QED BY <1>1, <2>1 DEF AllocationTyped
<1>4. QED BY <1>2, <1>3

LEMMA OrdersKept ==
  ASSUME OrdersTyped, O!OrdersNext \/ UNCHANGED orderVars
  PROVE  OrdersTyped'
<1>1. CASE O!OrdersNext
  BY <1>1, OrdersStep, ChosenStep DEF OrdersTyped
<1>2. CASE UNCHANGED orderVars
  <2>1. OrderInv' /\ StockInv'
    BY <1>2, OrderStutter, StockStutter DEF OrdersTyped, orderVars
  <2>2. Chosen'
    BY <1>2 DEF OrdersTyped, orderVars, Chosen, Compared, Decisions
  <2>3. QED BY <2>1, <2>2 DEF OrdersTyped
<1>3. QED BY <1>1, <1>2

LEMMA AuthKept ==
  ASSUME AuthTyped, A!AuthNext \/ UNCHANGED authVars
  PROVE  AuthTyped'
<1>1. CASE A!AuthNext
  BY <1>1, AuthStep, AttemptsStep, RevocationsStep DEF AuthTyped
<1>2. CASE UNCHANGED authVars
  <2>1. AuthInv'
    BY <1>2, AuthStutter DEF AuthTyped, authVars
  <2>2. AttemptsInv'
    BY <1>2 DEF AuthTyped, authVars, AttemptsInv, Trying
  <2>3. Revocations'
    BY <1>2 DEF AuthTyped, authVars, Revocations, A!Issued
  <2>4. QED BY <2>1, <2>2, <2>3 DEF AuthTyped
<1>3. QED BY <1>1, <1>2

LEMMA LockoutKept ==
  ASSUME LockoutTyped, L!ApiAuthNext \/ UNCHANGED apiAuthVars
  PROVE  LockoutTyped'
<1>1. CASE L!ApiAuthNext
  BY <1>1, TokenStep, LockoutsStep, AcceptanceStep DEF LockoutTyped
<1>2. CASE UNCHANGED apiAuthVars
  <2>1. TokenInv' /\ LockoutInv'
    BY <1>2, LockoutStep, TokenOnly DEF LockoutTyped, apiAuthVars
  <2>2. Acceptance'
    BY <1>2 DEF LockoutTyped, apiAuthVars, Acceptance
  <2>3. QED BY <2>1, <2>2 DEF LockoutTyped
<1>3. QED BY <1>1, <1>2

LEMMA BillingKept ==
  ASSUME B!BillingTypeOK, UNCHANGED billingVars
  PROVE  B!BillingTypeOK'
BY DEF billingVars, B!BillingTypeOK

LEMMA StripesKept ==
  ASSUME StripesTyped, B!StripeNext \/ UNCHANGED billingVars
  PROVE  StripesTyped'
<1>1. CASE B!StripeNext
  BY <1>1, StripeStep, StripeTyped DEF StripesTyped
<1>2. CASE UNCHANGED billingVars
  <2>1. StripeInv'
    BY <1>2, StripeStutter DEF StripesTyped, billingVars
  <2>2. QED BY <1>2, <2>1, BillingKept DEF StripesTyped
<1>3. QED BY <1>1, <1>2

LEMMA PaymentsKept ==
  ASSUME PaymentsTyped, B!PaymentNext \/ UNCHANGED billingVars
  PROVE  PaymentsTyped'
<1>1. CASE B!PaymentNext
  BY <1>1, PaymentStep, PaymentTyped DEF PaymentsTyped
<1>2. CASE UNCHANGED billingVars
  <2>1. PaymentInv'
    BY <1>2, PaymentStutter DEF PaymentsTyped, billingVars
  <2>2. QED BY <1>2, <2>1, BillingKept DEF PaymentsTyped
<1>3. QED BY <1>1, <1>2

LEMMA QueueKept ==
  ASSUME QueueTyped, J!JobsNext \/ UNCHANGED jobsVars
  PROVE  QueueTyped'
<1>1. CASE J!JobsNext
  BY <1>1, JobsStep, CopiesStep DEF QueueTyped
<1>2. CASE UNCHANGED jobsVars
  <2>1. JobsInv'
    BY <1>2, JobsStutter DEF QueueTyped
  <2>2. Copies'
    BY <1>2 DEF QueueTyped, jobsVars, Copies, Retried, InHand
  <2>3. QED BY <2>1, <2>2 DEF QueueTyped
<1>3. QED BY <1>1, <1>2

LEMMA MessagesKept ==
  ASSUME MessagesTyped, T!CallsNext \/ T!NoticesNext \/ UNCHANGED twilioVars
  PROVE  MessagesTyped'
<1>1. CASE T!CallsNext \/ T!NoticesNext
  BY <1>1, CallsStep, NoticesStep, RequestsAreReplies DEF MessagesTyped
<1>2. CASE UNCHANGED twilioVars
  <2>1. TwilioInv'
    BY <1>2, TwilioStutter DEF MessagesTyped
  <2>2. QED BY <1>2, <2>1 DEF MessagesTyped, twilioVars
<1>3. QED BY <1>1, <1>2

\* The variables of every service of MCServices keep their types (allocation, orders and stock, logins and
\* tokens, limits, billing, jobs and messages, key rotation): for every value of the constants.
THEOREM ServicesKeepTypes == Spec => []ServicesTypeOK
<1>1. Init => ServicesInv
  <2> SUFFICES ASSUME Init PROVE ServicesInv
    OBVIOUS
  <2>1. AllocationTyped /\ OrdersTyped
    BY InitHungarian, ArraysInit, InitOrders, InitStock, ChosenInit DEF AllocationTyped, OrdersTyped
  <2>2. AuthTyped /\ LockoutTyped
    BY InitAuth, InitAttempts, RevocationsBegin, InitToken, InitLockout, AcceptanceBegins
    DEF AuthTyped, LockoutTyped
  <2>3. StripesTyped /\ PaymentsTyped
    BY InitStripe, InitPayment, BillingBegins DEF StripesTyped, PaymentsTyped
  <2>4. QueueTyped /\ MessagesTyped
    BY InitJobs, CopiesInit, InitTwilio, RequestsBegin DEF QueueTyped, MessagesTyped
  <2>5. part \in Parts /\ RateInv /\ RotationInv
    BY InitRate, InitRotation DEF Init
  <2>6. QED BY <2>1, <2>2, <2>3, <2>4, <2>5 DEF ServicesInv
<1>2. ServicesInv /\ [Next]_vars => ServicesInv'
  <2> SUFFICES ASSUME ServicesInv, [Next]_vars PROVE ServicesInv'
    OBVIOUS
  <2>1. part' = part
    BY DEF Next, Others, vars
  <2>2. /\ part = "hungarian" => H!HungarianNext \/ UNCHANGED hungarianVars
        /\ part = "orders" => O!OrdersNext \/ UNCHANGED orderVars
        /\ part = "auth" => A!AuthNext \/ UNCHANGED authVars
        /\ part = "lockout" => L!ApiAuthNext \/ UNCHANGED apiAuthVars
        /\ part = "rate" => R!RateNext \/ UNCHANGED rateVars
        /\ part = "stripe" => B!StripeNext \/ UNCHANGED billingVars
        /\ part = "payments" => B!PaymentNext \/ UNCHANGED billingVars
        /\ part = "jobs" => J!JobsNext \/ UNCHANGED jobsVars
        /\ part \in {"calls", "notices"} => T!CallsNext \/ T!NoticesNext \/ UNCHANGED twilioVars
        /\ part = "rotation" => K!RotationNext \/ UNCHANGED rotationVars
    BY DEF Next, vars
  <2>3. /\ part = "hungarian" => AllocationTyped'
        /\ part = "orders" => OrdersTyped'
        /\ part = "auth" => AuthTyped'
        /\ part = "lockout" => LockoutTyped'
    BY <2>2, AllocationKept, OrdersKept, AuthKept, LockoutKept DEF ServicesInv
  <2>4. /\ part = "stripe" => StripesTyped'
        /\ part = "payments" => PaymentsTyped'
        /\ part = "jobs" => QueueTyped'
        /\ part \in {"calls", "notices"} => MessagesTyped'
    BY <2>2, StripesKept, PaymentsKept, QueueKept, MessagesKept DEF ServicesInv
  <2>5. part = "rate" => RateInv'
    BY <2>2, RateStep, RateStutter DEF ServicesInv, rateVars
  <2>6. part = "rotation" => RotationInv'
    BY <2>2, RotationStep, RotationStutter DEF ServicesInv
  <2>7. part' \in Parts
    BY <2>1 DEF ServicesInv
  <2>8. QED BY <2>1, <2>3, <2>4, <2>5, <2>6, <2>7 DEF ServicesInv
<1>3. ServicesInv => ServicesTypeOK
  <2> SUFFICES ASSUME ServicesInv PROVE ServicesTypeOK
    OBVIOUS
  <2>1. /\ part = "hungarian" => H!HungarianTypeOK
        /\ part = "orders" => O!OrdersTypeOK
        /\ part = "auth" => A!AuthTypeOK
        /\ part = "lockout" => L!ApiAuthTypeOK
    BY ArraysAreTyped, OrdersAreTyped, AuthIsTyped, LockoutIsTyped
    DEF ServicesInv, AllocationTyped, OrdersTyped, AuthTyped, LockoutTyped
  <2>2. /\ part \in {"stripe", "payments"} => B!BillingTypeOK
        /\ part = "jobs" => J!JobsTypeOK
        /\ part \in {"calls", "notices"} => T!TwilioTypeOK
    BY JobsAreTyped, TwilioIsTyped DEF ServicesInv, StripesTyped, PaymentsTyped, QueueTyped, MessagesTyped
  <2>3. /\ part = "rate" => R!RateTypeOK
        /\ part = "rotation" => K!RotationTypeOK
    BY RateIsTyped, RotationIsTyped DEF ServicesInv
  <2>4. part \in Parts
    BY DEF ServicesInv
  <2>5. QED BY <2>1, <2>2, <2>3, <2>4 DEF ServicesTypeOK
<1>4. QED BY <1>1, <1>2, <1>3, PTL DEF Spec
=============================================================================

------------------------------- MODULE Hungarian -------------------------------
(***************************************************************************)
(* hungarian(costMatrix) (engines/allocation/hungarian.ts): rows, the      *)
(* orders, are given columns, the warehouses, by shortest augmenting       *)
(* paths.  A step is an iteration of one of the loops.                     *)
(*                                                                         *)
(* Costs are integers here, so that sums with PADDING are exact; doubles   *)
(* are exact with it only in steps of a half.  Infinity is no number here, *)
(* nor is it one in the code: every cost is below it.                      *)
(***************************************************************************)
EXTENDS Integers, Sequences, FiniteSets, Folds

CONSTANTS
  Matrices,  \* the cost matrices: sequences of rows of one length
  Padding,   \* PADDING
  Infinity

\* Costs are distances and penalties; no rows give no assignment, and rows of different lengths
\* are rejected.
HungarianOK ==
  /\ \A c \in Matrices : c \in Seq(Seq(Nat)) /\ c # <<>> /\ \A i \in 1..Len(c) : Len(c[i]) = Len(c[1])
  /\ Padding \in Nat /\ Infinity \notin Int

VARIABLES
  costMatrix,
  row,       \* i, the row being assigned; 0 before the first
  u, v,      \* potentials of rows and columns
  p,         \* the row assigned to each column, 0 for none; p[0] is the row to assign
  way,       \* the column each was reached from
  minDist, used, j0,
  loop       \* which loop is running

hungarianVars == <<costMatrix, row, u, v, p, way, minDist, used, j0, loop>>

numRows == Len(costMatrix)
numCols == Len(costMatrix[1])
n == IF numRows > numCols THEN numRows ELSE numCols

\* mat: the matrix, padded to a square.
mat(i, j) == IF i <= numRows /\ j <= numCols THEN costMatrix[i][j] ELSE Padding

Zeros(k) == [j \in 0..k |-> 0]

HungarianInit ==
  /\ costMatrix \in Matrices
  /\ row = 0
  /\ u = Zeros(n) /\ v = Zeros(n) /\ p = Zeros(n) /\ way = Zeros(n)
  /\ minDist = Zeros(n) /\ used = {} /\ j0 = 0
  /\ loop = "rows"

\* The next i.
NextRow ==
  /\ loop = "rows" /\ row < n
  /\ row' = row + 1
  /\ p' = [p EXCEPT ![0] = row + 1]
  /\ j0' = 0 /\ used' = {}
  /\ minDist' = [j \in 0..n |-> Infinity]
  /\ loop' = "grow"
  /\ UNCHANGED <<costMatrix, u, v, way>>

inTree == used \cup {j0}
free == 1..n \ inTree

\* Reduced cost of the column from the row j0 is assigned to.
cur(j) == mat(p[j0], j) - u[p[j0]] - v[j]

\* The columns that are nearer to j0 than to the rest of the tree, and how far each is from the tree.
closer == {j \in free : minDist[j] = Infinity \/ cur(j) < minDist[j]}
dist == [j \in 0..n |-> IF j \in closer THEN cur(j) ELSE minDist[j]]

\* j1, the nearest column outside the tree, the first one on a tie; and delta.
nearest ==
  CHOOSE j \in free : \A k \in free : dist[j] < dist[k] \/ (dist[j] = dist[k] /\ j <= k)
delta == dist[nearest]

\* The first loop: the tree takes in column j0; the potentials move by delta.
Grow ==
  /\ loop = "grow"
  /\ used' = inTree
  /\ way' = [j \in 0..n |-> IF j \in closer THEN j0 ELSE way[j]]
  /\ u' = [i \in 0..n |-> IF \E j \in inTree : p[j] = i THEN u[i] + delta ELSE u[i]]
  /\ v' = [j \in 0..n |-> IF j \in inTree THEN v[j] - delta ELSE v[j]]
  /\ minDist' = [j \in 0..n |-> IF j \in inTree THEN dist[j] ELSE dist[j] - delta]
  /\ j0' = nearest
  /\ loop' = IF p[nearest] = 0 THEN "augment" ELSE "grow"
  /\ UNCHANGED <<costMatrix, row, p>>

StopShort ==
  /\ loop = "augment"
  /\ p' = [p EXCEPT ![j0] = p[0]]
  /\ j0' = 0 /\ loop' = "rows"
  /\ UNCHANGED <<costMatrix, row, u, v, way, minDist, used>>

\* The second loop: one step back along the path.
Augment ==
  /\ loop = "augment"
  /\ p' = [p EXCEPT ![j0] = p[way[j0]]]
  /\ j0' = way[j0]
  /\ loop' = IF way[j0] = 0 THEN "rows" ELSE "augment"
  /\ UNCHANGED <<costMatrix, row, u, v, way, minDist, used>>

HungarianNext == NextRow \/ Grow \/ Augment

Returned == loop = "rows" /\ row = n

\* The result: the column of each row, 0 (the code's -1) for a padded one.
ColumnOf(i) == CHOOSE j \in 1..n : p[j] = i
Assignment == [i \in 1..numRows |-> IF ColumnOf(i) <= numCols THEN ColumnOf(i) ELSE 0]

-----------------------------------------------------------------------------
(* Properties *)

HungarianTypeOK ==
  /\ row \in 0..n /\ j0 \in 0..n /\ used \subseteq 0..n
  /\ u \in [0..n -> Int] /\ v \in [0..n -> Int] /\ minDist \in [0..n -> Int \cup {Infinity}]
  /\ p \in [0..n -> 0..n] /\ way \in [0..n -> 0..n]
  /\ loop \in {"rows", "grow", "augment"}

\* The potentials never exceed a cost, and add up to it where a row is assigned: what makes
\* the assignment of the rows so far a cheapest one, whichever way a path was turned over.
PotentialsFit ==
  /\ \A i \in 1..row, j \in 1..n : u[i] + v[j] <= mat(i, j)
  /\ loop = "rows" =>
       \A j \in 1..n : p[j] # 0 => u[p[j]] + v[j] = mat(p[j], j)

\* What an assignment costs; a row without a column costs nothing.
Cost(columns) ==
  LET cost == [i \in 1..numRows |-> IF columns[i] = 0 THEN 0 ELSE costMatrix[i][columns[i]]]
  IN MapThenFoldSet(+, 0, LAMBDA i : cost[i], LAMBDA S : CHOOSE x \in S : TRUE, 1..numRows)

\* As many rows as possible have a column, none of them twice.
IsAssignment(columns) ==
  /\ \A i, k \in 1..numRows : columns[i] = columns[k] /\ columns[i] # 0 => i = k
  /\ Cardinality({i \in 1..numRows : columns[i] # 0}) =
       IF numRows < numCols THEN numRows ELSE numCols

\* The result is an assignment, and no other is cheaper.
AssignmentOptimal ==
  Returned =>
    /\ IsAssignment(Assignment)
    /\ \A other \in [1..numRows -> 0..numCols] :
         IsAssignment(other) => Cost(Assignment) <= Cost(other)
=============================================================================

--------------------------- MODULE MCRouteSolver ---------------------------
(* Instances of RouteSolver for TLC: places on a line. *)
EXTENDS RouteSolver

CONSTANT Span

LinePlaces == -Span..Span
LineDistance == [p \in LinePlaces \X LinePlaces |->
                   IF p[1] < p[2] THEN p[2] - p[1] ELSE p[1] - p[2]]
=============================================================================

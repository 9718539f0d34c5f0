---------------------------- MODULE ForestPlanner ----------------------------
(***************************************************************************)
(* forest_planner.py: routes over the blocks of the forest, from a block   *)
(* past all those that hold a KFS and out by an entrance.  The planner     *)
(* goes to the nearest one that is left, along a shortest path; which of   *)
(* several nearest ones is up to the order of a Python set, so there is a  *)
(* set of routes.                                                          *)
(***************************************************************************)
EXTENDS Integers, Sequences, SequencesExt, FiniteSetsExt

\* Three rows of four blocks; a block is next to those it shares a side with.
FOREST_LAYOUT ==
  << {2, 5}, {1, 3, 6}, {2, 4, 7}, {3, 8}, {1, 6, 9}, {2, 5, 7, 10},
     {3, 6, 8, 11}, {4, 7, 12}, {5, 10}, {6, 9, 11}, {7, 10, 12}, {8, 11} >>

Blocks == DOMAIN FOREST_LAYOUT

ENTRANCE_BLOCKS == <<1, 2, 3>>

\* Blocks as far from start as this, or nearer
Within(start) ==
  LET near[n \in 0 .. Cardinality(Blocks)] ==
        IF n = 0 THEN {start}
        ELSE LET nearer == near[n - 1]
             IN  nearer \cup UNION {FOREST_LAYOUT[u] : u \in nearer \cap Blocks}
  IN  [n \in 0 .. Cardinality(Blocks) |-> near[n]]

\* Fault: the way to a block is from any that is next to it.
prev_AnyNext(b, near) == Min({u \in Blocks : b \in FOREST_LAYOUT[u]})

\* The block that first led to b: blocks leave the heap by distance and number.
prev(b, near) ==
  LET dist == Min({n \in DOMAIN near : b \in near[n]})
  IN  Min({u \in Blocks : b \in FOREST_LAYOUT[u] /\ u \in near[dist - 1]})

\* Dijkstra's algorithm with steps of one.  A block that is not of the forest has
\* no path.
shortest_path(start, goal) ==
  LET near == Within(start)
      dists == {n \in DOMAIN near : goal \in near[n]}
      way[n \in 0 .. Min(dists)] ==
        IF n = 0 THEN <<goal>>
        ELSE LET later == way[n - 1] IN <<prev(Head(later), near)>> \o later
  IN  IF dists = {} THEN << >> ELSE way[Min(dists)]

\* One with the least path; a block without a path has the least of all.
Nearest(cur, blocks) ==
  LET far == [b \in blocks |-> Len(shortest_path(cur, b))]
  IN  {b \in blocks : \A other \in blocks : far[b] <= far[other]}

\* The first of the nearest entrances, in their order
exit_path(cur) ==
  LET entrances == ToSet(ENTRANCE_BLOCKS)
      first == CHOOSE n \in DOMAIN ENTRANCE_BLOCKS :
                 /\ ENTRANCE_BLOCKS[n] \in Nearest(cur, entrances)
                 /\ \A m \in 1 .. n - 1 : ENTRANCE_BLOCKS[m] \notin Nearest(cur, entrances)
  IN  shortest_path(cur, ENTRANCE_BLOCKS[first])

\* A block follows itself only once.
Deduped(route) ==
  LET upTo[n \in 0 .. Len(route)] ==
        IF n = 0 THEN << >>
        ELSE IF n = 1 \/ route[n] # route[n - 1] THEN Append(upTo[n - 1], route[n])
        ELSE upTo[n - 1]
  IN  upTo[Len(route)]

\* The routes past the targets that are left, from where R2 is then: at[1] and at[2].
\* A target without a path ends the collecting.
Routes(start, targets) ==
  LET from[at \in (SUBSET targets) \X (targets \cup {start})] ==
        LET next == Nearest(at[2], at[1])
        IN  IF \A t \in next : shortest_path(at[2], t) = << >>
              THEN {exit_path(at[2])}
              ELSE UNION {{Front(shortest_path(at[2], t)) \o rest :
                             rest \in from[<<at[1] \ {t}, t>>]} : t \in next}
  IN  from

\* The routes from a block past all the targets
plan_route(start, targets) ==
  {Deduped(route) : route \in Routes(start, targets)[<<targets, start>>]}
=============================================================================

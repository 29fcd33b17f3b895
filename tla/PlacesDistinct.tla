--------------------------- MODULE PlacesDistinct ----------------------------
(***************************************************************************)
(* places_distinct (construct.rs), which decides whether two inputs of a   *)
(* node make its edges tentative.  A place is a local with projections:    *)
(* dereferences and fields.                                                *)
(***************************************************************************)
EXTENDS Naturals, Sequences

CONSTANTS
    Place,
    local, projection, ty,  \* of each place: its local, its projections, its type
    inner                   \* what the types that are references refer to

ASSUME ProjectionsAssumption ==
    /\ DOMAIN local = Place /\ DOMAIN projection = Place /\ DOMAIN ty = Place
    /\ \A p \in Place : Len(projection[p]) \in Nat

is_ref(t) == t \in DOMAIN inner

\* The match on the kinds of both types: its second arm is only for places of
\* which the first is no reference.
is_direct_deref(p1, p2) ==
    IF is_ref(ty[p1]) THEN inner[ty[p1]] = ty[p2]
    ELSE is_ref(ty[p2]) /\ inner[ty[p2]] = ty[p1]

\* What the loop compares in round n.  Both elements come from p1.
i_elem(p1, p2, n) == projection[p1][n]
j_elem(p1, p2, n) == projection[p1][n]

\* The rounds of the loop: while both places have an element left.
within(p1, p2) ==
    {n \in 1 .. Len(projection[p1]) : n <= Len(projection[p2])}

\* The mutant of places_distinct: the longer place is told apart from the shorter.
places_distinctLonger(p1, p2) ==
    \/ /\ local[p1] = local[p2]
       /\ \/ \E n \in within(p1, p2) : i_elem(p1, p2, n) # j_elem(p1, p2, n)
          \/ Len(projection[p1]) # Len(projection[p2])
    \/ is_direct_deref(p1, p2)

\* Places of different locals never get into the loop; elements that differ end it.
places_distinct(p1, p2) ==
    \/ /\ local[p1] = local[p2]
       /\ \E n \in within(p1, p2) : i_elem(p1, p2, n) # j_elem(p1, p2, n)
    \/ is_direct_deref(p1, p2)

Distinct == {pq \in Place \X Place : places_distinct(pq[1], pq[2])}
=============================================================================

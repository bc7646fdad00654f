------------------------------ MODULE MCJourneys ------------------------------
(* A/B tests whose percentages round evenly, up, and past the audience; drip *)
(* campaigns of one to three steps, the shortest launched twice; triggers    *)
(* with and without limits.                                                  *)
EXTENDS Journeys, TLC
Symmetry == Permutations(Op) \cup Permutations(Contact)
MCPlans ==
    {AbTest(split, 2) : split \in {<<50, 50>>, <<25, 25, 25, 25>>, <<33, 33, 34>>, <<0, 75, 25>>}}
    \cup {Drip(1, 2), Drip(2, 1), Drip(3, 1)}
    \cup {Trigger(max, cooldown) : max \in 0..1, cooldown \in BOOLEAN}
=============================================================================

--------------------------- MODULE MCHouseMapping ---------------------------
EXTENDS HouseMapping, TLC

CONSTANTS e1, e2, a1, l1

\* An attribute under the name of its entity, and a state with a label: one saved
\* over the other makes sources with another entity, attribute or label.
MCSource == {[entity |-> e1, attr |-> a1, label |-> Unset],
             [entity |-> e2, attr |-> Unset, label |-> l1]}

\* Cards are interchangeable, and so are the items that are not protected.
MappingSymmetry == Permutations(Card) \cup Permutations(Item \ Protected)
=============================================================================

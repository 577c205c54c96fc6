------------------------------ MODULE MCAEvent ------------------------------
\* AEvent on a root and two more events.
EXTENDS AEvent, TLC

CONSTANTS a, b

\* Handler slots are interchangeable.
SlotSymmetry == Permutations(Hid)

=============================================================================

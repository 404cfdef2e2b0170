------------------------------- MODULE MCNested -------------------------------
\* A window in two parts, where a unit is a pixel.
EXTENDS Nested

Unscaled == {[n |-> 1, d |-> 1]}
=============================================================================

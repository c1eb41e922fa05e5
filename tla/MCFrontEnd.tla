----------------------------- MODULE MCFrontEnd -----------------------------
EXTENDS FrontEnd
CONSTANTS x, y
OneSet == [l \in {x, y} |-> 0]
PairLines == [c \in {0} |-> {x, y}]
TwoReads == [l \in {x, y} |-> 2]
TwoReadsOfOne == [l \in {x, y} |-> IF l = y THEN 2 ELSE 1]
TwoCoreLines == [c \in {0, 1} |-> IF c = 0 THEN {x} ELSE {y}]
=============================================================================

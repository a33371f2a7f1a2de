----------------------------- MODULE MCPopulator ------------------------------
\* Instances of Populator for TLC.
EXTENDS Populator, TLC

CONSTANTS i1, i2, e1, e2, e3

TwoEntities == {i1, i2}
ThreeEntities == {e1, e2, e3}

===============================================================================

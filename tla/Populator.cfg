\* Two initial entities and three of the sample, with every choice of
\* references among them, cyclic ones included.
CONSTANTS
  i1 = i1
  i2 = i2
  e1 = e1
  e2 = e2
  e3 = e3
  Initial <- TwoEntities
  Sample <- ThreeEntities
SPECIFICATION FairSpec
INVARIANTS TypeOK AllOrNothing DoneMeansStored SampleNeedsInitial OneLevelIsSorted
PROPERTIES PopulationEnds StatementsDescend

SPECIFICATION FairSpec
CONSTANT Objects = {car, wall}
INVARIANT TypeOK
INVARIANT OneScan
INVARIANT Whole
PROPERTY Follows

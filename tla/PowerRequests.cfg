SPECIFICATION RequestSpec
INVARIANT AllOrNothing
PROPERTY RenewalLeavesOnePair

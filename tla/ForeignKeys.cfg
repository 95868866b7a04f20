CONSTANTS
  Constraints = {"pk", "fk1", "fk2"}
  Foreign = {"fk1", "fk2"}
  KeyLength = 2
  FirstSpace = 3
  MaxText = 3
  Lengths = {0, 2, 9}
SPECIFICATION FSpec
INVARIANT SecondSpaceSuffices

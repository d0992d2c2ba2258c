SPECIFICATION Spec
CONSTANTS
  BucketBits = 4
  BucketBytes = 2
  MaxElements = 10
  ArraySizes <- MCArraySizes
  ElemSizes <- MCElemSizes
INVARIANTS BitsAgree ScansAgree LayoutSound

SPECIFICATION Spec
INVARIANTS
  ProtocolArithmeticExact
  CoefficientsGathered
  ProductsExact
  MessagesReturn
  EncodingsReturn
  ObjectsReturn
  StreamsConsistent
CHECK_DEADLOCK FALSE

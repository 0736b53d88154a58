SPECIFICATION ObjectsSpec
INVARIANT ConveyedKeysUsable
CHECK_DEADLOCK FALSE

SPECIFICATION StreamSpec
INVARIANT SamplersAgree
CHECK_DEADLOCK FALSE

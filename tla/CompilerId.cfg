SPECIFICATION Spec
CONSTANT Compilers <- MCCompilers
INVARIANT Recognised
CHECK_DEADLOCK FALSE

SPECIFICATION Spec
INVARIANT VbusFollowsCable

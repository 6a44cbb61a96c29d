SPECIFICATION Spec
INVARIANT RequestedIsAttached

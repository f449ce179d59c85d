SPECIFICATION Spec
INVARIANTS
    StartsByItself

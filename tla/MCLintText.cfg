CONSTANT Kinds <- KindsSome
SPECIFICATION Spec
INVARIANTS CodeIsWhatIsLeft BracketsMatch
CHECK_DEADLOCK FALSE

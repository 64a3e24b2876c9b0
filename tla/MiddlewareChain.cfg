SPECIFICATION Spec
CONSTANT N = 3
INVARIANTS PhaseRules BodyRules

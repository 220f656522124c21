SPECIFICATION Spec
INVARIANTS EveryStageCollected WordsHiddenDuringReentry GatesBeforeSetup
PROPERTIES NoWayBackFromSecret SecretNeedsConfirmation
CHECK_DEADLOCK FALSE

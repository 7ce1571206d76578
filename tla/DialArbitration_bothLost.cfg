SPECIFICATION DialSpec
INVARIANT OneSurvives
CHECK_DEADLOCK FALSE

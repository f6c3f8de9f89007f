\* Any text of any length; "b" and "ba" begin baud and batch_sampling, that go on
\* differently.
CONSTANTS
    OtherWords = {"d", "m", "b", "ba", "analog", "digital_", "other"}
SPECIFICATION Spec
CHECK_DEADLOCK FALSE
INVARIANTS
    AcceptsLanguage
    ErrorNamesAlternatives
PROPERTIES
    EveryTokenTaken

SPECIFICATION Spec
CONSTANTS
    MaxVersion = 2
    MaxReboots = 1
INVARIANTS StepsFindSettings GreenMeansInEffect ScriptHeals

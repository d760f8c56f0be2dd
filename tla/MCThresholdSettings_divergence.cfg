SPECIFICATION Spec
CONSTANTS
    Setters = {s1,s2}
    Inputs <- MCInputs
    NaN = NaN
    Default = 45
    NoSettings = NoSettings
INVARIANTS
    QuietMeansPersistent

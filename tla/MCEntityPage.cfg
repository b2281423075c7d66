\* Three clicks on a page with a form, a block of two records and four buttons.
SPECIFICATION Spec
CONSTANTS
    MaxClicks = 3
    Values = {"a", "b"}
    FirstValue = "a"
    RandomStrings = {"b"}
    Inputs = {"code"}
    Generators <- MCGenerators
    Records = {r1, r2}
    NoRecord = none
    r1 = r1
    r2 = r2
    none = none
    Buttons <- MCButtons
INVARIANTS
    SavesOwnRecord
    BlockShowsSaves
    FormTellsTheTruth
PROPERTIES
    BlocksComeToRest
CHECK_DEADLOCK FALSE

\* Two clicks on a served list with two columns, two filters and two page sizes.
SPECIFICATION Spec
CONSTANTS
    MaxClicks = 2
    Columns = {"name", "date"}
    FirstOrder <- MCOrder
    Texts = {"", "None", "toy"}
    NoText = ""
    NoneText = "None"
    PageCounts = {0, 11}
    PageSizes = {10, 20}
    TableLimit = 10
    Records = {r1, r2}
    NoRecord = none
    r1 = r1
    r2 = r2
    none = none
    Buttons <- MCButtons
INVARIANTS
    QuietGridIsConsistent
    LinksComplete
    OneRequestPerClick
CHECK_DEADLOCK FALSE

SPECIFICATION Spec
CONSTANTS
    Gui = {g}
    Shell = {s}
    Flaky = {}
    Jobs = {j1, j2}
    Blank = Blank
    MaxLines = 4
PROPERTY EditsKept
CHECK_DEADLOCK FALSE

SPECIFICATION Spec
CONSTANTS
    Tabs = {t1, t2}
    Customers = {c1}
    Sessions = {s1}
    Prompts = {p1, p2}
    None = none
SYMMETRY Symmetry
VIEW Transcripts
INVARIANTS TypeOK ShownIsStored
CHECK_DEADLOCK FALSE

SPECIFICATION Spec
CONSTANTS
    Tabs = {t1, t2}
    Customers = {c1}
    Sessions = {s1, s2}
    Prompts = {p1}
    None = none
SYMMETRY Symmetry
VIEW Pages
INVARIANTS ViewIsIsolated OwnEndIsShown
 
CHECK_DEADLOCK FALSE

CONSTANTS
    x = x
    X = X
    y = y
    l = l
    sa = sa
    sb = sb
    Names = {x, X, y}
    Canon <- TwoSpellings
    Levels = {l}
    Subtopics = {sa, sb}
    Clients = {c}
    Writers = {w}
    Patches <- SomePatches
    Edits <- SomeEdits
    ListCap = 1
    MaxSubtopics = 1
    MaxSaves = 3
    Tutor = Tutor
    None = None
CHECK_DEADLOCK FALSE
SPECIFICATION Spec
INVARIANTS TypeOK OnePlace TestedIsTested EditMeetsItsEtag
PROPERTIES FocusKeepsItsGap

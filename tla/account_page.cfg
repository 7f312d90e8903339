CONSTANTS
    p1 = p1
    c1 = c1
    c2 = c2
    dingtalk = dingtalk
    People = {p1}
    Ids = {a, b}
    NoId = NoId
    Codes = {c1, c2}
    PersonOf <- BothTheirs
    Logins = {l1}
    Deletions = {d1}
    Threads = {w1}
    Areas <- TwoAreas
    Tasks = tasks
    k1 = k1
    k2 = k2
    config = config
    Keys = {k1, k2, config}
    KeysOf <- TwoTasks
    PageSize = 1
    ServiceRole = TRUE
    Rotations = 0
SYMMETRY Symmetric
VIEW Remembered
SPECIFICATION Spec
PROPERTIES
    DeletionClearsAll

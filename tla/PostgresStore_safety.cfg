CONSTANTS
    Networks = {n}
    Channels = {a, b}
    Targets = {t}
    Values = {v, w}
    Passphrases = {p, q}
    None = None
    MaxId = 2
SPECIFICATION Spec
SYMMETRY Twins
INVARIANT TypeOK
INVARIANT LastCallStands
INVARIANT OneLossIsSurvived
INVARIANT KeysAgree
PROPERTY ReturnedIsDone
PROPERTY ImplementsStore

SPECIFICATION Spec
CONSTANTS
    Listeners = {a, b, c}
    None = None
    MaxDepth = 2
    MaxAdds = 4
CHECK_DEADLOCK FALSE
INVARIANTS
    TypeOK
PROPERTY
    Contract

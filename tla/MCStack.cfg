SPECIFICATION Spec
CONSTANTS
    Items = {a, b}
    POISON = poison
    INIT_CAP = 4
    MaxSize = 9
INVARIANT
    TypeOK
    OnlyItemsBelow
PROPERTY
    NoThrashing
    ImplementsLifo

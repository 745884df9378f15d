SPECIFICATION Spec
CONSTANTS
    k1 = k1
    k2 = k2
    Roots = {r1, r2}
    Order <- MCOrder
    LazyKeys <- MCLazyKeys
    NewKeys <- MCNewKeys
    Kinds = {B}
    Objects = {o1, o2, o3, o4}
    None = None
    Lazy = Lazy
    Empty = Empty
    Base = Base
SYMMETRY Alike
INVARIANTS TypeOK PlainEntitiesCopy CopiesApart
CHECK_DEADLOCK FALSE

CONSTANTS
    Text = {t1, t2}
    Anonymous = {t2}
    Internal = {i1}
    Plain = {p1}
    Own = {o1}
    OwnPlain = {q1}
SPECIFICATION Spec
INVARIANTS
    TypeOK
    NoSealedShown
    CacheExact
    ShownWasDelivered
CHECK_DEADLOCK FALSE

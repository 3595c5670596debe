SPECIFICATION Spec
CONSTANTS
    w1 = w1
    w2 = w2
    o1 = o1
    o2 = o2
    a = a
    b = b
    None = None
    Workers = {w1, w2}
    Orders = {o1, o2}
    Products = {a, b}
    ItemsOf <- Items
    MaxInt = 3
INVARIANT RequestCovered

SPECIFICATION Spec
CONSTANTS
    Elems = {a, b, c, d}
    Null = Null
INVARIANT Validate

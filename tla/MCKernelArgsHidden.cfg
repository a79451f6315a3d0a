CONSTANTS
    Objects <- MCObjects
    Pointers = {ptr1, ptr2}
    Allocated = {ptr1}
    Moved <- MCMoved
    Numbers = {num}
    Junk = junk
    Zero = zero
    MaxLaunches = 2
    kern = kern
    grid = grid
    ptr1 = ptr1
    ptr2 = ptr2
    moved1 = moved1
    num = num
    junk = junk
    zero = zero
SPECIFICATION Spec
INVARIANTS NothingOverwritten
CHECK_DEADLOCK FALSE

SPECIFICATION Spec
CONSTANT Orders = {1, 2, 3, 4, 5, 6, 7, 8, 9, 10, 11}
INVARIANTS Sorted DivergesOnlyOnMinimum bsearchExact
CHECK_DEADLOCK FALSE

SPECIFICATION Spec
CONSTANTS
  Processes = {p1, p2, p3}
  MaxRows = 2

  
PROPERTY CurrentRowsAreKept

SPECIFICATION Spec
CONSTANTS
    Node = {n1}
    Content = {x, y}
    Short = {y}
    MaxFaults = 0
    MaxRuns = 1
    MaxRestarts = 0
    None = None
PROPERTIES
    BooksWhatIsServed
CHECK_DEADLOCK FALSE

SPECIFICATION Spec
CONSTANTS
    NumCases = 4
    ElementOf <- MCElementOf
    Threshold = 2
    Codes <- MCCodes
    MaxResumes = 1
INVARIANTS InvalidInputIsNoCrash

\* A command that the parser does not know, in a script with Boolean assertions.
SPECIFICATION Spec
CONSTANTS
    Texts <- MCTexts
    MaxNesting = 2
    Scripts <- MCScripts
INVARIANTS
    UnsupportedIsReported

\* The readers on every text of four characters, the parser on scripts of a
\* preamble and a few commands.
SPECIFICATION Spec
CONSTANTS
    Texts <- MCTexts
    MaxNesting = 2
    Scripts <- MCScripts
INVARIANTS
    ReadersAgree
    MeaningIsKept
    RuleAbidingIsRead

\* The preprocessor of a lone assertion, on scripts that follow the rules.
SPECIFICATION Spec
CONSTANTS
    Texts <- MCTexts
    MaxNesting = 2
    Scripts <- MCScripts
INVARIANTS
    PreprocessorIsSafe

SPECIFICATION Spec
CONSTANTS
    Letters = {"letter"}
    Others = {"apostrophe", "space", "surrogate"}
    MaxLength = 6
    Texts <- MCTexts
    Utf8 <- MCUtf8
    Signed <- MCSigned
INVARIANTS
    CountIsStarts
    CleanedIfMeasured
CHECK_DEADLOCK FALSE

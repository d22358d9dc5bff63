\* Dry runs of any short template and of any operation; up to three stored rules.
CONSTANTS
    None = None
    Panic = Panic
    Char = {"x", "X", "W", " ", "g", "{", "}"}
    Wide = {"W"}
    Space = {" "}
    ToUpper <- MCUpper
    ToLower <- MCLower
    ReplaceAllString <- MCReplace
    GroupsOf <- MCGroupsOf
    MatchOf <- MCMatchOf
    Hosts = {"empty", "x", "wx", "xsx"}
    Bodies <- MCBodies
    TestBodies <- MCTestBodies
    MaxRules = 3
    MaxTemplate = 6
    Letters = {"x"}
    Digits = {"1", "D"}
    ValueOf <- MCValueOf
    MaxInt = 10
    maxPipelineLength = 2
    NameOf <- MCNameOf
    Samples <- MCSamples
    MaxText = 4
    Runes <- MCRunes
    Texts <- MCTexts
SPECIFICATION TextSpec
INVARIANTS
    WalkIsLossless
    EvaluateIsFirstMatch
    ValidatedNeverFallsBack
    NeverPanics
    PadFits
    AcceptsGrammar
    ParsedAsWritten
PROPERTIES
    SavedAsSent
    Progress

SPECIFICATION UrlSpec
CONSTANTS
    Char <- Letters
    KeyOrder <- TwoKeys
    Values <- FewValues
    Hosts <- HostTexts
    StrPaths <- PathTexts
    MaxParams = 2
INVARIANTS
    UrlAsGiven

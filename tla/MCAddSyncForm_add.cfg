SPECIFICATION Spec
CONSTANTS
    Names = {"docs"}
    Folders <- MCFolders
    Path <- MCPath
    Types = {"Local", "Cloud"}
    Directions = {"One-way", "Two-way"}
    FirstType = "Local"
    FirstDirection = "One-way"
    DefaultType = "local"
    DefaultDirection = "one-way"
    Rows <- TwoRows
    NoText = ""
INVARIANT AddSendsShown

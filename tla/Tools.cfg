SPECIFICATION Spec
CONSTANTS
    Type <- MCType
    SymOrder <- MCOrder
    MaxNodes = 9
    ModulesSym = "mods"
    ChoiceSyms = {"c"}
    Optional = {"mods", "a", "f", "s", "u", "v", "i"}
    OldFiles <- MCFiles
    SavedFiles <- MCFiles
    Modes = {"oldconfig", "oldaskconfig", "syncconfig", "olddefconfig", "savedefconfig",
             "allyesconfig", "allmodconfig", "allnoconfig", "alldefconfig", "randconfig"}
    Later = {"syncconfig", "savedefconfig", "defconfig"}
    Runs = 2
    Draws <- MCDraws
    Lucky <- MCLucky
    Integers3 = {1, 2}
    Typed = {1, 2, 3}
    Single = FALSE
    MaxKeys = 3
    NULL = null
    Leaves <- SimplifyLeaves
    Parents <- SimplifyParents
    Operands = 3
    Configs <- ParseConfigs
    Conditions <- ParseConditions
    PromptIfs <- ParseIfs
    MaxEntries = 4
INVARIANTS
    ToolsSimplifiedAlike
    ToolsVisibleIsReachable
    ToolsSavedIsRead
    ToolsOneOfChoice
    ToolsNothingLeftNew
    ToolsChangesAreTouched
    ToolsShownIsTrue
CHECK_DEADLOCK FALSE

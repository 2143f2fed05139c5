SPECIFICATION Spec
CONSTANTS
    Suite <- MCSuite
    Patched = {"leaky"}
    GoldPatched = {"leaky"}
    Sources = {"base", "fix", "formatted"}
    FailToPass <- MCFailToPass
    PassToPass <- MCPassToPass
    Edits <- MCEdits
    OptionChoices <- MCOptions
    MaxAttempts = 2
INVARIANTS
    InjectionKeepsPaths

SPECIFICATION Spec
CONSTANTS
    put1 = put1
    put2 = put2
    file1 = file1
    file2 = file2
    delete1 = delete1
    purge1 = purge1
    patch1 = patch1
    A = A
    B = B
    Empty = Empty
    FirstConfig = FirstConfig
    NoRow = NoRow
    NoHash = NoHash
    NoText = NoText
    Nobody = Nobody
    Texts <- MCTexts
    Blanks <- MCBlanks
    Puts <- OnePut
    Files <- None
    Deletes <- None
    Purges <- None
    Patches <- OnePatch
    TextOf <- MCTextOf
CHECK_DEADLOCK FALSE
INVARIANT SettingsLocked

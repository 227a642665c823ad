SPECIFICATION Spec
CONSTANTS
    Ok = Ok
    ok = ok
    hello = hello
    yes = yes
    Texts = {Ok, ok, hello, yes}
    Common = {Ok, hello, yes}
    Lower <- MCLower
    Nothing = nothing
    MaxFiles = 8
    MaxRuns = 3
    MaxStarts = 3
INVARIANTS SoundsMatch PreparedOnce
CHECK_DEADLOCK FALSE

SPECIFICATION FairSpec
CONSTANTS
    pay = pay
    tree = tree
    named = named
    unknown = unknown
    NoModule = NoModule
    Modules = {pay, tree}
    Names = {named, unknown}
    ModuleMap <- MCModuleMap
    Described = {pay}
    MaxFrames = 3
    MaxHostCalls = 3
INVARIANTS
    StringsHeldOnce
    RouteIsStack
    KeyUsable
PROPERTIES
    CommandsEnd
CHECK_DEADLOCK FALSE

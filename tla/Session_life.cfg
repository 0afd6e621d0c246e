CONSTANTS
    k1 = k1
    k2 = k2
    k3 = k3
    k4 = k4
    a1 = a1
    a2 = a2
    top = top
    mid = mid
    low = low
    NoTask = NoTask
    Tasks = {top, mid, low}
    Root = top
    Graphs <- MCGraphs
    Runs = 2
    TaskActs = 2
    Plans <- MCPlans
    Calls = {k1, k2, k3, k4}
    Cmd <- MCCmd
    Main = Main
    Caller <- MCCaller
    Asking = {k2, k3, k4}
    Agents = {a1, a2}
    Attempts = 1
    MaxWire = 2
SPECIFICATION BothSpec
INVARIANTS
    
    RestIsShown
    CrewIsShown
    ContinuesWithinBudget
    DependenciesFirst
    OneStopRunAtATime
PROPERTIES
    ThinkingEnds
    
CHECK_DEADLOCK FALSE

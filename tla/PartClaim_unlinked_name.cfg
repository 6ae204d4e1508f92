CONSTANTS
    desktop = desktop
    cli = cli
    d1 = d1
    d2 = d2
    c1 = c1
    Procs = {desktop, cli}
    Tasks = {d1, d2, c1}
    ProcOf <- TwoProcesses
    Sweeps = {}
    MaxFiles = 4
SPECIFICATION Spec
INVARIANTS MutualExclusion

SPECIFICATION Spec
CONSTANTS
    p1 = p1  p2 = p2  p3 = p3  vllm = vllm  sglang = sglang
    Cleaners = {c1, c2}
    Pages = {p1, p2}
    Dirs = {vllm, sglang}
    DirOf <- MCDirOf2
    SizeOf <- MCSizeOf2
    Provisioned = {sglang}
    Foreign = 0  Trigger = 2  Target = 1
    NoAtime = FALSE
    MaxStamp = 1  MaxWipes = 2  MaxFaults = 0  MaxCrashes = 1
INVARIANTS MutualExclusion
SYMMETRY CleanerSymmetry

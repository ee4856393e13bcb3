SPECIFICATION Spec
CONSTANTS
    p1 = p1  p2 = p2  p3 = p3  vllm = vllm  sglang = sglang
    Cleaners = {c1}
    Pages = {p1, p2, p3}
    Dirs = {vllm, sglang}
    DirOf <- MCDirOf
    SizeOf <- MCSizeOf
    Provisioned = {sglang}
    Foreign = 0  Trigger = 4  Target = 2
    NoAtime = TRUE
    MaxStamp = 4  MaxWipes = 0  MaxFaults = 0  MaxCrashes = 0
PROPERTIES LRUOrder

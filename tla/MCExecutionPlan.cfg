CHECK_DEADLOCK FALSE
CONSTANTS
    Transparent = {"ID"}
    Vendor = {"CUSTOM"}
    Devices <- MCDevices
    Cpu = "CPU"
    Cost <- MCCost
    Instances <- MCInstances
    InRunOrder <- finishModel
    Partition <- partitionTheWork
    Holds <- IsTrue
    Meant <- Evaluate
    OnCpu <- run
SPECIFICATION Spec
INVARIANTS
    TypeOK
    ComputesTheModel
    InputsDoNotAliasOutputs
    CpuFreesWhatItAllocates
PROPERTIES
    Terminates

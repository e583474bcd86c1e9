SPECIFICATION StagingSpec
CONSTANTS
    d1 = d1  d2 = d2  d3 = d3  d4 = d4  d5 = d5  d6 = d6
    v1 = v1  v2 = v2  b1 = b1  s1 = s1
    Devices = {d1, d2, d3, d4, d5, d6}
    Vms = {v1, v2}
    Legacy = {}
    VmIp <- MCVmIp
    VmMac <- MCVmMac
    DeviceIp <- MCDeviceIp
    DeviceMac <- MCDeviceMac
    Alike <- MCAlike
    ConfirmedIp <- MCConfirmedIp
    Initially <- MCInitially
    Baselines <- MCBaselines
    Sensors <- MCSensors
    Scored <- MCScored
    PageSize = 2
    MaxPages = 3
    MaxDetails = 4
    MinQuality = 80
    MaxFaults = 1
    MaxChanges = 2
    MaxCycles = 2
ACTION_CONSTRAINT Reduction
INVARIANT ContractKept
PROPERTIES ApprovedFaithful NewUiApart StagedAsPlanned
CHECK_DEADLOCK FALSE

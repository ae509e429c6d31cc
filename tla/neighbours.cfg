SPECIFICATION FairSpec
CONSTANTS
    Names = {vm1, vm2}
    Nets = {net1}
    net1 = net1
    Seeds = seeds
    Disks = disks
    Pools = {seeds, disks}
    Base = images
    Ips = {ip1, ip2}
    NetsOf <- SameNet
    vm1 = vm1 vm2 = vm2 ip1 = ip1 ip2 = ip2
    IpsOf <- OneOrTwo
    MaxFaults = 2
    MaxOps = 3
CHECK_DEADLOCK FALSE
INVARIANTS TypeOK ReadyWhenBuilt AloneSucceeds RegisteredStays
PROPERTIES EveryOperationEnds

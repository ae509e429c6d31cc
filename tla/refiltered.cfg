SPECIFICATION Spec
CONSTANTS
    c1 = c1 c2 = c2 m1 = m1 m2 = m2 vm = vm net1 = net1
    dhcp = dhcp static = static small = small large = large ssh = ssh web = web
    u1 = u1 u2 = u2 u3 = u3 u4 = u4 None = None Unmanaged = Unmanaged
    Clients = {c1, c2}
    Managers = {m1}
    ManagerOf <- OneManager
    Names = {vm}
    Nets = {net1}
    Rest = {dhcp, static}
    NetsOf <- MCNetsOf
    StaticRest = {static}
    Sizes = {small, large}
    Rules = {ssh, web}
    Wanted <- EverySpec
    Uuids = {u1, u2}
    Faulty <- AllCalls
    MaxFaults = 0
    Environment = {}
SYMMETRY SymmetricClients
INVARIANTS ConvergenceSucceeds

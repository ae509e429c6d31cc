SPECIFICATION Spec
CONSTANTS
    ApiClients = {api}
    CliClients = {cli}
    Names = {vm1, vm2}
    BadName = bad
    Inputs <- MCInputs
    StaticNets = {wired}
    Uuids = {u1, u2, u3}
    MaxRequests = 3
    MaxEvents = 1
    None = None
    DefaultNet = default
    LateFields = {"filters", "routes"}
    lan = lan wired = wired small = small large = large image = image web = web gateway = gateway
SYMMETRY Symmetric
INVARIANTS TypeOK OneServerRead ListComplete UnavailableHasCause NotFoundHasCause  SameYamlAccepted
CHECK_DEADLOCK FALSE

\* A client with a monitor of up to four results, or with RPC requests.
CONSTANTS
    Client = {c1}
    MaxResults = 4
    Services = {"rpc", "monitor"}
SPECIFICATION ServerSpec
INVARIANTS NoneLost
PROPERTIES ConnectedOwn MonitorLive

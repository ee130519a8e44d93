SPECIFICATION HistorySpec
CONSTANTS
    a1 = a1
    a2 = a2
    d1 = d1
    d2 = d2
    q1 = q1
    q2 = q2
    q3 = q3
    NoCred = NoCred
    NoDevice = NoDevice
    NoRequest = NoRequest
    Requests <- MCRequests
    Devices <- MCDevices
    Agents <- MCAgents
    Credentials <- MCCredentials
    StoredFiles <- MCStoredFiles
    MaxLive = 2
INVARIANT RevokedNeedsTicket

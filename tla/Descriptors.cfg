SPECIFICATION MCSpec
CONSTANTS
    Blobs <- MCBlobs
    Candidates <- MCCandidates
    BosBlobs <- MCBosBlobs
    StrBlobs <- MCStrBlobs
    BufLen = 40
    MaxParts = 3
    MaxCaps = 2
    MaxUnits = 4
    FirstRead = 12
    MaxPackets = 3
    MaxSize = 2
CHECK_DEADLOCK FALSE
INVARIANTS ConfigRead EndpointsRouted SystemsAgree PacketsSound
PROPERTY ParsersReturn

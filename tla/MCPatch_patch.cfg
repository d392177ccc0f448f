SPECIFICATION Spec
CONSTANTS
    output = output
    mixer = mixer
    osc = osc
    filter = filter
    NoNode = NoNode
    Nodes <- MCNodes
    InCount <- MCInCount
    Table <- MCTable
    Output = output
    Mixer = mixer
    Places <- MCPlaces
    MaxChanges = 2
INVARIANTS
    TypeOK
    PatchIsSound
    
    SocketsAgree
    
    PositionsArrive
PROPERTIES
    PatchIsNearest
    DeletedGo
CHECK_DEADLOCK FALSE

CONSTANTS
    Packets <- MCPackets
    Noise <- MCNoise
    DefaultId <- MCDefaultId
    MaxPackets = 2
    MaxNoise = 1
    g_msg_id_length = 2
    MaxDigit = 2
SPECIFICATION OutSpec
INVARIANTS RoundTrip InSync
PROPERTY IdsCount

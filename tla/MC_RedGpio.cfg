\* Three pins of port G, two function values and two pull modes whose bits
\* differ from each other and from the reset value 0.
CONSTANTS
    Ports = {1, 6}
    Pins <- MCPins
    Muxes = {1, 6}
    PullCfgs = {1, 2}
INIT Init
NEXT Next
INVARIANT TypeOK
PROPERTY PinsIndependent

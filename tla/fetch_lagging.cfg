SPECIFICATION Spec
CONSTANTS
    MaxBlock = 2
    Chains <- AllChains
    Endpoint = {e1, e2}
    MaxLag = 1
    Depth <- Latest
SYMMETRY EndpointSymmetry
INVARIANT FetchesUntilTag

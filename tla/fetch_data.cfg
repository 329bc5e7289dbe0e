SPECIFICATION Spec
CONSTANTS
    MaxBlock = 2
    Chains <- AllChains
    Endpoint = {e1, e2}
    MaxLag = 1
    Depth <- TwoTags
SYMMETRY EndpointSymmetry
INVARIANTS
    FetchExact
    FetchComplete

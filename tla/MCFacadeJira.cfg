SPECIFICATION Spec
CONSTANTS
    MaxDepth = 3
    MaxTerms = 100
    MaxMembers = 1000
    MaxWeight = 100
    Schemas <- OneTracker
    NoSchema = NoSchema
    Supplies <- Unsupplied
    Questions <- Asked
    Catalog = {}
    Caps <- JiraCaps
    Translate <- JqlText
    Policies <- OnePolicy
    Limits = {1}
    TTL = 1
    MaxEntries = 128
    Horizon = 2
    MaxDiscovery = 1
    MaxProposals = 2
    MaxChanges = 0
    Reference <- At
INVARIANTS
    EditsRejected

SPECIFICATION Spec
CONSTANTS
    MaxDepth = 3
    MaxTerms = 100
    MaxMembers = 1000
    MaxWeight = 100
    Schemas <- AllSchemas
    NoSchema = NoSchema
    Supplies <- Unsupplied
    Questions <- TwoQuestions
    Catalog <- Terms
    Caps <- SqliteCaps
    Translate <- Sqlite
    Policies <- OnePolicy
    Limits = {}
    TTL = 1
    MaxEntries = 128
    Horizon = 3
    MaxDiscovery = 1
    MaxProposals = 2
    MaxChanges = 1
    Reference <- At
INVARIANTS
    ProjectErrorsOnly

SPECIFICATION Spec
CONSTANTS
    Schemas <- ShopSchemas
    Policies <- AllPolicies
    Anything = Anything
    Questions <- Asked
    Intents <- Answerable
    Catalog <- Terms
    MaxShown = 2
    MaxSize = 4
    Attempts = 3
    Providers = {"openai", "anthropic", "ollama"}
    NoIntent = NoIntent
    MaxChanges = 2
INVARIANTS
    NothingWithheld

SPECIFICATION Spec
CONSTANTS
    Schemas <- DottedSchemas
    Policies <- OnePolicy
    Anything = Anything
    Questions <- AskedOfStore
    Intents <- Answerable
    Catalog <- DottedTerms
    MaxShown = 1
    MaxSize = 3
    Attempts = 3
    Providers = {"openai"}
    NoIntent = NoIntent
    MaxChanges = 0
INVARIANTS
    TermsStrengthen

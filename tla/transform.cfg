SPECIFICATION Spec
CONSTANTS
    Number <- MCNumber
    WordLess <- MCWordLess
    Inputs <- MCInputs
    Pipelines <- MCPipelines
    None = None
    BadPattern = "("
    BadTemplate = "{{"
    Dollar = {"$1"}
INVARIANTS ResultIsByValue SecretsEncodedOnce

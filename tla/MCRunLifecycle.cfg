\* Two calls, findings of up to two quotes, one fault anywhere.
CONSTANTS
    Calls = {c1, c2}
    MaxQuotes = 2
    MaxQuotesPerCall = 1
    Outputs <- MCOutputs
    Texts <- MCTexts
    MaxFaults = 1
SPECIFICATION Spec
INVARIANTS TypeOK SealedVerifies ExitIsEarned VerifiesOnlySealed

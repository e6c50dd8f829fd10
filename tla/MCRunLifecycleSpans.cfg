\* As MCRunLifecycle.cfg without faults.
CONSTANTS
    Calls = {c1, c2}
    MaxQuotes = 2
    MaxQuotesPerCall = 1
    Outputs <- MCOutputs
    Texts <- MCTexts
    MaxFaults = 0
SPECIFICATION Spec
INVARIANT HonestRunVerifies

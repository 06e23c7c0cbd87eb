SPECIFICATION Spec
CONSTANTS
    Variables <- MCVariables
    Exponential <- MCExponential
    Foreign <- MCForeign
    Envelopes <- MCEnvelopes
    Texts <- MCTexts
    Payloads <- MCPayloads
INVARIANT
    RunsWhatWasMeant
    RefusedOnlyIfUnwritable
    CanonicalSettles

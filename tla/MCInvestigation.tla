---------------------------- MODULE MCInvestigation ----------------------------
\* Responses of two and of four tokens.
EXTENDS Investigation

Reported(input, output) ==
    [input |-> input, cached |-> 0, cacheWrite |-> 0, output |-> output,
     providerTotal |-> input + output]

MCUsages == {Reported(1, 1), Reported(2, 2)}
===============================================================================

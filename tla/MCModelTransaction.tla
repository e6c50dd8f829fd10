--------------------------- MODULE MCModelTransaction ---------------------------
\* Responses within and above what is allowed, and one whose usage does not add up.
EXTENDS ModelTransaction

Reported(input, output) ==
    [input |-> input, cached |-> 0, cacheWrite |-> 0, output |-> output,
     providerTotal |-> input + output]

MCUsages == {Reported(1, 1), Reported(2, 2), [Reported(1, 1) EXCEPT !.providerTotal = 3]}
===============================================================================

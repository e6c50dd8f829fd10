------------------------------ MODULE MCRunBudget ------------------------------
(* A small instance of RunBudget: the client and a pool worker, the price table
   of CapConfig scaled to integers (a price unit is a quarter of a millionth). *)
EXTENDS RunBudget

CONSTANTS client, worker

MCThreads == {client, worker}

Reported(input, cached, cacheWrite, output) ==
    [input |-> input, cached |-> cached, cacheWrite |-> cacheWrite, output |-> output,
     providerTotal |-> input + output]

\* Within the preflight; a cache write; a cache read; longer than estimated; malformed.
MCUsages == {
    Reported(1, 0, 0, 1), Reported(2, 0, 2, 2), Reported(2, 1, 0, 1), Reported(3, 0, 0, 2),
    [Reported(1, 0, 0, 1) EXCEPT !.providerTotal = 5] }
===============================================================================

---------------------------- MODULE MCRunLifecycle ----------------------------
\* Two outputs of three bytes; one text is at one place in each, the other twice in one.
EXTENDS RunLifecycle

MCOutputs == {<<1, 2, 2>>, <<2, 1, 1>>}
MCTexts == {<<1>>, <<2>>}
===============================================================================

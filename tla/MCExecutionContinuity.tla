----------------------- MODULE MCExecutionContinuity -----------------------
EXTENDS ExecutionContinuity, MCLiteMemory

CONSTANT s

\* The write puts a state and moves it on, its retry does so again; the third moves it from
\* the revision it leaves; the broken rule would put one.
MCCarries ==
    w1 :> [put |-> s, move |-> s, expected |-> 1] @@
    w2 :> [put |-> s, move |-> s, expected |-> 1] @@
    w3 :> [put |-> NoState, move |-> s, expected |-> 2] @@
    w4 :> [put |-> s, move |-> NoState, expected |-> AnyRevision]
=============================================================================

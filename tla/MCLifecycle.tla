---------------------------- MODULE MCLifecycle ----------------------------
\* Lifecycle needs no addresses: these are the empty tables.
EXTENDS Lifecycle

NoAddress == {}
NoTable   == [a \in {} |-> NONE]
=============================================================================

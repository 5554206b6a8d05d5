--------------------------- MODULE MCSerialWorker ---------------------------
EXTENDS SerialWorker

\* The worker may leave only when stdin is closed or a request is malformed.
MCMalformed == {"r3"}
=============================================================================

---------------------------- MODULE MCAsyncWorker ----------------------------
EXTENDS AsyncWorker
=============================================================================

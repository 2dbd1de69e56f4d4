---------------------------- MODULE MCEtlService ----------------------------
EXTENDS EtlService
=============================================================================

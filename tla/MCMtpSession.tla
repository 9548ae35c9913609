---------------------------- MODULE MCMtpSession ----------------------------
EXTENDS MtpSession

CONSTANTS fa, fb
=============================================================================

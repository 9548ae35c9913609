----------------------------- MODULE MCPushInbox -----------------------------
EXTENDS PushInbox
\* Launches and faults are bounded by the guards; the instances are in the cfgs.
=============================================================================

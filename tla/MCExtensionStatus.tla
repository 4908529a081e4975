------------------------ MODULE MCExtensionStatus -------------------------
EXTENDS ExtensionStatus
============================================================================

--------------------------- MODULE MCRedirections ---------------------------
EXTENDS RedirectionScopes
=============================================================================

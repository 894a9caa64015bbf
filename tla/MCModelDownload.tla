-------------------------- MODULE MCModelDownload --------------------------
EXTENDS ModelDownload
=============================================================================

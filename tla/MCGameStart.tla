----------------------------- MODULE MCGameStart -----------------------------
EXTENDS GameStart
=============================================================================

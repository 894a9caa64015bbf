------------------------------ MODULE MCDemos ------------------------------
EXTENDS Demos
=============================================================================

---------------------------- MODULE MCGooseLocking ----------------------------
EXTENDS GooseLocking
=============================================================================

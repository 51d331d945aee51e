-------------------------- MODULE MCRollingReplay --------------------------
EXTENDS RollingReplay
=============================================================================

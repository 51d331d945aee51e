----------------------------- MODULE MCLivePage -----------------------------
EXTENDS LivePage
=============================================================================

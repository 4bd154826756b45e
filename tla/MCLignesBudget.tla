----------------------------- MODULE MCLignesBudget -----------------------------
EXTENDS LignesBudget
=============================================================================

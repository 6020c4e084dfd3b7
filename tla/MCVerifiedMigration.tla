------------------------- MODULE MCVerifiedMigration -------------------------
EXTENDS VerifiedMigration
=============================================================================

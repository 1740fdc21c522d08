-------------------------- MODULE MCAccountScrape ---------------------------
EXTENDS AccountScrape
=============================================================================

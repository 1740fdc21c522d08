----------------------------- MODULE MCScraper ------------------------------
EXTENDS Scraper
=============================================================================

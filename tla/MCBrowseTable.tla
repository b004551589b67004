--------------------------- MODULE MCBrowseTable ---------------------------
EXTENDS BrowseTable
=============================================================================

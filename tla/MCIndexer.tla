------------------------------- MODULE MCIndexer --------------------------------
EXTENDS Indexer
================================================================================

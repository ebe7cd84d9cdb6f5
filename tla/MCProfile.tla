------------------------------- MODULE MCProfile -------------------------------
EXTENDS Profile
================================================================================

------------------------------ MODULE MCRequests ------------------------------
EXTENDS Requests
===============================================================================

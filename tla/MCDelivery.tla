------------------------------ MODULE MCDelivery ------------------------------
EXTENDS Delivery
===============================================================================

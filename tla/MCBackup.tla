------------------------------- MODULE MCBackup --------------------------------
EXTENDS Backup
================================================================================

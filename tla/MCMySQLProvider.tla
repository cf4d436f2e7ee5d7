-------------------------- MODULE MCMySQLProvider --------------------------
(* A small instance of MySQLProvider; the cfg file gives the constants.    *)
EXTENDS MySQLProvider
=============================================================================

----------------------------- MODULE MCWebServer -----------------------------
(* A small instance of WebServer; the cfg file gives the constants.        *)
EXTENDS WebServer
=============================================================================

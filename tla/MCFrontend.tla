----------------------------- MODULE MCFrontend -----------------------------
(* A small instance of Frontend: one request and one rebuild.              *)
EXTENDS Frontend

CONSTANTS r1

MCUids == {1}
MCRebuilds == {r1}
=============================================================================

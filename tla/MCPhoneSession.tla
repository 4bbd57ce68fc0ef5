--------------------------- MODULE MCPhoneSession ---------------------------
(* An instance of PhoneSession: a client of two calls and a client of one.    *)
EXTENDS PhoneSession, TLC
CONSTANTS main, service, a, b, c

TwoClients == a :> main @@ b :> main @@ c :> service
=============================================================================

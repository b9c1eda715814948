---------------------------- MODULE MCRestServer ----------------------------
(***************************************************************************)
(* RestServer for TLC: two connections; a buffer for one and a half         *)
(* transactions; three outputs of which one is locked; the endpoints one   *)
(* at a time, and in pairs that pass sockets on through the pool.          *)
(***************************************************************************)
EXTENDS RestServer

MCOutput == 0..2
MCLocked == {2}
MCMixes == {{e} : e \in Endpoint}
           \cup {{"daemon_status", "submit_raw_tx"},
                 {"get_unspent_outs", "submit_raw_tx"}}
=============================================================================

---------------------------- MODULE MCHttpClient ----------------------------
(* Three webhooks or rate requests, two of them for the same server. *)
EXTENDS HttpClient

CONSTANTS m1, m2, m3

MCMessages == {m1, m2, m3}
MCHost == m1 :> "a" @@ m2 :> "a" @@ m3 :> "b"
=============================================================================

---------------------------- MODULE MCHttpClient ----------------------------
(***************************************************************************)
(* HttpClient on a small instance: two threads that share a client, a key  *)
(* that is missing, set, accepted or revoked, and streams with every kind  *)
(* of line before, between and after the chunks.                           *)
(***************************************************************************)
EXTENDS HttpClient

Streams == {<<"chunk", "junk", "chunk", "done", "chunk">>,
            <<"comment", "chunk", "no choices", "done">>,
            <<"chunk", "chunk">>}
=============================================================================

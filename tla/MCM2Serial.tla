----------------------------- MODULE MCM2Serial -----------------------------
(* Flag and escape and the two bytes they are escaped to, which also occur as
   plain data; payloads of two bytes with flag and escape at either place;
   checksums with and without them. *)
EXTENDS M2Serial

MCBytes == {126, 125, 94, 93}
MCPayloads == {<<126, 94>>, <<93, 125>>}
MCChecksums == {<<94, 93>>, <<126, 126>>, <<93, 125>>}

=============================================================================

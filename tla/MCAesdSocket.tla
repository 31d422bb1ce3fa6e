---------------------------- MODULE MCAesdSocket ----------------------------
(* Small instances of AesdSocket: two clients and buffers of a few bytes.  *)
EXTENDS AesdSocket, TLC

CONSTANTS c1, c2, nl, a, b, s

(* The seek command s goes to the second byte of the first command.        *)
MCSeekArgs == s :> <<0, 1>>

(* A message longer than full_buf; one without a newline, or a seek.       *)
MCMessages == c1 :> {<<a, a, b, nl>>} @@ c2 :> {<<b>>, <<s, nl>>}
=============================================================================

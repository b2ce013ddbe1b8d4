------------------------ MODULE MC_NetworkBroadcast ------------------------
(* NetworkBroadcast instantiated for TLC.  max_reps and                    *)
(* confirm_req_hashes_max are scaled down from 10 and 7 to 2, so that      *)
(* three endpoints or three hashes need two rounds.  The direct base call  *)
(* and the requests of broadcast_confirm_req_many use different blocks;   *)
(* one request has no endpoints.                                           *)
EXTENDS NetworkBroadcast, TLC

CONSTANTS c1, c2, c3, h0, h1, h2

MCChannels == {c1, c2, c3}
MCHashes == {h0, h1, h2}
MCBaseEndpoints == <<c1, c2, c3>>
MCBundle == (c1 :> <<h1, h2, h0>>) @@ (c2 :> <<h2>>)
MCRequests == <<[block |-> h1, eps |-> <<c1, c2, c3>>], [block |-> h2, eps |-> <<>>]>>
MCFloodBlocks == <<h1, h2>>
=============================================================================

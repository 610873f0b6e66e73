------------------------------- MODULE MCP2P -------------------------------
(* Instances of P2P for TLC.                                               *)
EXTENDS P2P, TLC

CONSTANTS alice, bob, carol, s1, s2, audio, video, token1, token2

OneTarget == {bob}
TwoTargets == {bob, carol}
AliceInitiates == {alice}
SomeIds == {s1, s2}
SomeKinds == {audio, video}
SomeTokens == {token1, token2}

Stream(kind, token) == [kind |-> kind, token |-> token]

(* From one to another streams come, go, get another token and another     *)
(* kind, and a token that is in use is given to a stream.                  *)
SomeLists ==
  {(s1 :> Stream(video, token1)) @@ (s2 :> Stream(audio, token2)),
   s1 :> Stream(video, token2), s1 :> Stream(audio, token1)}

SomeConns == (alice :> 1) @@ (bob :> 2)

(* The first message does not announce the audio stream alone.             *)
VideoFirst == <<1, s1>> \in DOMAIN rec => rec[<<1, s1>>].kind = video
=============================================================================

----------------------------- MODULE MCChannel -----------------------------
(***************************************************************************)
(* Instances of Channel for TLC. Telegram fails with an invalid token, a   *)
(* timeout that looks permanent but is not, or a rate limit; Feishu keeps  *)
(* its connection or is refused for good.                                  *)
(***************************************************************************)
EXTENDS Channel

CONSTANTS telegram, feishu

MCCodes == [a \in Adapters |-> IF a = telegram THEN {401, 408, 429} ELSE {400}]
=============================================================================

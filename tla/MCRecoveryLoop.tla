--------------------------- MODULE MCRecoveryLoop ---------------------------
(***************************************************************************)
(* RecoveryLoop for TLC: a payment link (the fallback, which may need an   *)
(* approval), a message (a contact) and a voice call the rail forbids.     *)
(***************************************************************************)
EXTENDS RecoveryLoop

MCActions == {"link", "message", "voice"}
MCPlans == {<<>>, <<"link">>, <<"message", "wait">>,
            <<"message", "wait", "message", "link">>, <<"voice">>}
MCDelay == [wait |-> 2]
=============================================================================

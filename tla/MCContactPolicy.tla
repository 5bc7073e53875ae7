--------------------------- MODULE MCContactPolicy ---------------------------
(***************************************************************************)
(* ContactPolicy for TLC: a day of four hours whose last and first are     *)
(* quiet, windows of two hours, one text message and two messages in each. *)
(* Two steps contact the customer; the third is a message too, or a        *)
(* payment link that the policy lets pass or stops in one of three ways.   *)
(***************************************************************************)
EXTENDS ContactPolicy

Step(case, rail, action, channel, attempt, amount) ==
  [case |-> case, rail |-> rail, action |-> action, channel |-> channel,
   attempt |-> attempt, amount |-> amount]

MCVariants ==
  [r1 |-> {Step("A", "card", "message", "sms", 0, 5)},
   r2 |-> {Step("B", "card", "message", "whatsapp", 0, 5)},
   r3 |-> {Step("A", "card", "message", "sms", 1, 5), Step("A", "card", "message", "whatsapp", 1, 5),
           Step("A", "card", "link", "none", 0, 5), Step("A", "card", "link", "none", 0, 20),
           Step("A", "autopay", "link", "none", 0, 5), Step("A", "card", "link", "none", 2, 5)}]
MCAllowed == [card |-> {"message", "link"}, autopay |-> {"message"}]
MCCaps == [k \in {"sms", "*"} |->
             IF k = "sms" THEN [window |-> 2, max |-> 1] ELSE [window |-> 2, max |-> 2]]
=============================================================================

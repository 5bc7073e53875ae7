--------------------------- MODULE MCDeliberation ---------------------------
(***************************************************************************)
(* Deliberation for TLC: two rails, one of them with mandates, and tables  *)
(* cut down from the repository's yaml files.                              *)
(***************************************************************************)
EXTENDS Deliberation

Act(id, schedule, rails, contact, cost, default, byCause) ==
  [id |-> id, schedule |-> schedule, binds |-> ~schedule, rails |-> rails, selectable |-> TRUE,
   contact |-> contact, cost |-> cost, pDefault |-> default, pByCause |-> byCause]

MCLibrary == <<
  Act("await_mandate_prerequisite", TRUE, {"enach"}, FALSE, 0, 0, <<>>),
  Act("await_provider_retry", TRUE, {"enach", "card"}, FALSE, 0, 0, <<>>),
  Act("create_ops_escalation", FALSE, {"enach", "card"}, FALSE, 900, 30, <<>>),
  Act("create_payment_link", FALSE, {"enach", "card"}, FALSE, 0, 22, [issuer_decline |-> 19]),
  Act("request_payment_method_update", FALSE, {"enach", "card"}, FALSE, 35, 26,
      [expired_card |-> 44, mandate_revoked |-> 38]),
  Act("send_approved_template", FALSE, {"enach", "card"}, TRUE, 25, 11, [insufficient_funds |-> 17]),
  Act("wait", TRUE, {"enach", "card"}, FALSE, 0, 0, <<>>)>>

Code(rail, code, cause, retry, ceiling) ==
  [rail |-> rail, code |-> code, cause |-> cause, hard |-> ~retry, retryEligible |-> retry,
   retryCeiling |-> ceiling, confidence |-> 90]
MCTaxonomy == <<
  Code("card", "DO_NOT_HONOUR", "issuer_decline", TRUE, 2),
  Code("card", "STOLEN_CARD", "fraud_flag", FALSE, 0),
  [Code("card", "WEAK_MATCH", "issuer_decline", TRUE, 2) EXCEPT !.confidence = 60],
  Code("enach", "MANDATE_NOT_ACTIVE", "mandate_revoked", FALSE, 0),
  Code("enach", "INSUFFICIENT_FUNDS", "insufficient_funds", TRUE, 2)>>

Playbook(domain, cause, steps) == [domain |-> domain, cause |-> cause, steps |-> steps]
MCPlaybooks == <<
  Playbook("renewal", "insufficient_funds",
           <<Step("send_approved_template", 24), Step("wait", 48), Step("await_provider_retry", 72)>>),
  Playbook("*", "mandate_revoked",
           <<Step("request_payment_method_update", 24), Step("wait", 72),
             Step("create_ops_escalation", 24)>>),
  Playbook("*", "issuer_decline", <<Step("create_payment_link", 24), Step("wait", 72)>>)>>

MCAllowed ==
  [card  |-> {"create_payment_link", "request_payment_method_update", "create_ops_escalation", "wait"},
   enach |-> {"request_payment_method_update", "send_approved_template", "create_ops_escalation",
              "wait", "await_provider_retry", "await_mandate_prerequisite"}]

Failed(rail, code, amount, mandate) ==
  [domain |-> "renewal", rail |-> rail, code |-> code, amount |-> amount, mandate |-> mandate]
MCInputs == <<
  {Failed("card", "05", 50000, "active"),
   Failed("card", "WEAK_MATCH", 50000, "active"),
   Failed("enach", "91", 5, "active"),
   Failed("enach", "MANDATE_NOT_ACTIVE", 50000, "revoked"),
   Failed("enach", "INSUFFICIENT_FUNDS", 50000, "active")},
  {Failed("card", "DO_NOT_HONOUR", 50000, "active"),
   Failed("card", "STOLEN_CARD", 50000, "active")}>>

MCDiagnoses == {[cause |-> "issuer_decline", rival |-> "clear"],
                [cause |-> "expired_card", rival |-> "close"]}
MCCauses == {"expired_card", "issuer_decline"}

(* The sequencer against its rule, over a grid of facts: a debit it lets   *)
(* through comes no sooner than a day after the notice.                    *)
ASSUME NoticePrecedesDebit ==
  \A state \in {"active", "paused", "revoked", "unknown"}, overCap \in BOOLEAN,
     notified \in -1..30, presented \in {-1, 0, 5, 60}, no \in 0..4 :
    LET s == Sequenced([rail |-> "enach", state |-> state, overCap |-> overCap,
                        notified |-> notified, presented |-> presented, attemptNo |-> no])
    IN  IF s.permitted
        THEN (IF notified = -1 THEN 0 ELSE notified) + LeadIn(s.steps) >= Notice
        ELSE s.steps = Update

(* The reducer's precedence, over all it may be told.                      *)
ASSUME CustomerComesFirst ==
  \A d \in MCDiagnoses, optedOut \in BOOLEAN, suppress \in BOOLEAN,
     intent \in {"will_pay", "dispute", "opt_out", "unknown"} :
    LET s == Strategy(d, [intent |-> intent, optedOut |-> optedOut], suppress)
    IN  /\ optedOut \/ intent \in {"dispute", "opt_out"} => s = "stop"
        /\ s \in {"plan", "conflict"} => ~suppress
=============================================================================

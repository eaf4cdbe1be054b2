--------------------------- MODULE MCAmqpLogging ----------------------------
(***************************************************************************)
(* AmqpLogging for TLC: one logger, two on one broker, two on different    *)
(* brokers, and one followed by an Apache logger; a safe and an unsafe     *)
(* request.                                                                *)
(***************************************************************************)
EXTENDS AmqpLogging

Audit(broker, exchange, unsafeOnly) ==
    [type |-> "amqp", broker |-> broker, exchange |-> exchange, unsafeOnly |-> unsafeOnly]

MCConfigs ==
    {<<Audit("one", "audit", FALSE)>>,
     <<Audit("one", "audit", FALSE), Audit("one", "writes", TRUE)>>,
     <<Audit("one", "audit", TRUE), Audit("two", "writes", FALSE)>>,
     <<Audit("one", "audit", FALSE), Apache>>}
MCRequest == [unsafe : BOOLEAN]
=============================================================================

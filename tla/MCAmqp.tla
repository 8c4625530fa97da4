------------------------------- MODULE MCAmqp -------------------------------
(***************************************************************************)
(* The programs of the model-checked instance: one for each way to go on   *)
(* after a call.  The amqpcpp publishers of YH-109, 110 and 113 go on as   *)
(* DirectPublish168 does, and declare what Publish114 or Publish166 does;  *)
(* the TLS programs are the same to the broker.                            *)
(***************************************************************************)
EXTENDS Amqp

MCOffered ==
    {Publish114, Publish166, DirectPublish168, Publish170,
     Get109, Get114, Get166, Get168, Get172,
     Consume109, Consume114, Consume171, Check166, Check171}
=============================================================================

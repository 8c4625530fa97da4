---------------------------- MODULE AmqpPrograms ----------------------------
(***************************************************************************)
(* The RabbitMQ clients of YH-109 to YH-114 and YH-166 to YH-173.  They    *)
(* are written on three libraries: rabbitmq-c ("c"), SimpleAmqpClient's    *)
(* ancestor amqpcpp ("cpp", its errors are exceptions that end the         *)
(* program) and AMQP-CPP ("async", callbacks of a libevent loop).          *)
(*                                                                         *)
(* A program is what its main does with the broker:                        *)
(*   role      publish, get, consume or check                              *)
(*   exchange  how it declares the exchange, "none" if it does not         *)
(*   queue     how it declares the queue, "none" if it does not            *)
(*   binds     whether it binds the queue to the exchange                  *)
(*   optional  whether the queue may be left out of its command line       *)
(*   persistent   whether its messages are marked persistent               *)
(* How a program goes on after each of its calls is in module Amqp.        *)
(* Host, credentials, virtual host, routing key and TLS are the same for   *)
(* all programs; parsing of the command line is left out.                  *)
(***************************************************************************)

Publisher(lib, ex, qu, opt, pers) ==
    [role |-> "publish", library |-> lib, exchange |-> ex, queue |-> qu,
     binds |-> TRUE, optional |-> opt, persistent |-> pers]

Reader(kind, lib, qu, binding) ==
    [role |-> kind, library |-> lib, exchange |-> "none", queue |-> qu,
     binds |-> binding, optional |-> FALSE, persistent |-> FALSE]

(* rabbitmq-c, 2021: a durable exchange that deletes itself and a queue    *)
(* that does not survive the broker, any exchange type                     *)
Publish111 == Publisher("c", "auto", "transient", TRUE, TRUE)
Publish114 == Publisher("c", "auto", "transient", TRUE, TRUE)
Get111 == Reader("get", "c", "transient", FALSE)
Get114 == Reader("get", "c", "transient", FALSE)
Consume111 == Reader("consume", "c", "transient", FALSE)
Consume114 == Reader("consume", "c", "transient", FALSE)

(* rabbitmq-c, the newer series, over TCP and over TLS: all durable        *)
Publish166 == Publisher("c", "durable", "durable", FALSE, TRUE)
Publish167 == Publisher("c", "durable", "durable", FALSE, TRUE)
Get166 == Reader("get", "c", "durable", FALSE)
Get167 == Reader("get", "c", "durable", FALSE)
Check166 == Reader("check", "c", "durable", FALSE)
Check167 == Reader("check", "c", "durable", FALSE)

(* amqpcpp, 2021.  The exchange's parameters are set after it was          *)
(* declared, except by fanout_publish                                      *)
Publish109 == Publisher("cpp", "transient", "transient", FALSE, TRUE)
DirectPublish110 == Publisher("cpp", "transient", "transient", TRUE, TRUE)
FanoutPublish110 == Publisher("cpp", "auto", "transient", TRUE, TRUE)
TopicPublish110 == Publisher("cpp", "transient", "transient", TRUE, TRUE)
HeadersPublish113 == Publisher("cpp", "transient", "transient", TRUE, TRUE)
Get109 == Reader("get", "cpp", "transient", FALSE)
ReadQueue110 == Reader("get", "cpp", "transient", FALSE)
ReadQueue113 == Reader("get", "cpp", "transient", FALSE)
Consume109 == Reader("consume", "cpp", "transient", TRUE)

(* amqpcpp, the newer series, over TCP and over TLS                        *)
DirectPublish168 == Publisher("cpp", "durable", "durable", TRUE, TRUE)
DirectPublish169 == Publisher("cpp", "durable", "durable", TRUE, TRUE)
Get168 == Reader("get", "cpp", "durable", FALSE)
Get169 == Reader("get", "cpp", "durable", FALSE)

(* AMQP-CPP, over TCP and over TLS.  The publisher declares nothing and    *)
(* its messages carry no delivery mode                                     *)
Publish170 == Publisher("async", "none", "none", FALSE, FALSE)
Publish173 == Publisher("async", "none", "none", FALSE, FALSE)
Get172 == Reader("get", "async", "durable", FALSE)
Get173 == Reader("get", "async", "durable", FALSE)
Consume171 == Reader("consume", "async", "durable", FALSE)
Consume173 == Reader("consume", "async", "durable", FALSE)
Check171 == Reader("check", "async", "durable", FALSE)
Check173 == Reader("check", "async", "durable", FALSE)

Programs ==
    {Publish109, DirectPublish110, FanoutPublish110, TopicPublish110,
     HeadersPublish113, Publish111, Publish114, Publish166, Publish167,
     DirectPublish168, DirectPublish169, Publish170, Publish173,
     Get109, ReadQueue110, ReadQueue113, Get111, Get114, Get166, Get167,
     Get168, Get169, Get172, Get173,
     Consume109, Consume111, Consume114, Consume171, Consume173,
     Check166, Check167, Check171, Check173}
=============================================================================

--------------------------- MODULE MCKafkaConsumer ---------------------------
(* Small instances of KafkaConsumer for TLC: a good message and a poisoned one. *)
EXTENDS KafkaConsumer, TLC

=============================================================================

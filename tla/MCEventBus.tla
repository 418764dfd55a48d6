----------------------------- MODULE MCEventBus -----------------------------
(***************************************************************************)
(* EventBus on a small instance: two connections whose queues hold two     *)
(* items, and more events than that.                                       *)
(***************************************************************************)
EXTENDS EventBus

=============================================================================

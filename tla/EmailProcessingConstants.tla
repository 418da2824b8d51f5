----------------------- MODULE EmailProcessingConstants -----------------------
(***************************************************************************)
(* The key under which an inbound email is queued.  A provider message id  *)
(* is a sequence of characters; BullMQ refuses job ids that contain ":",   *)
(* so the code rewrites every ":" to "_".  The constant prefix "inbound-"  *)
(* is injective and is left out.                                           *)
(***************************************************************************)
EXTENDS Sequences

toEmailProcessingJobId(providerMessageId) ==
  [i \in DOMAIN providerMessageId |->
     IF providerMessageId[i] = ":" THEN "_" ELSE providerMessageId[i]]

===============================================================================

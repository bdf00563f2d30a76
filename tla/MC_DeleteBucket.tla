--------------------------- MODULE MC_DeleteBucket ---------------------------
(* Instances of DeleteBucket for TLC, over the mails of MC_MailStorage. *)
EXTENDS DeleteBucket, MC_MailStorage

DeleteFaults == {"bucket", "record", "index", "unindex", "remove"}
=============================================================================

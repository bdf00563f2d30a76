---------------------------- MODULE MC_LdaArchive ----------------------------
(* Instances of LdaArchive for TLC, over the mails of MC_MailStorage. *)
EXTENDS LdaArchive, MC_MailStorage

AllRecipients == [f \in MCFiles |-> TRUE]
=============================================================================

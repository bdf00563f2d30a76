--------------------------- MODULE MC_StoreCorpus ---------------------------
(***************************************************************************)
(* Instances of StoreCorpus for TLC, over the mails of MC_MailStorage.    *)
(***************************************************************************)
EXTENDS StoreCorpus, MC_MailStorage

CONSTANT f5

\* readdir lists five files, the one without a From header third;
\* maxSample = 4 leaves the fifth out.
MCCorpusFiles == MCFiles \cup {f5}
MCCorpus == <<f1, f2, f4, f3, f5>>
MCCorpusMail == MCMail @@ (f5 :> MCMail[f1])
AllCorpusFaults == {"readdir", "bucket", "record", "index"}
IndexFaults == {"index"}

\* For the liveness runs: the fourth mail has a From header and no
\* Message-Id, so all four files can be stored.
MCMailLive == [MCCorpusMail EXCEPT ![f4] = [@ EXCEPT !.from = TRUE,
                                               !.msgIdHdr = <<>>]]
=============================================================================

--------------------------- MODULE MC_MailStorage ---------------------------
(***************************************************************************)
(* Instances of MailStorage for TLC.  Deliveries and uuids are model      *)
(* values; Message-Id headers are sequences over three characters.        *)
(***************************************************************************)
EXTENDS MailStorage, TLC

CONSTANTS f1, f2, f3, f4, u1, u2

MCChars == {"<", ">", "a"}
MCUuids == {u1, u2}
AllFaults == {"bucket", "record", "index"}

\* <a> and <a>: two copies of one list message, with different subjects
\* (a mailing-list tag) and bodies; the third has no Message-Id; the
\* fourth has no From header.
MCMail ==
    (f1 :> [from |-> TRUE, msgIdHdr |-> <<"<", "a", ">">>,
            subject |-> "text", indexable |-> TRUE])
 @@ (f2 :> [from |-> TRUE, msgIdHdr |-> <<"<", "a", ">">>,
            subject |-> "blank", indexable |-> FALSE])
 @@ (f3 :> [from |-> TRUE, msgIdHdr |-> <<>>,
            subject |-> "absent", indexable |-> TRUE])
 @@ (f4 :> [from |-> FALSE, msgIdHdr |-> <<"<", "a", ">">>,
            subject |-> "text", indexable |-> TRUE])

MCFiles == {f1, f2, f3, f4}

\* Message-Id headers one character long: both strip to the empty msgId.
MCMailShortId ==
    (f1 :> [from |-> TRUE, msgIdHdr |-> <<"a">>,
            subject |-> "text", indexable |-> TRUE])
 @@ (f2 :> [from |-> TRUE, msgIdHdr |-> <<"<", "a", ">">>,
            subject |-> "text", indexable |-> TRUE])
 @@ (f3 :> [from |-> TRUE, msgIdHdr |-> <<">">>,
            subject |-> "blank", indexable |-> TRUE])
 @@ (f4 :> [from |-> TRUE, msgIdHdr |-> <<>>,
            subject |-> "text", indexable |-> FALSE])

NoFaults == {}
RecordFaults == {"record"}
=============================================================================

---------------------------- MODULE MCCorrections ----------------------------
(***************************************************************************)
(* Corrections, and with them the lifecycle, under the shipped contract.   *)
(***************************************************************************)
EXTENDS Corrections, MCLifecycle

\* How the latest call ended is looked at where the machine is alone; with the
\* store behind it, refused calls change nothing that is.  What callers who
\* correct any record they hold wrote in it decides neither what they can do
\* next nor a property of theirs: only which decision cites which.
Citations == [i \in DOMAIN records |-> <<records[i].decision_id, records[i].supersedes>>]

CallView ==
  <<log, txn, callers,
    IF callers = "careful" THEN Citations ELSE records,
    IF callers = "any" THEN last ELSE <<>>>>

===============================================================================

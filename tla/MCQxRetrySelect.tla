-------------------------- MODULE MCQxRetrySelect --------------------------
(* Entries that differ from one another in one rank of the order at a time. *)
EXTENDS QxRetrySelect

Entry(priority, eligibleAt, enqueuedAt, seqno, oid, retry) ==
    [priority |-> priority, eligibleAt |-> eligibleAt, enqueuedAt |-> enqueuedAt,
     seqno |-> seqno, oid |-> oid, retry |-> retry]

EntriesDef ==
    {Entry("high", 2, 1, 1, 1, 1), Entry("low", 1, 0, 1, 2, 1),
     Entry("normal", 2, 1, 1, 3, 1), Entry("normal", 1, 1, 2, 4, 2),
     Entry("normal", 2, 0, 1, 5, 2), Entry("normal", 2, 1, 2, 6, 1),
     Entry("normal", 2, 1, 1, 7, 2), Entry("normal", 1, 0, 1, 8, 3)}
=============================================================================

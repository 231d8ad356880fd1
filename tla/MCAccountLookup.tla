--------------------------- MODULE MCAccountLookup ---------------------------
(* Instances of AccountLookup for TLC: two workers, one party, two FSPs, and *)
(* partitions that between them hold every kind of request.                  *)
EXTENDS AccountLookup, TLC

CONSTANTS w1, w2, p1, f1, f2

Workers == {w1, w2}
Parties == {p1}
Fsps == {f1, f2}

M(name, requester, destination) ==
    [name |-> name, form |-> "domain_event", party |-> p1,
     requester |-> requester, destination |-> destination]

Associate(f) == M("ParticipantAssociationRequestReceivedEvt", f, Null)
Disassociate(f) == M("ParticipantDisassociateRequestReceivedEvt", f, Null)
PartyQuery(f, d) == M("PartyQueryReceivedEvt", f, d)
ParticipantQuery(f) == M("ParticipantQueryReceivedEvt", f, Null)
Malformed(form) == [M("PartyQueryReceivedEvt", f1, Null) EXCEPT !.form = form]

Partition(s1, s2) == (w1 :> s1) @@ (w2 :> s2)

(* Two partitions that race for the ownership of one party. *)
RacingLogs ==
    {Partition(<<Associate(f1), PartyQuery(f2, Null)>>, <<Disassociate(f1)>>),
     Partition(<<Associate(f1), ParticipantQuery(f2)>>, <<Associate(f2)>>),
     Partition(<<Associate(f1), Disassociate(f1)>>, <<PartyQuery(f2, f1)>>)}

(* The kinds of request that do not touch the oracle, and malformed ones. *)
PlainLogs ==
    {Partition(<<M("PartyInfoAvailableEvt", f1, f2), Malformed("no_payload"),
                 M("PartyRejectedEvt", f1, f2)>>, <<>>),
     Partition(<<M("ParticipantRejectedEvt", f1, f2), Malformed("other_type"),
                 M(Unknown, f1, Null), PartyQuery(f1, f2)>>, <<>>),
     Partition(<<PartyQuery(Null, f2), M("PartyRejectedEvt", f1, Null)>>, <<>>)}

AllLogs == RacingLogs \cup PlainLogs

(* A registration and the query that needs it, on different partitions. *)
ShortLogs == {Partition(<<Associate(f1)>>, <<PartyQuery(f2, Null)>>),
              Partition(<<Associate(f1), Disassociate(f1)>>, <<>>)}

MostlyActive == {(f1 :> "active") @@ (f2 :> s) : s \in {"active", "not_active"}}

=============================================================================

----------------------------- MODULE MCOracleApi -----------------------------
(* Instances of OracleApi for TLC. *)
EXTENDS OracleApi

CONSTANTS o1, o2, n1, n2, msisdn, usd, eur, url

Ids == {o1, o2}
Names == {n1, n2}
PartyTypes == {msisdn}
Currencies == {usd, eur}
Endpoints == {url}

DTO(id, name, type, currency, endpoint) ==
    [id |-> id, name |-> name, type |-> type, partyType |-> msisdn,
     currency |-> currency, endpoint |-> endpoint]

(* Built-in and remote oracles with and without an id, among them one whose   *)
(* currency was left out, a remote one without an endpoint, and one of a type *)
(* that does not exist.                                                       *)
MixedCandidates ==
    {DTO(o1, n1, "builtin", usd, url), DTO(Null, n2, "builtin", Undefined, Null),
     DTO(o1, n2, "remote-http", usd, url), DTO(Null, n1, "remote-http", Null, Null),
     DTO(o2, n1, "unsupported", usd, url)}

=============================================================================

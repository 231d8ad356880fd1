--------------------------- MODULE MCOracleRegistry ---------------------------
(* Instances of OracleRegistry for TLC. *)
EXTENDS OracleRegistry

CONSTANTS o1, o2, n1, n2, msisdn, usd, eur, url

Ids == {o1, o2}
Names == {n1, n2}
PartyTypes == {msisdn}
Currencies == {usd, eur}
Endpoints == {url}

DTO(id, name, type, currency, endpoint) ==
    [id |-> id, name |-> name, type |-> type, partyType |-> msisdn,
     currency |-> currency, endpoint |-> endpoint]

(* One of them has an adapter that cannot be initialised. *)
SomeCandidates ==
    {DTO(o1, n1, "builtin", usd, url), DTO(o2, n2, "remote-http", usd, url),
     DTO(Null, n1, "remote-http", eur, Null)}

=============================================================================

----------------------------- MODULE MCSourceRead -----------------------------
(***************************************************************************)
(* SourceRead with two readers of one secret and one of another, caches for *)
(* up to two entries, and a source that drifts or has no rows.              *)
(***************************************************************************)
EXTENDS SourceRead, TLC

CONSTANTS orders, refunds, rates, db, api

Of(type) == [type |-> type, nullable |-> FALSE, required |-> TRUE]
Contract == [id |-> Of("integer")]
Drifted == [id |-> Of("string")]
NoRows == <<>>

MCReaders == {orders, refunds, rates}
MCRefs == {db, api}
MCRefOf == (orders :> db) @@ (refunds :> db) @@ (rates :> api)
MCDeclared == [r \in MCReaders |-> Contract]
MCOffered == [r \in MCReaders |-> IF r = refunds THEN {NoRows, Drifted} ELSE {Contract}]
MCMaxAttempts == [r \in MCReaders |-> IF r = refunds THEN 2 ELSE 1]
Strict == [default |-> "record", production |-> TRUE, overridden |-> FALSE]
MCPolicies == {Strict, [Strict EXCEPT !.production = FALSE]}
MCSizes == 0..2

\* A single reader.
OneReader == {refunds}
OneRefOf == refunds :> db
Twice == refunds :> 2
OnlyStrict == {Strict}
=============================================================================

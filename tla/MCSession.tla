------------------------------ MODULE MCSession ------------------------------
(* Instances of Session: openings and requests a client may use.             *)
EXTENDS Session, TLC

Message(t) == [type |-> t, of |-> <<>>]
With(t, s) == [type |-> t, of |-> s]

Good == <<Message("Startup"), With("Password", <<"good">>)>>

SomeOpenings ==
  { <<Message("SSLRequest")>> \o Good,
    <<Message("Startup"), With("Password", <<"bad">>)>>,
    <<Message("Startup"), Message("Query")>> }

Queries ==
  { <<With("Query", <<>>)>>, <<With("Query", <<"system", "failing", "tag">>)>>,
    <<With("Query", <<"setPath", "rows">>)>> }

Pipeline(k) ==
  <<With("Parse", <<k>>), Message("Bind"), Message("Describe"), Message("Execute"),
    Message("Sync")>>

\* Requests that neither fail in Execute nor ask SELECT 1 by simple query.
QuietRequests ==
  Queries \cup { Pipeline("selectOne"), Pipeline("system"),
    <<Message("Parse"), Message("Flush"), Message("Execute"), Message("Sync")>>,
    <<Message("Unknown")>>, <<Message("Terminate")>> }

ASSUME QuietAssumption == Orderly
=============================================================================

---------------------------- MODULE MCRetryLoop ----------------------------
(* Instances of RetryLoop for TLC. *)
EXTENDS RetryLoop

E(v, code, hint) == [variant |-> v, status |-> code, retry_after |-> hint]

Http == {E("HttpResponseError", s, NoHint) : s \in {302, 401, 404, 429, 502}}
Upstream == {E("UpstreamProviderError", s, h) : s \in {429, 500, 502, 529}, h \in {3}}
Plain == {E(v, 0, NoHint) : v \in
            {"ServerOverloaded", "ApiInternalServerError", "SerializeRequest",
             "AuthenticationError", "Other"}}

EveryError == Http \cup Upstream \cup Plain
EveryPlan == [cloud : BOOLEAN, plan : {"none", "V1", "V2"}, burn : BOOLEAN]
=============================================================================

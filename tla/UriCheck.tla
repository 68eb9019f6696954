------------------------------ MODULE UriCheck ------------------------------
(* A resource is registered under a text, and what valid_resource_uri says of *)
(* the text is held against RFC 3986.                                          *)
EXTENDS ResourceUri

CONSTANT Uris  \* what a resource may be called

ASSUME UrisAssumption == Uris \subseteq Seq(Characters)

VARIABLES uri,
          verdicts  \* once it is over: the answer

uriVars == <<uri, verdicts>>

UriInit == uri \in Uris /\ verdicts = {}

Validate == /\ verdicts = {}
            /\ verdicts' = {Valid(uri)}
            /\ UNCHANGED uri

UriSpec == UriInit /\ [][Validate]_uriVars

(* server.hpp:209: valid_resource_uri accepts the absolute URIs of RFC 3986 and *)
(* nothing else, whatever delimiters the parts of a URI may contain.             *)
UriIsRfc3986 == \A accepted \in verdicts : accepted <=> Rfc3986(uri)
=============================================================================

------------------------------ MODULE MCInternal ------------------------------
(***************************************************************************)
(* Two requests at a time and a suite with a case of each sort that        *)
(* tests/*.test.json has, and of one sort more.                            *)
(***************************************************************************)
EXTENDS AccountInternal

CONSTANTS c1, c2

MCRequest(route, body, token, mark) ==
  [route |-> route, body |-> body, token |-> token, mark |-> mark]

MCRequests ==
  {MCRequest("selftest", "malformed", "", TRUE),
   MCRequest("selftest", "malformed", "", FALSE),
   MCRequest("trigger", "known", "", TRUE),
   MCRequest("trigger", "unknown", "", TRUE),
   MCRequest("trigger", "malformed", "", TRUE),
   MCRequest("method", "known", "", TRUE)}

MCCase(kind, request, answer) ==
  [kind |-> kind, request |-> request, expect |-> {answer}, fragile |-> FALSE]

\* tests/delete, method-call (2), scheduled-trigger (2), internal-selftest (2)
\* and hello; and a case as somebody may add it, with a blank in its query.
MCSuite ==
  <<MCCase("http", MCRequest("business", "known", "", FALSE), "ok"),
    MCCase("http", MCRequest("method", "known", "internal", FALSE), "ok"),
    MCCase("http", MCRequest("method", "unknown", "internal", FALSE), "error"),
    MCCase("sse", MCRequest("trigger", "known", "internal", FALSE), "stream"),
    MCCase("http", MCRequest("trigger", "known", "", FALSE), "unauthorized"),
    MCCase("http", MCRequest("selftest", "malformed", "", FALSE),
           "unauthorized"),
    MCCase("http", MCRequest("selftest", "malformed", "invalid", FALSE),
           "unauthorized"),
    MCCase("http", MCRequest("unrouted", "known", "", FALSE), "bad"),
    [MCCase("http", MCRequest("business", "known", "", FALSE), "ok")
       EXCEPT !.fragile = TRUE]>>
=============================================================================

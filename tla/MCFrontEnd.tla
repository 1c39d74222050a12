----------------------------- MODULE MCFrontEnd -----------------------------
(* Instances of FrontEnd for TLC. *)
EXTENDS FrontEnd, TLC

CONSTANTS r1, r2, c1, c2, proxy, own, foreign, none

Plain(c) == [path |-> "/", method |-> "GET", client |-> c, creds |-> "right",
             origin |-> none, upgrade |-> FALSE, body |-> {}, query |-> "ok",
             xff |-> << >>]

(* Requests of client c that differ from Plain in what one check looks at. *)
Variants(c) ==
  LET p == Plain(c) IN
    {[p EXCEPT !.path = path] : path \in Paths}
    \cup {[p EXCEPT !.method = m] : m \in Methods}
    \cup {[p EXCEPT !.creds = cr, !.method = m] : cr \in {"none", "wrong"}, m \in {"POST", "DELETE"}}
    \cup {[p EXCEPT !.method = "POST", !.body = {d}] : d \in Defects}
    \cup {[p EXCEPT !.method = "DELETE", !.query = q] : q \in Queries}
    \cup {[p EXCEPT !.xff = <<a>>] : a \in Clients}
    \cup {[p EXCEPT !.path = "/ws", !.upgrade = TRUE, !.origin = o] : o \in {own, foreign, none}}

EveryVariant == UNION {Variants(c) : c \in Clients}

(* The proxy's header is trusted; there is none, and it is not. *)
Behind(header, creds) == [credsSet |-> creds, InsecureNoAuth |-> FALSE,
                          TrustProxyHeaders |-> header # "none", proxy |-> header]

EveryConfig ==
  {Behind(x, TRUE) : x \in {"none", "overwrite", "append", "real-ip"}}
  \cup {Behind("overwrite", FALSE), [Behind("none", FALSE) EXCEPT !.InsecureNoAuth = TRUE]}

SymRequests == Permutations(Requests)
=============================================================================

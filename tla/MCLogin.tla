------------------------------- MODULE MCLogin -------------------------------
(* Instances of Login for TLC.                                             *)
EXTENDS Login

Url(scheme, host, path) == [scheme |-> scheme, host |-> host, path |-> path]
Hosts == {"op", "other", "intranet", "10.0.0.1", ""}
Kinds == [h \in Hosts |-> CASE h \in {"op", "other"} -> "public"
                            [] h = "intranet" -> "local"
                            [] h = "10.0.0.1" -> "ip"
                            [] h = "" -> "none"]

\* Two issuers that share a well-known URL, one with a query, one that is local.
Issuer(name, url, slash, extra) == [name |-> name, url |-> url, slash |-> slash, extra |-> extra]
Op == Issuer("https://op", Url("https", "op", "root"), FALSE, FALSE)
OpSlash == Issuer("https://op/", Url("https", "op", "root"), TRUE, FALSE)
SomeIssuers == {Op, OpSlash, Issuer("https://op?q", Url("https", "op", "root"), FALSE, TRUE),
                Issuer("http://op", Url("http", "op", "root"), FALSE, FALSE),
                Issuer("https://intranet", Url("https", "intranet", "root"), FALSE, FALSE)}

WellKnown == Url("https", "op", "well-known")
Moved == Url("https", "other", "well-known")
Redirect(u) == [kind |-> "redirect", to |-> u]
Document(issuer, uri) == [kind |-> "document", issuer |-> issuer, uri |-> uri]
Jwks(owner) == [kind |-> "jwks", owner |-> owner]
Uris == {Url("https", "op", "keys"), Url("http", "op", "keys"), Url("https", "intranet", "keys"),
         Url("https", "", "")}
Targets == {WellKnown, Moved, Url("http", "op", "well-known"), Url("https", "10.0.0.1", "keys")}
Bad == [kind |-> "garbage"]

SomeWebs ==
  {[u \in {WellKnown, Moved, Url("https", "op", "keys")} |->
      IF u = WellKnown THEN w ELSE IF u = Moved THEN m ELSE k] :
     w \in {Redirect(t) : t \in Targets} \cup {Document(i, u) : i \in {Op, OpSlash}, u \in Uris}
             \cup {Bad},
     m \in {Redirect(WellKnown), Document(Op, Url("https", "op", "keys"))},
     k \in {Jwks("op"), Bad, Redirect(Url("https", "intranet", "keys"))}}

Directive(name, valid, secs) == [name |-> name, valid |-> valid, secs |-> secs]
SomeDirectives == {Directive("no-cache", TRUE, 0), Directive("no-store", TRUE, 0),
                   Directive("max-age", TRUE, 1), Directive("max-age", TRUE, 3),
                   Directive("max-age", TRUE, 9), Directive("max-age", FALSE, 9),
                   Directive("public", TRUE, 0)}
SomeCacheHeaders == UNION {[1..n -> SomeDirectives] : n \in 0..2}

Ctx(nonce, required) ==
  [client |-> "us", trusted |-> {"partner"}, nonce |-> nonce, requireNonce |-> required,
   access |-> "at", code |-> "", alg |-> "ES256"]
SomeContext == [s \in Sessions |-> IF s = "s1" THEN Ctx("n1", TRUE) ELSE Ctx("n2", TRUE)]

PlainClaims == [iss |-> "https://op", sub |-> "user", aud |-> <<"us">>, azp |-> "", nonce |-> "n1",
                exp |-> TRUE, iat |-> TRUE, at_hash |-> NoHash, c_hash |-> NoHash, amr |-> <<>>]
SomeIDTokens ==
  {[signer |-> "op", claims |-> c] :
     c \in {PlainClaims, [PlainClaims EXCEPT !.nonce = ""],
            [PlainClaims EXCEPT !.nonce = "n2", !.iss = "https://op/"],
            [PlainClaims EXCEPT !.at_hash = [hash |-> 256, of |-> "at"]],
            [PlainClaims EXCEPT !.at_hash = [hash |-> 256, of |-> "swapped"]],
            [PlainClaims EXCEPT !.c_hash = [hash |-> 256, of |-> "code"]],
            [PlainClaims EXCEPT !.at_hash = Broken],
            [PlainClaims EXCEPT !.aud = <<"us", "partner">>, !.azp = "us"],
            [PlainClaims EXCEPT !.aud = <<"us", "partner">>],
            [PlainClaims EXCEPT !.aud = <<"us", "them">>, !.azp = "us"],
            [PlainClaims EXCEPT !.aud = <<"us", "partner">>, !.azp = "partner"],
            [PlainClaims EXCEPT !.aud = <<"them">>], [PlainClaims EXCEPT !.exp = FALSE],
            [PlainClaims EXCEPT !.sub = "::"]}}
    \cup {[signer |-> "them", claims |-> PlainClaims]}
=============================================================================

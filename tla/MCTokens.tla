-------------------------------- MODULE MCTokens --------------------------------
(***************************************************************************)
(* Instances of Tokens for TLC: a correct order, server and request, and   *)
(* everything that differs from it in one or two places.                   *)
(***************************************************************************)
EXTENDS Tokens, TLC

App(name, spelling) == [name |-> name, spelling |-> spelling]

Plain ==
    [notBefore |-> Absent, notAfter |-> Absent, issuer |-> Nothing, audience |-> Nothing,
     applications |-> {App("app", "plain")}, addresses |-> {}, vmid |-> "vm",
     sign |-> "c1", encrypt |-> Nothing]

SomeOrders ==
    UNION {{Plain, [Plain EXCEPT !.vmid = Nothing], [Plain EXCEPT !.sign = Nothing]},
           {[Plain EXCEPT !.applications = apps, !.addresses = addresses] :
              apps \in {{}, {App("app", "upper"), App("other", "padded")}},
              addresses \in {{"near"}, {"far"}, {"near", BadAddress}}},
           {[Plain EXCEPT !.notBefore = from, !.notAfter = to] :
              from \in {2, Unparsable}, to \in {1, 3, Unparsable}},
           {[Plain EXCEPT !.audience = audience, !.issuer = issuer] :
              audience \in {Nothing, "elsewhere"}, issuer \in {Nothing, "elsewhere"}},
           {[Plain EXCEPT !.sign = sign, !.encrypt = "c2"] :
              sign \in {Nothing, "c1", "keyless", "unknown"}},
           {[Plain EXCEPT !.sign = sign, !.encrypt = encrypt] :
              sign \in {"c1", "unknown"}, encrypt \in {"c1", "keyless", "unknown"}}}

ForeignClaims ==
    [iss |-> DefaultIssuer, aud |-> {DefaultAudience}, nbf |-> 0, exp |-> 4, iat |-> 0,
     vmid |-> Nothing, id |-> "foreign", app |-> {App("app", "plain")}, ip |-> {"near"}]

SomeForeignTokens ==
    {Token(claims, "c1", Nothing) :
        claims \in {[ForeignClaims EXCEPT !.nbf = 2],
                    [ForeignClaims EXCEPT !.ip = {"near", BadAddress}],
                    [ForeignClaims EXCEPT !.aud = {DefaultAudience, "elsewhere"}, !.app = {}],
                    [ForeignClaims EXCEPT !.iat = Absent, !.id = Nothing],
                    [ForeignClaims EXCEPT !.exp = Absent],
                    [ForeignClaims EXCEPT !.nbf = 5]}}

SomeServers ==
    {[sign |-> "c1", encrypt |-> "c2", audience |-> DefaultAudience, issuer |-> DefaultIssuer],
     [sign |-> "keyless", encrypt |-> "keyless", audience |-> DefaultAudience,
      issuer |-> DefaultIssuer],
     [sign |-> "c1", encrypt |-> Nothing, audience |-> "elsewhere", issuer |-> "elsewhere"]}

SomeBodies ==
    {[application |-> App("app", spelling)] : spelling \in {"plain", "upper", "padded"}}
    \cup {[application |-> App("other", "plain")], [application |-> App(Nothing, "plain")]}
=============================================================================

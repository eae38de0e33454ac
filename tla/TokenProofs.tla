------------------------------- MODULE TokenProofs -------------------------------
(***************************************************************************)
(* What is proved of Tokens, for all orders, tokens, servers and requests. *)
(***************************************************************************)
EXTENDS Tokens, FiniteSetTheorems, TLAPS

-----------------------------------------------------------------------------
(* What a query yields.                                                    *)

\* The closed form of a query is what the Joins of ResultExtensions compute one
\* after the other, whatever the clauses are and however many.
THEOREM QueryIsJoin ==
    ASSUME NEW Values, NEW Texts, NEW Names,
           NEW results \in [Names -> ResultsOf(Values, Texts)],
           NEW name, name \notin Names,
           NEW result \in ResultsOf(Values, Texts)
    PROVE  Joined(results, name, result) = Query(AddField(results, name, result))
<1> DEFINE all == AddField(results, name, result)
<1>1. /\ DOMAIN results = Names
      /\ DOMAIN all = Names \cup {name}
      /\ all[name] = result
      /\ \A n \in Names : all[n] = results[n]
      /\ \A n \in Names : results[n].isOk \in BOOLEAN
      /\ result.isOk \in BOOLEAN
    BY DEF AddField, ResultsOf
<1> HIDE DEF all
<1>2. CASE result.isOk /\ \A n \in Names : results[n].isOk
  <2> DEFINE values == [n \in Names |-> results[n].value]
  <2>1. Query(results) = Ok(values)
      BY <1>1, <1>2 DEF Query
  <2>2. Query(all) = Ok([n \in Names \cup {name} |-> all[n].value])
      BY <1>1, <1>2 DEF Query
  <2>3. AddField(values, name, result.value) = [n \in Names \cup {name} |-> all[n].value]
      BY <1>1 DEF AddField
  <2>4. Joined(results, name, result) = Ok(AddField(values, name, result.value))
    <3> HIDE DEF values
    <3> QED BY <2>1, <1>2 DEF Joined, With, OnOk, Ok
  <2> QED BY <2>2, <2>3, <2>4 DEF all
<1>3. CASE ~(result.isOk /\ \A n \in Names : results[n].isOk)
  <2> DEFINE errors == UNION {ErrorsOf(all[n]) : n \in Names \cup {name}}
             first == UNION {ErrorsOf(results[n]) : n \in Names}
  <2>1. Query(all) = Error(errors)
      BY <1>1, <1>3 DEF Query
  <2>2. errors = first \cup ErrorsOf(result)
      BY <1>1
  <2>3. ErrorsOf(Query(results)) = first /\ Query(results).isOk = (\A n \in Names : results[n].isOk)
    <3>1. CASE \A n \in Names : results[n].isOk
      <4>1. first = {}
          BY <3>1 DEF ErrorsOf
      <4>2. Query(results) = Ok([n \in Names |-> results[n].value])
          BY <3>1, <1>1 DEF Query
      <4> HIDE DEF first
      <4> QED BY <3>1, <4>1, <4>2 DEF Ok, ErrorsOf
    <3>2. CASE ~\A n \in Names : results[n].isOk
      <4>1. Query(results) = Error(first)
          BY <3>2, <1>1 DEF Query
      <4> HIDE DEF first
      <4> QED BY <3>2, <4>1 DEF Error, ErrorsOf
    <3> QED BY <3>1, <3>2
  <2>4. Joined(results, name, result) = Error(first \cup ErrorsOf(result))
    <3> HIDE DEF first
    <3> QED BY <2>3, <1>3 DEF Joined, With, OnOk, Error
  <2> QED BY <2>1, <2>2, <2>4 DEF all
<1> QED BY <1>2, <1>3

\* A query that succeeds has found every clause to be a value, and yields these.
LEMMA QueryOk ==
    ASSUME NEW results, Query(results).isOk
    PROVE  /\ \A name \in DOMAIN results : results[name].isOk
           /\ Query(results).value = [name \in DOMAIN results |-> results[name].value]
<1>1. CASE \A name \in DOMAIN results : results[name].isOk
    BY <1>1 DEF Query, Ok
<1>2. CASE ~\A name \in DOMAIN results : results[name].isOk
    BY <1>2 DEF Query, Error
<1> QED BY <1>1, <1>2

\* An operation that follows a result can only succeed when the result has a value.
LEMMA ReduceOk ==
    ASSUME NEW results, Reduce(results).isOk
    PROVE  \A result \in results : result.isOk
BY DEF Reduce, Error

\* The properties that Build returns are the values of the provider, the
\* applications apart.
LEMMA BuildOk ==
    ASSUME NEW provider, Build(provider).isOk
    PROVE  /\ Query(provider).isOk
           /\ \A name \in DOMAIN provider :
                 name # "applications" => Build(provider).value[name] = provider[name].value
<1>1. Query(provider).isOk
    BY DEF Build, OnOk
<1>2. Query(provider).value = [name \in DOMAIN provider |-> provider[name].value]
    BY <1>1, QueryOk
<1> DEFINE props == Query(provider).value
<1>3. Build(provider) = WithTrimmedApplications(props)
    BY <1>1 DEF Build, OnOk
<1>4. Build(provider).value = [props EXCEPT !.applications = {Trimmed(app) : app \in @}]
    BY <1>3 DEF WithTrimmedApplications, Ok
<1> QED BY <1>1, <1>2, <1>4

-----------------------------------------------------------------------------
(* An expired token stays refused.                                         *)

\* A token that is generated has a time of expiry.
LEMMA GeneratedExpires ==
    ASSUME NEW order \in Orders, NEW id, now \in Int, Execute(order, id).isOk
    PROVE  Execute(order, id).value.claims.exp \in Int
<1> DEFINE provider == CommandLineProvider(order, id)
           clauses == [props |-> Build(provider),
                       signing |-> FindCertificate("signing", order.sign),
                       encryption |-> FindCertificate("encryption", order.encrypt)]
           values == Query(clauses).value
<1>1. /\ Query(clauses).isOk
      /\ Execute(order, id).value = Token(Claims(values.props), values.signing, values.encryption)
    BY DEF Execute, OnOk, Ok, Error
<1>2. Build(provider).isOk /\ values["props"] = Build(provider).value
  <2>1. DOMAIN clauses = {"props", "signing", "encryption"}
      OBVIOUS
  <2>2. clauses["props"] = Build(provider)
      OBVIOUS
  <2> HIDE DEF clauses, provider
  <2>3. values = [name \in DOMAIN clauses |-> clauses[name].value]
      BY <1>1, QueryOk
  <2>4. clauses["props"].isOk
      BY <1>1, <2>1, QueryOk
  <2>5. values["props"] = clauses["props"].value
      BY <2>1, <2>3
  <2> QED BY <2>2, <2>4, <2>5, Zenon
<1>3. Execute(order, id).value.claims.exp = Build(provider).value.notAfter
    BY <1>1, <1>2 DEF Token, Claims
<1>4. /\ "notAfter" \in DOMAIN provider
      /\ provider["notAfter"] = Timestamp(order.notAfter, now + SevenDays, "NotAfter")
    BY DEF CommandLineProvider
<1> HIDE DEF provider
<1>5. /\ provider["notAfter"].isOk
      /\ Build(provider).value["notAfter"] = provider["notAfter"].value
    BY <1>2, <1>4, BuildOk, QueryOk
<1>6. order.notAfter \in Int /\ now + SevenDays \in Int
    BY TimesAssumption
<1>7. provider["notAfter"].value \in Int
  <2> DEFINE given == order.notAfter
             default == now + SevenDays
  <2>1. Timestamp(given, default, "NotAfter").isOk
      BY <1>4, <1>5
  <2>2. Timestamp(given, default, "NotAfter").value \in Int
    <3> HIDE DEF given, default
    <3>1. given \in Int /\ default \in Int
        BY <1>6 DEF given, default
    <3> QED BY <2>1, <3>1 DEF Timestamp, Ok, Error
  <2> QED BY <1>4, <2>2
<1> QED BY <1>3, <1>5, <1>7

\* Every token expires at some time, and that of a lapsed token has passed.
ExpiryInv ==
    /\ now \in Int
    /\ \A item \in generated : item.token.claims.exp \in Int
    /\ \A token \in lapsed : token.claims.exp \in Int /\ HasExpired(token)

\* What can be wrong with the claims of a token is not called "expired".
LEMMA ClaimErrors ==
    ASSUME NEW claims
    PROVE  "expired" \notin ErrorsOf(BuildFromClaims(claims))
<1> DEFINE provider == JwtProvider(claims)
<1>1. \A text \in claims.ip : "expired" \notin ErrorsOf(ParseIpAddress(text))
    BY DEF ParseIpAddress, ErrorsOf, Error, Ok, BadAddress
<1>2. "expired" \notin ErrorsOf(Reduce({ParseIpAddress(text) : text \in claims.ip}))
    BY <1>1 DEF Reduce, ErrorsOf, Ok, Error
<1>3. \A name \in DOMAIN provider : "expired" \notin ErrorsOf(provider[name])
  <2>1. DOMAIN provider =
          {"notBefore", "notAfter", "issuedAt", "issuer", "audience", "applications",
           "addresses", "vmid", "tokenId"}
      BY DEF JwtProvider
  <2>2. "expired" \notin ErrorsOf(provider["addresses"])
      BY <1>2 DEF JwtProvider
  <2>3. /\ "expired" \notin ErrorsOf(provider["audience"])
        /\ "expired" \notin ErrorsOf(provider["applications"])
      BY DEF JwtProvider, ErrorsOf, Ok, Error
  <2>4. /\ "expired" \notin ErrorsOf(provider["issuedAt"])
        /\ "expired" \notin ErrorsOf(provider["tokenId"])
      BY DEF JwtProvider, ErrorsOf, Ok, Error
  <2>5. /\ "expired" \notin ErrorsOf(provider["notBefore"])
        /\ "expired" \notin ErrorsOf(provider["notAfter"])
        /\ "expired" \notin ErrorsOf(provider["issuer"])
        /\ "expired" \notin ErrorsOf(provider["vmid"])
      BY DEF JwtProvider, ErrorsOf, Ok
  <2> HIDE DEF provider
  <2> QED BY <2>1, <2>2, <2>3, <2>4, <2>5
<1> HIDE DEF provider
<1>4. "expired" \notin ErrorsOf(Query(provider))
    BY <1>3 DEF Query, ErrorsOf, Ok, Error
<1>5. BuildFromClaims(claims) = Build(provider)
    BY DEF BuildFromClaims, provider
<1>6. CASE Query(provider).isOk
    BY <1>5, <1>6 DEF Build, OnOk, WithTrimmedApplications, ErrorsOf, Ok
<1>7. CASE ~Query(provider).isOk
    BY <1>4, <1>5, <1>7 DEF Build, OnOk
<1> QED BY <1>6, <1>7

\* Only the lifetime of a token makes "expired" the answer.
LEMMA ExpiredAnswer ==
    ASSUME NEW request, NEW token,
           Respond(request, token).status = 403,
           Respond(request, token).errors = {"expired"}
    PROVE  HasExpired(token)
<1>1. ~Verify(request, token).isOk /\ Verify(request, token).errors = {"expired"}
    BY DEF Respond
<1>2. ~Parse(token).isOk /\ Parse(token).errors = {"expired"}
    BY <1>1 DEF Verify, OnOk, Ok, Error
<1>3. CASE ExtractJwt(token).isOk
  <2>1. "expired" \notin ErrorsOf(Parse(token))
      BY <1>3, ClaimErrors DEF Parse, OnOk
  <2> QED BY <1>2, <2>1 DEF ErrorsOf
<1>4. CASE ~ExtractJwt(token).isOk
  <2>1. ExtractJwt(token).errors = {"expired"}
      BY <1>2, <1>4 DEF Parse, OnOk
  <2> SUFFICES ASSUME ~HasExpired(token) PROVE FALSE
      OBVIOUS
  <2>2. \E e : e # "expired" /\ ExtractJwt(token) = Error({e})
    <3>1. \/ ExtractJwt(token) = Error({"decryption"}) \/ ExtractJwt(token) = Error({"signature"})
          \/ ExtractJwt(token) = Error({"no expiration"}) \/ ExtractJwt(token) = Error({"lifetime"})
          \/ ExtractJwt(token) = Error({TokenNotYetValidError})
          \/ ExtractJwt(token) = Error({"audience"}) \/ ExtractJwt(token) = Error({"issuer"})
          \/ ExtractJwt(token) = Ok(token.claims)
      BY DEF ExtractJwt
    <3>2. ExtractJwt(token) # Ok(token.claims)
      BY <1>4 DEF Ok
    <3> QED BY <3>1, <3>2 DEF TokenNotYetValidError
  <2>3. PICK e : e # "expired" /\ ExtractJwt(token).errors = {e}
      BY <2>2 DEF Error
  <2> QED BY <2>1, <2>3
<1> QED BY <1>3, <1>4

\* An answer of 200 means that the token was decoded and built, and grants the request.
LEMMA ApprovedAnswer ==
    ASSUME NEW request, NEW token, Respond(request, token).status = 200
    PROVE  /\ ExtractJwt(token) = Ok(token.claims)
           /\ BuildFromClaims(token.claims).isOk
<1>1. Verify(request, token).isOk
    BY DEF Respond
<1>2. Parse(token).isOk
    BY <1>1 DEF Verify, OnOk
<1>3. ExtractJwt(token).isOk
    BY <1>2 DEF Parse, OnOk
<1>4. ExtractJwt(token) = Ok(token.claims)
    BY <1>3 DEF ExtractJwt, Error
<1>5. Parse(token) = BuildFromClaims(token.claims)
    BY <1>4 DEF Parse, OnOk, Ok
<1> QED BY <1>2, <1>4, <1>5

-----------------------------------------------------------------------------

LEMMA ExpiryInvInit == Init => ExpiryInv
BY DEF Init, ExpiryInv

LEMMA ExpiryInvStep == ExpiryInv /\ [Next]_vars => ExpiryInv'
<1> SUFFICES ASSUME ExpiryInv, [Next]_vars PROVE ExpiryInv'
    OBVIOUS
<1> USE DEF ExpiryInv
<1>1. CASE Tick
  <2>1. now \in Int /\ now' = now + 1 /\ generated' = generated /\ lapsed' = lapsed
      BY <1>1 DEF Tick
  <2>2. \A token \in lapsed : HasExpired(token)'
      BY <2>1, TimesAssumption DEF HasExpired
  <2> QED BY <2>1, <2>2
<1>2. ASSUME NEW order \in Orders, Generate(order) PROVE ExpiryInv'
  <2> DEFINE result == Execute(order, TokenId(Cardinality(generated)))
  <2>1. /\ now' = now /\ lapsed' = lapsed
        /\ \A token : HasExpired(token)' = HasExpired(token)
      BY <1>2 DEF Generate, HasExpired
  <2>2. CASE result.isOk
    <3>1. result.value.claims.exp \in Int
        BY <2>2, GeneratedExpires
    <3>2. generated' = generated \cup {[token |-> result.value, order |-> order, at |-> now]}
        BY <1>2, <2>2 DEF Generate
    <3> HIDE DEF result
    <3> QED BY <2>1, <3>1, <3>2
  <2>3. CASE ~result.isOk
    <3>1. generated' = generated
        BY <1>2, <2>3 DEF Generate
    <3> QED BY <2>1, <3>1
  <2> QED BY <2>2, <2>3
<1>3. ASSUME NEW item \in Items, NEW body \in Bodies, NEW address \in RemoteAddresses,
             Approve(item, body, address)
      PROVE  ExpiryInv'
  <2> DEFINE request == [application |-> body.application, address |-> address]
  <2>1. /\ now' = now /\ generated' = generated
        /\ \A token : HasExpired(token)' = HasExpired(token)
      BY <1>3 DEF Approve, HasExpired
  <2>2. item.token.claims.exp \in Int
      BY TimesAssumption DEF Items
  <2>3. lapsed' = lapsed \/ (lapsed' = lapsed \cup {item.token} /\ HasExpired(item.token))
      BY <1>3, ExpiredAnswer DEF Approve, TokenExpiredError
  <2> QED BY <2>1, <2>2, <2>3
<1>4. CASE UNCHANGED vars
    BY <1>4 DEF vars, HasExpired
<1> QED BY <1>1, <1>2, <1>3, <1>4 DEF Next

\* "Once the token has expired, further verification requests will be declined": the
\* server, whose clock does not go back, never approves a token it has found expired.
THEOREM ExpiryIsFinal == Spec => LapsedStaysRefused
<1>1. ExpiryInv /\ [Next]_vars =>
        [outcome' # outcome /\ outcome'.op = "approve" /\ outcome'.response.status = 200 =>
            outcome'.item.token \notin lapsed]_vars
  <2> SUFFICES ASSUME ExpiryInv, Next, outcome' # outcome, outcome'.op = "approve",
                      outcome'.response.status = 200
               PROVE  outcome'.item.token \notin lapsed
      OBVIOUS
  <2>1. PICK item \in Items, body \in Bodies, address \in RemoteAddresses :
               Approve(item, body, address)
      BY DEF Next, Tick, Generate
  <2> DEFINE request == [application |-> body.application, address |-> address]
  <2>2. Respond(request, item.token).status = 200 /\ outcome'.item = item
      BY <2>1 DEF Approve
  <2>3. ExtractJwt(item.token).isOk
      BY <2>2, ApprovedAnswer DEF Ok
  <2>4. ~HasExpired(item.token)
      BY <2>3 DEF ExtractJwt, Error
  <2> QED BY <2>2, <2>4 DEF ExpiryInv
<1> QED BY <1>1, ExpiryInvInit, ExpiryInvStep, PTL DEF Spec, LapsedStaysRefused

-----------------------------------------------------------------------------
(* What an approval requires.                                              *)

\* A token whose claims were built has an issue time, an identifier, one audience and
\* addresses that can be parsed.
LEMMA BuiltIsComplete ==
    ASSUME NEW claims, BuildFromClaims(claims).isOk
    PROVE  /\ claims.iat # Absent /\ claims.id # Nothing
           /\ \E a \in claims.aud : claims.aud = {a}
           /\ BadAddress \notin claims.ip
<1> DEFINE provider == JwtProvider(claims)
<1>1. Query(provider).isOk
    BY BuildOk DEF BuildFromClaims
<1>2. {"issuedAt", "audience", "addresses", "tokenId"} \subseteq DOMAIN provider
    BY DEF JwtProvider
<1>3. /\ provider["issuedAt"].isOk /\ provider["audience"].isOk
      /\ provider["addresses"].isOk /\ provider["tokenId"].isOk
  <2> HIDE DEF provider
  <2> QED BY <1>1, <1>2, QueryOk
<1>4. claims.iat # Absent
    BY <1>3 DEF JwtProvider, Error
<1>5. claims.id # Nothing
    BY <1>3 DEF JwtProvider, Error
<1>6. \E a \in claims.aud : claims.aud = {a}
    BY <1>3 DEF JwtProvider, Error
<1>7. \A text \in claims.ip : ParseIpAddress(text).isOk
  <2>1. Reduce({ParseIpAddress(text) : text \in claims.ip}).isOk
      BY <1>3 DEF JwtProvider
  <2> QED BY <2>1, ReduceOk
<1>8. BadAddress \notin claims.ip
    BY <1>7 DEF ParseIpAddress, Error
<1> QED BY <1>4, <1>5, <1>6, <1>8

\* Whoever generated a token, and with whatever claims: when a request with it is
\* approved, it has all the claims and they are the ones the server asks for.
THEOREM ApprovalsAreComplete == Spec => []ApprovedIsComplete
<1>1. Init => ApprovedIsComplete
    BY DEF Init, ApprovedIsComplete
<1>2. ApprovedIsComplete /\ [Next]_vars => ApprovedIsComplete'
  <2> SUFFICES ASSUME ApprovedIsComplete, [Next]_vars PROVE ApprovedIsComplete'
      OBVIOUS
  <2>1. CASE Tick \/ UNCHANGED vars
      BY <2>1 DEF Tick, vars, ApprovedIsComplete
  <2>2. ASSUME NEW order \in Orders, Generate(order) PROVE ApprovedIsComplete'
      BY <2>2 DEF Generate, ApprovedIsComplete
  <2>3. ASSUME NEW item \in Items, NEW body \in Bodies, NEW address \in RemoteAddresses,
               Approve(item, body, address)
        PROVE  ApprovedIsComplete'
    <3> DEFINE request == [application |-> body.application, address |-> address]
               claims == item.token.claims
    <3>1. /\ outcome'.item = item /\ server' = server
          /\ outcome'.response = Respond(request, item.token)
        BY <2>3 DEF Approve
    <3>2. SUFFICES ASSUME Respond(request, item.token).status = 200
                   PROVE  /\ claims.iat # Absent /\ claims.exp # Absent /\ claims.id # Nothing
                          /\ claims.aud = {server.audience} /\ claims.iss = server.issuer
                          /\ BadAddress \notin claims.ip
        BY <3>1 DEF ApprovedIsComplete
    <3>3. ExtractJwt(item.token).isOk /\ BuildFromClaims(claims).isOk
        BY <3>2, ApprovedAnswer DEF Ok
    <3>4. claims.exp # Absent /\ server.audience \in claims.aud /\ claims.iss = server.issuer
        BY <3>3 DEF ExtractJwt, Error
    <3> HIDE DEF claims
    <3> QED BY <3>3, <3>4, BuiltIsComplete
  <2> QED BY <2>1, <2>2, <2>3 DEF Next
<1> QED BY <1>1, <1>2, PTL DEF Spec

-----------------------------------------------------------------------------
(* What a failed generation reports.                                       *)

LEMMA Outcomes ==
    ASSUME NEW value, NEW errors
    PROVE  /\ Ok(value).isOk /\ Ok(value).value = value /\ ErrorsOf(Ok(value)) = {}
           /\ ~Error(errors).isOk /\ ErrorsOf(Error(errors)) = errors
BY DEF Ok, Error, ErrorsOf

\* A query has the errors of its clauses and no others.
LEMMA QueryErrors ==
    ASSUME NEW results
    PROVE  \A x : x \in ErrorsOf(Query(results)) <=>
                    \E name \in DOMAIN results : x \in ErrorsOf(results[name])
<1>1. CASE \A name \in DOMAIN results : results[name].isOk
  <2>1. ErrorsOf(Query(results)) = {}
      BY <1>1, Outcomes DEF Query
  <2>2. \A name \in DOMAIN results : ErrorsOf(results[name]) = {}
      BY <1>1 DEF ErrorsOf
  <2> QED BY <2>1, <2>2
<1>2. CASE ~\A name \in DOMAIN results : results[name].isOk
  <2>1. ErrorsOf(Query(results)) = UNION {ErrorsOf(results[name]) : name \in DOMAIN results}
      BY <1>2, Outcomes DEF Query
  <2> QED BY <2>1
<1> QED BY <1>1, <1>2

\* The only thing wrong with addresses is one that cannot be parsed.
LEMMA AddressErrors ==
    ASSUME NEW texts
    PROVE  \A x : x \in ErrorsOf(Reduce({ParseIpAddress(text) : text \in texts})) <=>
                    x = BadAddress /\ BadAddress \in texts
<1> DEFINE results == {ParseIpAddress(text) : text \in texts}
<1>1. \A text : /\ ParseIpAddress(text).isOk <=> text # BadAddress
                /\ \A x : x \in ErrorsOf(ParseIpAddress(text)) <=> x = BadAddress /\ text = BadAddress
    BY Outcomes DEF ParseIpAddress
<1>2. CASE BadAddress \in texts
  <2>1. ~\A result \in results : result.isOk
      BY <1>1, <1>2
  <2>2. ErrorsOf(Reduce(results)) = UNION {ErrorsOf(result) : result \in results}
      BY <2>1, Outcomes DEF Reduce
  <2>3. \A x : x \in UNION {ErrorsOf(result) : result \in results} <=>
                 \E text \in texts : x \in ErrorsOf(ParseIpAddress(text))
      OBVIOUS
  <2> QED BY <1>1, <1>2, <2>2, <2>3
<1>3. CASE BadAddress \notin texts
  <2>1. \A result \in results : result.isOk
      BY <1>1, <1>3
  <2>2. ErrorsOf(Reduce(results)) = {}
      BY <2>1, Outcomes DEF Reduce
  <2> QED BY <1>3, <2>2
<1> QED BY <1>2, <1>3

\* Building properties from a provider adds no error and loses none.
LEMMA BuildErrors ==
    ASSUME NEW provider
    PROVE  ErrorsOf(Build(provider)) = ErrorsOf(Query(provider))
<1>1. CASE Query(provider).isOk
    BY <1>1, Outcomes DEF Build, OnOk, WithTrimmedApplications, ErrorsOf
<1>2. CASE ~Query(provider).isOk
    BY <1>2 DEF Build, OnOk
<1> QED BY <1>1, <1>2

LEMMA PropertyErrors ==
    ASSUME NEW order, NEW id
    PROVE  \A x : x \in ErrorsOf(Build(CommandLineProvider(order, id))) <=>
                    Wrong(order, x) /\ x \notin {"signing", "encryption"}
<1> DEFINE provider == CommandLineProvider(order, id)
           E(name) == ErrorsOf(provider[name])
<1>1. DOMAIN provider =
        {"notBefore", "notAfter", "issuedAt", "issuer", "audience", "applications",
         "addresses", "vmid", "tokenId"}
    BY DEF CommandLineProvider
<1>2. /\ E("issuedAt") = {} /\ E("issuer") = {} /\ E("audience") = {}
      /\ E("vmid") = {} /\ E("tokenId") = {}
    BY DEF CommandLineProvider, ErrorsOf, Ok
<1>3. \A option, default, name, x :
         x \in ErrorsOf(Timestamp(option, default, name)) <=> x = name /\ option = Unparsable
    BY Outcomes DEF Timestamp, Absent, Unparsable
<1>4. /\ \A x : x \in E("notBefore") <=> x = "NotBefore" /\ order.notBefore = Unparsable
      /\ \A x : x \in E("notAfter") <=> x = "NotAfter" /\ order.notAfter = Unparsable
    BY <1>3 DEF CommandLineProvider
<1>5. \A x : x \in E("applications") <=> x = "no applications" /\ order.applications = {}
  <2>1. provider["applications"] = IF order.applications = {} THEN Error({"no applications"})
                                   ELSE Ok({Trimmed(app) : app \in order.applications})
      BY DEF CommandLineProvider
  <2> HIDE DEF provider
  <2>2. CASE order.applications = {}
    <3>1. provider["applications"] = Error({"no applications"})
        BY <2>1, <2>2
    <3>2. E("applications") = {"no applications"}
        BY <3>1, Outcomes
    <3> QED BY <2>2, <3>2
  <2>3. CASE order.applications # {}
    <3>1. \E value : provider["applications"] = Ok(value)
        BY <2>1, <2>3
    <3>2. E("applications") = {}
        BY <3>1, Outcomes
    <3> QED BY <2>3, <3>2
  <2> QED BY <2>2, <2>3
<1>6. \A x : x \in E("addresses") <=> x = BadAddress /\ BadAddress \in order.addresses
    BY Outcomes, AddressErrors DEF CommandLineProvider
<1>7. \A x : x \in ErrorsOf(Query(provider)) <=> \E name \in DOMAIN provider : x \in E(name)
  <2> HIDE DEF provider
  <2> QED BY QueryErrors
<1> HIDE DEF E
<1>8. \A x : x \in ErrorsOf(Query(provider)) <=>
                Wrong(order, x) /\ x \notin {"signing", "encryption"}
    BY <1>1, <1>2, <1>4, <1>5, <1>6, <1>7 DEF Wrong, BadAddress
<1> QED BY <1>8, BuildErrors

LEMMA OrderErrors ==
    ASSUME NEW order, NEW id
    PROVE  \/ ErrorsOf(Execute(order, id)) \subseteq {"exception"}
           \/ ErrorsOf(Execute(order, id)) = {fault \in Faults : Wrong(order, fault)}
<1> DEFINE clauses == [props |-> Build(CommandLineProvider(order, id)),
                       signing |-> FindCertificate("signing", order.sign),
                       encryption |-> FindCertificate("encryption", order.encrypt)]
<1>1. \A purpose, thumbprint, x :
         x \in ErrorsOf(FindCertificate(purpose, thumbprint)) <=>
             x = purpose /\ thumbprint \notin Certificates \cup {Nothing}
    BY Outcomes DEF FindCertificate
<1>2. /\ DOMAIN clauses = {"props", "signing", "encryption"}
      /\ clauses["props"] = Build(CommandLineProvider(order, id))
      /\ clauses["signing"] = FindCertificate("signing", order.sign)
      /\ clauses["encryption"] = FindCertificate("encryption", order.encrypt)
    OBVIOUS
<1>3. CASE Query(clauses).isOk
    BY <1>3, Outcomes DEF Execute, OnOk
<1>4. CASE ~Query(clauses).isOk
  <2>1. ErrorsOf(Execute(order, id)) = ErrorsOf(Query(clauses))
      BY <1>4 DEF Execute, OnOk
  <2> HIDE DEF clauses
  <2>2. \A x : x \in ErrorsOf(Query(clauses)) <=>
                  \/ x \in ErrorsOf(clauses["props"])
                  \/ x \in ErrorsOf(clauses["signing"])
                  \/ x \in ErrorsOf(clauses["encryption"])
      BY <1>2, QueryErrors
  <2>3. \A x : x \in ErrorsOf(clauses["props"]) <=>
                  Wrong(order, x) /\ x \notin {"signing", "encryption"}
      BY <1>2, PropertyErrors
  <2>4. \A x : /\ x \in ErrorsOf(clauses["signing"]) <=> Wrong(order, x) /\ x = "signing"
               /\ x \in ErrorsOf(clauses["encryption"]) <=> Wrong(order, x) /\ x = "encryption"
    <3>1. \A x : /\ Wrong(order, x) /\ x = "signing"
                     <=> x = "signing" /\ order.sign \notin Certificates \cup {Nothing}
                 /\ Wrong(order, x) /\ x = "encryption"
                     <=> x = "encryption" /\ order.encrypt \notin Certificates \cup {Nothing}
      BY DEF Wrong, BadAddress
    <3> QED BY <1>1, <1>2, <3>1
  <2>5. \A x : x \in ErrorsOf(Query(clauses)) <=> Wrong(order, x)
      BY <2>2, <2>3, <2>4
  <2>6. \A x : Wrong(order, x) => x \in Faults
      BY DEF Wrong, Faults
  <2> QED BY <2>1, <2>5, <2>6
<1> QED BY <1>3, <1>4

\* Whatever is wrong with an order, "sestest generate" reports all of it at once and
\* nothing else, or it throws: the joins of GenerateCommand and of
\* EntitlementTokenProperties.Build stop at no error.
THEOREM FaultsComeTogether == Spec => []EveryFaultReported
<1>1. Init => EveryFaultReported
    BY DEF Init, EveryFaultReported
<1>2. EveryFaultReported /\ [Next]_vars => EveryFaultReported'
  <2> SUFFICES ASSUME EveryFaultReported, [Next]_vars PROVE EveryFaultReported'
      OBVIOUS
  <2>1. CASE Tick \/ UNCHANGED vars
      BY <2>1 DEF Tick, vars, EveryFaultReported
  <2>2. ASSUME NEW order \in Orders, Generate(order) PROVE EveryFaultReported'
    <3> DEFINE result == Execute(order, TokenId(Cardinality(generated)))
    <3>1. outcome' = [op |-> "generate", order |-> order, errors |-> ErrorsOf(result)]
        BY <2>2 DEF Generate
    <3>2. \/ ErrorsOf(result) \subseteq {"exception"}
          \/ ErrorsOf(result) = {fault \in Faults : Wrong(order, fault)}
        BY OrderErrors
    <3> HIDE DEF result
    <3>3. outcome'.order = order /\ outcome'.errors = ErrorsOf(result)
        BY <3>1
    <3>4. CASE ErrorsOf(result) \subseteq {"exception"}
        BY <3>3, <3>4 DEF EveryFaultReported
    <3>5. CASE ErrorsOf(result) = {fault \in Faults : Wrong(order, fault)}
        BY <3>3, <3>5 DEF EveryFaultReported
    <3> QED BY <3>2, <3>4, <3>5
  <2>3. ASSUME NEW item \in Items, NEW body \in Bodies, NEW address \in RemoteAddresses,
               Approve(item, body, address)
        PROVE  EveryFaultReported'
      BY <2>3 DEF Approve, EveryFaultReported
  <2> QED BY <2>1, <2>2, <2>3 DEF Next
<1> QED BY <1>1, <1>2, PTL DEF Spec

-----------------------------------------------------------------------------
(* The two halves of Tokens agree: the server approves a request exactly   *)
(* when it fits the command line its token was generated from.             *)

\* What a token says of the order it was generated from.
AddressesOf(order) == IF order.addresses = {} THEN MachineAddresses ELSE order.addresses

CarriesOrder(item) ==
    LET claims == item.token.claims
        order == item.order
    IN  /\ order \in Orders /\ item.at \in Nat
        /\ item.token.signedBy = order.sign /\ item.token.encryptedFor = order.encrypt
        /\ order.sign \in PrivateKeys \cup {Nothing}
        /\ claims.iss = OrDefault(order.issuer, DefaultIssuer)
        /\ claims.aud = {OrDefault(order.audience, DefaultAudience)}
        /\ claims.nbf = ValidFrom(item) /\ claims.exp = ValidTo(item) /\ claims.nbf < claims.exp
        /\ claims.iat \in Nat /\ claims.vmid = order.vmid /\ claims.id # Nothing
        /\ order.applications # {}
        /\ claims.app = {Trimmed(app) : app \in {Trimmed(app) : app \in order.applications}}
        /\ BadAddress \notin AddressesOf(order) /\ claims.ip = AddressesOf(order)

VerdictInv ==
    /\ now \in Nat /\ IsFiniteSet(generated) /\ Cardinality(generated) <= MaxTokens
    /\ \A item \in generated : CarriesOrder(item)

-----------------------------------------------------------------------------
(* Results.                                                                *)

LEMMA QueryValue ==
    ASSUME NEW results, \A name \in DOMAIN results : results[name].isOk
    PROVE  Query(results) = Ok([name \in DOMAIN results |-> results[name].value])
BY DEF Query

LEMMA ReduceAddresses ==
    ASSUME NEW texts, BadAddress \notin texts
    PROVE  Reduce({ParseIpAddress(text) : text \in texts}) = Ok(texts)
<1> DEFINE results == {ParseIpAddress(text) : text \in texts}
<1>1. \A text \in texts : ParseIpAddress(text) = Ok(text)
    BY DEF ParseIpAddress
<1>2. \A result \in results : result.isOk
    BY <1>1, Outcomes
<1>3. {result.value : result \in results} = texts
    BY <1>1, Outcomes
<1> QED BY <1>2, <1>3 DEF Reduce

LEMMA BuildValue ==
    ASSUME NEW provider, \A name \in DOMAIN provider : provider[name].isOk,
           "applications" \in DOMAIN provider
    PROVE  /\ Build(provider).isOk
           /\ \A name \in DOMAIN provider :
                 name # "applications" => Build(provider).value[name] = provider[name].value
           /\ Build(provider).value["applications"] =
                 {Trimmed(app) : app \in provider["applications"].value}
<1> DEFINE props == [name \in DOMAIN provider |-> provider[name].value]
<1>1. Query(provider) = Ok(props)
    BY QueryValue
<1>2. Query(provider).isOk /\ Query(provider).value = props
    BY <1>1, Outcomes
<1>3. Build(provider) = WithTrimmedApplications(props)
    BY <1>2 DEF Build, OnOk
<1>4. Build(provider) = Ok([props EXCEPT !["applications"] = {Trimmed(app) : app \in @}])
    BY <1>3 DEF WithTrimmedApplications
<1>5. Build(provider).isOk
      /\ Build(provider).value = [props EXCEPT !["applications"] = {Trimmed(app) : app \in @}]
    BY <1>4, Outcomes
<1> QED BY <1>5

-----------------------------------------------------------------------------
(* Generation.                                                             *)

\* The properties that are built from an order.
LEMMA OrderedProperties ==
    ASSUME NEW order \in Orders, NEW id, now \in Nat, Build(CommandLineProvider(order, id)).isOk
    PROVE  LET props == Build(CommandLineProvider(order, id)).value
           IN  /\ props.issuer = OrDefault(order.issuer, DefaultIssuer)
               /\ props.audience = OrDefault(order.audience, DefaultAudience)
               /\ props.notBefore = IF order.notBefore = Absent THEN now ELSE order.notBefore
               /\ props.notAfter = IF order.notAfter = Absent THEN now + SevenDays ELSE order.notAfter
               /\ props.issuedAt = now /\ props.vmid = order.vmid /\ props.tokenId = id
               /\ order.applications # {}
               /\ props.applications =
                     {Trimmed(app) : app \in {Trimmed(app) : app \in order.applications}}
               /\ BadAddress \notin AddressesOf(order) /\ props.addresses = AddressesOf(order)
<1> DEFINE provider == CommandLineProvider(order, id)
           props == Build(provider).value
<1>1. DOMAIN provider =
        {"notBefore", "notAfter", "issuedAt", "issuer", "audience", "applications",
         "addresses", "vmid", "tokenId"}
    BY DEF CommandLineProvider
<1>2. \A name \in DOMAIN provider : provider[name].isOk
  <2> HIDE DEF provider
  <2>1. Query(provider).isOk
      BY BuildOk DEF provider
  <2> QED BY <2>1, QueryOk
<1>3. /\ \A name \in DOMAIN provider : name # "applications" => props[name] = provider[name].value
      /\ props["applications"] = {Trimmed(app) : app \in provider["applications"].value}
  <2> HIDE DEF provider
  <2> QED BY <1>1, <1>2, BuildValue
<1>4. /\ provider["issuer"] = Ok(OrDefault(order.issuer, DefaultIssuer))
      /\ provider["audience"] = Ok(OrDefault(order.audience, DefaultAudience))
      /\ provider["issuedAt"] = Ok(now) /\ provider["vmid"] = Ok(order.vmid)
      /\ provider["tokenId"] = Ok(id)
      /\ provider["notBefore"] = Timestamp(order.notBefore, now, "NotBefore")
      /\ provider["notAfter"] = Timestamp(order.notAfter, now + SevenDays, "NotAfter")
    BY DEF CommandLineProvider
<1>5. provider["applications"] = IF order.applications = {} THEN Error({"no applications"})
                                 ELSE Ok({Trimmed(app) : app \in order.applications})
    BY DEF CommandLineProvider
<1>6. provider["addresses"] = IF order.addresses = {} THEN Ok(MachineAddresses)
                              ELSE Reduce({ParseIpAddress(text) : text \in order.addresses})
    BY DEF CommandLineProvider
<1> HIDE DEF provider
<1>7. /\ props.issuer = OrDefault(order.issuer, DefaultIssuer)
      /\ props.audience = OrDefault(order.audience, DefaultAudience)
      /\ props.issuedAt = now /\ props.vmid = order.vmid /\ props.tokenId = id
  <2>1. \A value : Ok(value).value = value
      BY Outcomes
  <2> HIDE DEF props
  <2> QED BY <1>1, <1>3, <1>4, <2>1
<1>8. \A option, default, name :
         Timestamp(option, default, name).isOk =>
             Timestamp(option, default, name).value = IF option = Absent THEN default ELSE option
    BY DEF Timestamp, Ok, Error, Absent, Unparsable
<1>9. /\ props.notBefore = IF order.notBefore = Absent THEN now ELSE order.notBefore
      /\ props.notAfter = IF order.notAfter = Absent THEN now + SevenDays ELSE order.notAfter
  <2> HIDE DEF props
  <2> QED BY <1>1, <1>2, <1>3, <1>4, <1>8
<1>10. order.applications # {} /\ provider["applications"] = Ok({Trimmed(app) : app \in order.applications})
  <2>1. ~Error({"no applications"}).isOk /\ provider["applications"].isOk
      BY <1>1, <1>2, Outcomes
  <2> QED BY <1>5, <2>1
<1>11. props.applications = {Trimmed(app) : app \in {Trimmed(app) : app \in order.applications}}
  <2>1. provider["applications"].value = {Trimmed(app) : app \in order.applications}
      BY <1>10, Outcomes
  <2> HIDE DEF props
  <2> QED BY <1>3, <2>1
<1>12. BadAddress \notin AddressesOf(order) /\ provider["addresses"] = Ok(AddressesOf(order))
  <2>1. provider["addresses"].isOk
      BY <1>1, <1>2
  <2>2. CASE order.addresses = {}
      BY <1>6, <2>2, OrdersAssumption DEF AddressesOf, BadAddress
  <2>3. CASE order.addresses # {}
    <3>1. provider["addresses"] = Reduce({ParseIpAddress(text) : text \in order.addresses})
        BY <1>6, <2>3
    <3>2. \A text \in order.addresses : ParseIpAddress(text).isOk
        BY <2>1, <3>1, ReduceOk
    <3>3. BadAddress \notin order.addresses
        BY <3>2, Outcomes DEF ParseIpAddress
    <3> QED BY <2>3, <3>1, <3>3, ReduceAddresses DEF AddressesOf
  <2> QED BY <2>2, <2>3
<1>13. props.addresses = AddressesOf(order)
  <2>1. provider["addresses"].value = AddressesOf(order)
      BY <1>12, Outcomes
  <2> HIDE DEF props
  <2> QED BY <1>1, <1>3, <2>1
<1> QED BY <1>7, <1>9, <1>10, <1>11, <1>12, <1>13 DEF provider, props

\* A token that is generated carries its order.
LEMMA GeneratedCarries ==
    ASSUME NEW order \in Orders, NEW id, id # Nothing, now \in Nat, Execute(order, id).isOk
    PROVE  CarriesOrder([token |-> Execute(order, id).value, order |-> order, at |-> now])
<1> DEFINE provider == CommandLineProvider(order, id)
           clauses == [props |-> Build(provider),
                       signing |-> FindCertificate("signing", order.sign),
                       encryption |-> FindCertificate("encryption", order.encrypt)]
           values == Query(clauses).value
           props == Build(provider).value
<1>1. Query(clauses).isOk
    BY DEF Execute, OnOk
<1>2. /\ DOMAIN clauses = {"props", "signing", "encryption"}
      /\ clauses["props"] = Build(provider)
      /\ clauses["signing"] = FindCertificate("signing", order.sign)
      /\ clauses["encryption"] = FindCertificate("encryption", order.encrypt)
    OBVIOUS
<1>3. /\ Build(provider).isOk /\ values["props"] = props
      /\ values["signing"] = order.sign /\ values["encryption"] = order.encrypt
  <2> HIDE DEF clauses, provider
  <2>1. values = [name \in DOMAIN clauses |-> clauses[name].value]
        /\ \A name \in DOMAIN clauses : clauses[name].isOk
      BY <1>1, QueryOk
  <2>2. \A purpose, thumbprint :
           FindCertificate(purpose, thumbprint).isOk =>
               FindCertificate(purpose, thumbprint).value = thumbprint
      BY DEF FindCertificate, Ok, Error
  <2> QED BY <1>2, <2>1, <2>2
<1>4. /\ props.notBefore < props.notAfter
      /\ order.sign \in PrivateKeys \cup {Nothing}
      /\ Execute(order, id).value = Token(Claims(props), order.sign, order.encrypt)
  <2>1. Execute(order, id) =
          IF \/ values.props.notBefore >= values.props.notAfter
             \/ values.signing \notin PrivateKeys \cup {Nothing}
          THEN Error({"exception"})
          ELSE Ok(Token(Claims(values.props), values.signing, values.encryption))
      BY <1>1 DEF Execute, OnOk
  <2> HIDE DEF values, props
  <2>2. ~(props.notBefore >= props.notAfter)
        /\ order.sign \in PrivateKeys \cup {Nothing}
        /\ Execute(order, id) = Ok(Token(Claims(props), order.sign, order.encrypt))
      BY <1>3, <2>1, Outcomes
  <2>3. props.notBefore \in Int /\ props.notAfter \in Int
      BY <1>3, OrderedProperties, TimesAssumption DEF props, provider
  <2> QED BY <2>2, <2>3, Outcomes
<1> DEFINE item == [token |-> Execute(order, id).value, order |-> order, at |-> now]
<1>5. item.order = order /\ item.at = now /\ item.token.claims = Claims(props)
      /\ item.token.signedBy = order.sign /\ item.token.encryptedFor = order.encrypt
  <2> HIDE DEF props
  <2> QED BY <1>4 DEF Token
<1>6. /\ props.issuer = OrDefault(order.issuer, DefaultIssuer)
      /\ props.audience = OrDefault(order.audience, DefaultAudience)
      /\ props.notBefore = IF order.notBefore = Absent THEN now ELSE order.notBefore
      /\ props.notAfter = IF order.notAfter = Absent THEN now + SevenDays ELSE order.notAfter
      /\ props.issuedAt = now /\ props.vmid = order.vmid /\ props.tokenId = id
      /\ order.applications # {}
      /\ props.applications = {Trimmed(app) : app \in {Trimmed(app) : app \in order.applications}}
      /\ BadAddress \notin AddressesOf(order) /\ props.addresses = AddressesOf(order)
  <2> HIDE DEF provider
  <2> QED BY <1>3, OrderedProperties DEF provider
<1> HIDE DEF item, props
<1>7. CarriesOrder(item)
    BY <1>4, <1>5, <1>6 DEF CarriesOrder, Claims, ValidFrom, ValidTo
<1> QED BY <1>7 DEF item

-----------------------------------------------------------------------------
(* Verification.                                                           *)

\* A token is accepted exactly when its order fits the server and the time.
LEMMA ExtractVerdict ==
    ASSUME NEW item, CarriesOrder(item), now \in Nat
    PROVE  /\ ExtractJwt(item.token).isOk <=> Fits(item) /\ InTime(item, now)
           /\ ExtractJwt(item.token).isOk => ExtractJwt(item.token) = Ok(item.token.claims)
<1> DEFINE token == item.token
           claims == token.claims
<1>1. /\ item.order.notBefore \in Int /\ item.order.notAfter \in Int /\ item.at \in Nat
      /\ ClockSkew \in Nat /\ SevenDays \in Nat
    BY TimesAssumption DEF CarriesOrder
<1>2. claims.exp \in Int /\ claims.nbf \in Int /\ claims.exp # Absent /\ ~(claims.nbf > claims.exp)
  <2>1. ValidFrom(item) \in Int /\ ValidTo(item) \in Int /\ ValidTo(item) # Absent
      BY <1>1 DEF ValidFrom, ValidTo, Absent
  <2> QED BY <2>1 DEF CarriesOrder
<1>3. InTime(item, now) <=> ~NotYetValid(token) /\ ~HasExpired(token)
    BY <1>1, <1>2 DEF InTime, NotYetValid, HasExpired, CarriesOrder
<1>4. Fits(item) <=>
        /\ token.encryptedFor \in {Nothing, SecurityKey(server.encrypt)}
        /\ token.signedBy = SecurityKey(server.sign)
        /\ server.audience \in claims.aud /\ claims.iss = server.issuer
  <2>1. Nothing \notin PrivateKeys
      BY CertificatesAssumption DEF Nothing
  <2>2. item.order.sign = SecurityKey(server.sign) <=>
           SignedAsAsked(item) \/ UnsignedForKeyless(item)
      BY <2>1 DEF CarriesOrder, SecurityKey, SignedAsAsked, UnsignedForKeyless
  <2>3. item.order.encrypt \in {Nothing, SecurityKey(server.encrypt)} <=>
           EncryptedAsAsked(item) \/ NotEncrypted(item)
      BY DEF SecurityKey, EncryptedAsAsked, NotEncrypted
  <2>4. /\ token.signedBy = item.order.sign /\ token.encryptedFor = item.order.encrypt
        /\ claims.iss = OrDefault(item.order.issuer, DefaultIssuer)
        /\ claims.aud = {OrDefault(item.order.audience, DefaultAudience)}
      BY DEF CarriesOrder
  <2> HIDE DEF token, claims
  <2> QED BY <2>2, <2>3, <2>4 DEF Fits
<1> HIDE DEF token, claims
<1>5. \A errors : ~Error(errors).isOk
    BY Outcomes
<1>6. Ok(claims).isOk
    BY Outcomes
<1>7. ExtractJwt(token).isOk <=> Fits(item) /\ InTime(item, now)
    BY <1>2, <1>3, <1>4, <1>5, <1>6 DEF ExtractJwt, claims
<1>8. ExtractJwt(token).isOk => ExtractJwt(token) = Ok(claims)
    BY <1>5 DEF ExtractJwt, claims
<1> QED BY <1>7, <1>8 DEF token, claims

\* The properties that the server makes of the claims.
LEMMA ClaimedProperties ==
    ASSUME NEW item, CarriesOrder(item)
    PROVE  LET claims == item.token.claims
               props == BuildFromClaims(claims).value
           IN  /\ BuildFromClaims(claims).isOk
               /\ props.vmid = claims.vmid /\ props.notAfter = claims.exp
               /\ props.addresses = claims.ip
               /\ props.applications = {Trimmed(app) : app \in claims.app}
<1> DEFINE claims == item.token.claims
           provider == JwtProvider(claims)
<1>1. /\ claims.iat # Absent /\ claims.id # Nothing /\ claims.app # {} /\ BadAddress \notin claims.ip
      /\ \E a \in claims.aud : claims.aud = {a}
    BY DEF CarriesOrder, Absent
<1>2. DOMAIN provider =
        {"notBefore", "notAfter", "issuedAt", "issuer", "audience", "applications",
         "addresses", "vmid", "tokenId"}
    BY DEF JwtProvider
<1>3. /\ provider["vmid"] = Ok(claims.vmid) /\ provider["notAfter"] = Ok(claims.exp)
      /\ provider["applications"] = Ok(claims.app) /\ provider["addresses"] = Ok(claims.ip)
  <2> HIDE DEF claims
  <2> QED BY <1>1, ReduceAddresses DEF JwtProvider
<1>4. /\ provider["notBefore"] = Ok(claims.nbf) /\ provider["issuer"] = Ok(claims.iss)
      /\ provider["issuedAt"] = Ok(claims.iat) /\ provider["tokenId"] = Ok(claims.id)
      /\ provider["audience"] = Ok(CHOOSE a \in claims.aud : TRUE)
  <2> HIDE DEF claims
  <2> QED BY <1>1 DEF JwtProvider
<1> HIDE DEF claims, provider
<1>5. \A value : Ok(value).isOk /\ Ok(value).value = value
    BY Outcomes
<1>6. \A name \in DOMAIN provider : provider[name].isOk
    BY <1>2, <1>3, <1>4, <1>5
<1>7. /\ Build(provider).isOk
      /\ \A name \in DOMAIN provider :
            name # "applications" => Build(provider).value[name] = provider[name].value
      /\ Build(provider).value["applications"] = {Trimmed(app) : app \in provider["applications"].value}
    BY <1>2, <1>6, BuildValue
<1>8. BuildFromClaims(claims) = Build(provider)
    BY DEF BuildFromClaims, provider
<1> QED BY <1>2, <1>3, <1>5, <1>7, <1>8 DEF claims

\* Trimming twice, once by each program, changes nothing that is compared.
LEMMA ApplicationsGranted ==
    ASSUME NEW order \in Orders, NEW app
    PROVE  (\E a \in {Trimmed(b) : b \in {Trimmed(b) : b \in {Trimmed(b) : b \in order.applications}}} :
               EqualIgnoringCase(a, app))
           <=> \E b \in order.applications : b.name = app.name /\ app.spelling # "padded"
<1>1. ASSUME NEW b, b \in [name : {b.name}, spelling : Spellings]
      PROVE  /\ Trimmed(b) \in [name : {b.name}, spelling : Spellings]
             /\ Trimmed(b).name = b.name /\ Trimmed(b).spelling # "padded"
    BY <1>1 DEF Trimmed, Spellings
<1>2. ASSUME NEW b \in order.applications
      PROVE  LET c == Trimmed(Trimmed(Trimmed(b)))
             IN  c.name = b.name /\ c.spelling # "padded"
  <2>1. b \in [name : {b.name}, spelling : Spellings]
      BY OrdersAssumption
  <2>2. Trimmed(b) \in [name : {Trimmed(b).name}, spelling : Spellings] /\ Trimmed(b).name = b.name
      BY <1>1, <2>1
  <2>3. /\ Trimmed(Trimmed(b)) \in [name : {Trimmed(Trimmed(b)).name}, spelling : Spellings]
        /\ Trimmed(Trimmed(b)).name = b.name
      BY <1>1, <2>2
  <2> QED BY <1>1, <2>3
<1>3. \A b \in order.applications :
         EqualIgnoringCase(Trimmed(Trimmed(Trimmed(b))), app) <=>
             b.name = app.name /\ app.spelling # "padded"
    BY <1>2 DEF EqualIgnoringCase
<1> QED BY <1>3

\* What is answered to a request with a token of an order.
LEMMA ResponseVerdict ==
    ASSUME NEW item, CarriesOrder(item), now \in Nat, NEW request,
           Respond(request, item.token).status # 400
    PROVE  LET response == Respond(request, item.token)
           IN  /\ response.status = 200 <=>
                     Fits(item) /\ Ordered(item, request) /\ InTime(item, now)
               /\ response.status = 200 =>
                     response.vmid = item.order.vmid /\ response.expiry = ValidTo(item)
<1> DEFINE token == item.token
           claims == token.claims
           props == BuildFromClaims(claims).value
           response == Respond(request, token)
<1>1. /\ response.status = 200 <=> Verify(request, token).isOk
      /\ Verify(request, token).isOk =>
            /\ response.vmid = Verify(request, token).value.vmid
            /\ response.expiry = Verify(request, token).value.notAfter
    BY DEF Respond
<1>2. /\ ExtractJwt(token).isOk <=> Fits(item) /\ InTime(item, now)
      /\ ExtractJwt(token).isOk => ExtractJwt(token) = Ok(claims)
    BY ExtractVerdict
<1>3. /\ BuildFromClaims(claims).isOk
      /\ props.vmid = claims.vmid /\ props.notAfter = claims.exp /\ props.addresses = claims.ip
      /\ props.applications = {Trimmed(app) : app \in claims.app}
    BY ClaimedProperties
<1>4. Ordered(item, request) <=>
        Grants(props, request.application) /\ request.address \in props.addresses
  <2>1. /\ item.order \in Orders /\ claims.ip = AddressesOf(item.order)
        /\ claims.app = {Trimmed(app) : app \in {Trimmed(app) : app \in item.order.applications}}
      BY DEF CarriesOrder
  <2>2. Grants(props, request.application) <=>
          \E b \in item.order.applications :
             b.name = request.application.name /\ request.application.spelling # "padded"
    <3> HIDE DEF props, claims
    <3> QED BY <1>3, <2>1, ApplicationsGranted DEF Grants
  <2> HIDE DEF props, claims
  <2> QED BY <1>3, <2>1, <2>2 DEF Ordered, AddressesOf
<1>5. CASE ExtractJwt(token).isOk
  <2>1. Parse(token) = BuildFromClaims(claims)
      BY <1>2, <1>5, Outcomes DEF Parse, OnOk
  <2>2. Verify(request, token) =
          IF ~Grants(props, request.application) THEN Error({"application"})
          ELSE IF request.address \notin props.addresses THEN Error({"address"})
          ELSE Ok(props)
      BY <1>3, <2>1 DEF Verify, OnOk
  <2> HIDE DEF props, claims, response, token
  <2>3. /\ Verify(request, token).isOk <=> Ordered(item, request)
        /\ Verify(request, token).isOk => Verify(request, token).value = props
      BY <1>4, <2>2, Outcomes
  <2>4. claims.vmid = item.order.vmid /\ claims.exp = ValidTo(item)
      BY DEF CarriesOrder, claims, token
  <2> QED BY <1>1, <1>2, <1>3, <1>5, <2>3, <2>4 DEF response, token
<1>6. CASE ~ExtractJwt(token).isOk
  <2>1. ~Verify(request, token).isOk
      BY <1>6 DEF Verify, Parse, OnOk
  <2> HIDE DEF response
  <2> QED BY <1>1, <1>2, <1>6, <2>1 DEF response, token
<1> QED BY <1>5, <1>6

-----------------------------------------------------------------------------
LEMMA VerdictInit == Init => VerdictInv /\ VerdictMatchesOrder
<1> SUFFICES ASSUME Init PROVE VerdictInv /\ VerdictMatchesOrder
    OBVIOUS
<1>1. IsFiniteSet(generated) /\ Cardinality(generated) = 0
    BY FS_EmptySet DEF Init
<1> QED BY <1>1, TimesAssumption DEF Init, VerdictInv, VerdictMatchesOrder

LEMMA GenerateKeeps ==
    ASSUME VerdictInv, NEW order \in Orders, Generate(order)
    PROVE  VerdictInv' /\ VerdictMatchesOrder'
<1> DEFINE n == Cardinality(generated)
           result == Execute(order, TokenId(n))
           item == [token |-> result.value, order |-> order, at |-> now]
<1>1. n \in 0 .. MaxTokens /\ n < MaxTokens
    BY FS_CardinalityType, TimesAssumption DEF VerdictInv, Generate
<1>2. TokenId(n) # Nothing
    BY <1>1, TokenIdsAssumption DEF Nothing
<1>3. now' = now /\ outcome'.op = "generate"
    BY DEF Generate
<1>4. \A i : CarriesOrder(i)' <=> CarriesOrder(i)
    BY DEF CarriesOrder, ValidFrom, ValidTo
<1>5. generated' = generated \/ (generated' = generated \cup {item} /\ CarriesOrder(item))
  <2>1. CASE result.isOk
      BY <1>2, <2>1, GeneratedCarries DEF Generate, VerdictInv
  <2>2. CASE ~result.isOk
      BY <2>2 DEF Generate
  <2> QED BY <2>1, <2>2
<1> HIDE DEF item, result
<1>6. IsFiniteSet(generated') /\ Cardinality(generated') <= MaxTokens
  <2>1. CASE generated' = generated
      BY <2>1 DEF VerdictInv
  <2>2. CASE generated' = generated \cup {item}
    <3>1. /\ IsFiniteSet(generated \cup {item})
          /\ Cardinality(generated \cup {item}) = IF item \in generated THEN n ELSE n + 1
        BY FS_AddElement DEF VerdictInv
    <3> HIDE DEF n
    <3> QED BY <1>1, <2>2, <3>1, TimesAssumption
  <2> QED BY <1>5, <2>1, <2>2
<1>7. \A i \in generated' : CarriesOrder(i)'
    BY <1>4, <1>5 DEF VerdictInv
<1> QED BY <1>3, <1>6, <1>7 DEF VerdictInv, VerdictMatchesOrder

LEMMA ApproveKeeps ==
    ASSUME VerdictInv, NEW item \in Items, NEW body \in Bodies, NEW address \in RemoteAddresses,
           Approve(item, body, address)
    PROVE  VerdictInv' /\ VerdictMatchesOrder'
<1> DEFINE request == [application |-> body.application, address |-> address]
<1>1. /\ UNCHANGED <<now, server, generated>>
      /\ outcome' = [op |-> "approve", response |-> Respond(request, item.token), item |-> item,
                     request |-> request, at |-> now]
    BY DEF Approve
<1>2. VerdictInv'
    BY <1>1 DEF VerdictInv, CarriesOrder, ValidFrom, ValidTo
<1>3. /\ outcome'.response = Respond(request, item.token) /\ outcome'.item = item
      /\ outcome'.request = request /\ outcome'.at = now
    BY <1>1
<1>4. ASSUME item.order # NoOrder
      PROVE  CarriesOrder(item) /\ now \in Nat
    BY <1>4 DEF Items, VerdictInv
<1> HIDE DEF request
<1>5. Fits(item)' <=> Fits(item)
    BY <1>1 DEF Fits, SignedAsAsked, UnsignedForKeyless, EncryptedAsAsked, NotEncrypted
<1>6. ASSUME item.order # NoOrder, Respond(request, item.token).status # 400
      PROVE  LET response == Respond(request, item.token)
             IN  /\ response.status = 200 <=>
                       Fits(item) /\ Ordered(item, request) /\ InTime(item, now)
                 /\ response.status = 200 =>
                       response.vmid = item.order.vmid /\ response.expiry = ValidTo(item)
    BY <1>4, <1>6, ResponseVerdict
<1> QED BY <1>2, <1>3, <1>5, <1>6 DEF VerdictMatchesOrder, Fits, Ordered, InTime, ValidFrom, ValidTo

\* Between an order on the command line of sestest and the answer of an Approve
\* handler nothing is lost, added or mistaken: a request is approved exactly when it
\* is what was ordered, with the vmid and the expiry of the order (and, against the
\* documentation, also when the token lacks the encryption the server was told to ask
\* for, or the signature, if that certificate has no private key: see Fits).
THEOREM VerdictsMatchOrders == Spec => []VerdictMatchesOrder
<1>1. VerdictInv /\ VerdictMatchesOrder /\ [Next]_vars => VerdictInv' /\ VerdictMatchesOrder'
  <2> SUFFICES ASSUME VerdictInv, VerdictMatchesOrder, [Next]_vars
               PROVE  VerdictInv' /\ VerdictMatchesOrder'
      OBVIOUS
  <2>1. CASE Tick \/ UNCHANGED vars
    <3>1. /\ UNCHANGED <<server, generated, outcome>> /\ now' \in Nat
        BY <2>1 DEF Tick, vars, VerdictInv
    <3>2. VerdictInv'
        BY <3>1 DEF VerdictInv, CarriesOrder, ValidFrom, ValidTo
    <3>3. VerdictMatchesOrder'
        BY <3>1 DEF VerdictMatchesOrder, Fits, SignedAsAsked, UnsignedForKeyless,
                    EncryptedAsAsked, NotEncrypted
    <3> QED BY <3>2, <3>3
  <2>2. ASSUME NEW order \in Orders, Generate(order) PROVE VerdictInv' /\ VerdictMatchesOrder'
      BY <2>2, GenerateKeeps
  <2>3. ASSUME NEW item \in Items, NEW body \in Bodies, NEW address \in RemoteAddresses,
               Approve(item, body, address)
        PROVE  VerdictInv' /\ VerdictMatchesOrder'
      BY <2>3, ApproveKeeps
  <2> QED BY <2>1, <2>2, <2>3 DEF Next
<1> QED BY <1>1, VerdictInit, PTL DEF Spec
=============================================================================

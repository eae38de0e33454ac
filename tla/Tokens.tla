--------------------------------- MODULE Tokens ---------------------------------
(***************************************************************************)
(* The life of a token: "sestest generate" builds its properties from the  *)
(* command line and encodes them as a JWT, the server decodes, validates   *)
(* and verifies it for a request.  The two halves share nothing but the    *)
(* token.  JwtSecurityTokenHandler is a library: what it writes and        *)
(* refuses is modelled from how TokenGenerator and JwtPropertyParser use   *)
(* it.  Time is in whole seconds, the resolution of the claims.            *)
(***************************************************************************)
EXTENDS Integers, FiniteSets, Results

CONSTANTS
    Orders,         \* the command lines of "sestest generate"
    ForeignTokens,  \* tokens that others have generated
    Servers,        \* configurations of the server
    Bodies,         \* bodies of requests, but for the token
    MachineAddresses, RemoteAddresses,
    Certificates,   \* the thumbprints that FindCertificate finds
    PrivateKeys,    \* those of certificates that have a private key
    ClockSkew,      \* 60 s
    SevenDays,
    Horizon,        \* the last moment of a run (a bound)
    MaxTokens       \* how many tokens are generated (a bound)

ASSUME CertificatesAssumption == PrivateKeys \subseteq Certificates /\ "" \notin Certificates

ASSUME TimesAssumption ==
    /\ ClockSkew \in Nat /\ SevenDays \in Nat /\ Horizon \in Nat /\ MaxTokens \in Nat
    /\ \A order \in Orders : order.notBefore \in Int /\ order.notAfter \in Int
    /\ \A token \in ForeignTokens : token.claims.exp \in Int

\* What is given is an application or several, in one spelling each; a machine has
\* addresses that can be parsed.
Spellings == {"plain", "upper", "padded"}

ASSUME OrdersAssumption ==
    /\ \A order \in Orders : \A app \in order.applications :
          app \in [name : {app.name}, spelling : Spellings]
    /\ "not an address" \notin MachineAddresses

\* A new GUID is not empty.
TokenId(n) == <<"token", n>>
ASSUME TokenIdsAssumption == \A n \in 0 .. MaxTokens : TokenId(n) # ""

VARIABLES
    now,            \* the clock that both programs read
    server,         \* the configuration of the server
    generated,      \* the tokens that were generated, with their orders
    outcome,        \* what the last command or request was, and how it ended
    lapsed          \* history: the tokens the server has found expired

vars == <<now, server, generated, outcome, lapsed>>

\* A number or text that is not there, and a text that cannot be parsed.
Absent == -1
Unparsable == -2
Nothing == ""
BadAddress == "not an address"

DefaultAudience == "audience"
DefaultIssuer == "issuer"
OrDefault(text, default) == IF text = Nothing THEN default ELSE text

\* An application is a name in one of several spellings.
Trimmed(app) == IF app.spelling = "padded" THEN [app EXCEPT !.spelling = "plain"] ELSE app
EqualIgnoringCase(a, b) ==
    a.name = b.name /\ (a.spelling = "padded" <=> b.spelling = "padded")

\* IPAddress.TryParse
ParseIpAddress(text) == IF text = BadAddress THEN Error({text}) ELSE Ok(text)

-----------------------------------------------------------------------------
(* Generation: CommandLineEntitlementPropertyProvider, GenerateCommand and *)
(* TokenGenerator.                                                         *)

Timestamp(option, default, name) ==
    CASE option = Absent -> Ok(default)
      [] option = Unparsable -> Error({name})
      [] OTHER -> Ok(option)

CommandLineProvider(order, id) ==
    [notBefore |-> Timestamp(order.notBefore, now, "NotBefore"),
     notAfter |-> Timestamp(order.notAfter, now + SevenDays, "NotAfter"),
     issuedAt |-> Ok(now),
     issuer |-> Ok(OrDefault(order.issuer, DefaultIssuer)),
     audience |-> Ok(OrDefault(order.audience, DefaultAudience)),
     applications |-> IF order.applications = {} THEN Error({"no applications"})
                      ELSE Ok({Trimmed(app) : app \in order.applications}),
     addresses |-> IF order.addresses = {} THEN Ok(MachineAddresses)
                   ELSE Reduce({ParseIpAddress(text) : text \in order.addresses}),
     vmid |-> Ok(order.vmid),
     tokenId |-> Ok(id)]

FindCertificate(purpose, thumbprint) ==
    IF thumbprint \in Certificates \cup {Nothing} THEN Ok(thumbprint) ELSE Error({purpose})

\* EntitlementTokenProperties.Build
WithTrimmedApplications(props) ==
    Ok([props EXCEPT !.applications = {Trimmed(app) : app \in @}])
Build(provider) == OnOk(Query(provider), WithTrimmedApplications(Query(provider).value))

\* CreateClaims and the descriptor; an empty vmid is left out.
Claims(props) ==
    [iss |-> props.issuer, aud |-> {props.audience}, nbf |-> props.notBefore,
     exp |-> props.notAfter, iat |-> props.issuedAt, vmid |-> props.vmid,
     id |-> props.tokenId, app |-> props.applications, ip |-> props.addresses]

Token(claims, signedBy, encryptedFor) ==
    [claims |-> claims, signedBy |-> signedBy, encryptedFor |-> encryptedFor]

\* GenerateCommand.Execute.  CreateToken throws when the token expires before it
\* starts and when it cannot sign; RunCommand makes it an internal error.
Execute(order, id) ==
    LET clauses == [props |-> Build(CommandLineProvider(order, id)),
                    signing |-> FindCertificate("signing", order.sign),
                    encryption |-> FindCertificate("encryption", order.encrypt)]
        Generate(values) ==
            IF \/ values.props.notBefore >= values.props.notAfter
               \/ values.signing \notin PrivateKeys \cup {Nothing}
            THEN Error({"exception"})
            ELSE Ok(Token(Claims(values.props), values.signing, values.encryption))
    IN  OnOk(Query(clauses), Generate(Query(clauses).value))

-----------------------------------------------------------------------------
(* Verification: JwtPropertyParser, JwtPropertyProvider, TokenVerifier and *)
(* the Approve handlers.                                                   *)

\* CreateX509SecurityKey, CreateRsaSecurityKey: without a private key, no key.
SecurityKey(thumbprint) == IF thumbprint \in PrivateKeys THEN thumbprint ELSE Nothing

\* ValidateLifetime
HasExpired(token) == token.claims.exp + ClockSkew < now
NotYetValid(token) == now + ClockSkew < token.claims.nbf

\* Faulty variant: the two catch clauses have the same body.
TokenNotYetValidErrorCopied == "expired"

TokenNotYetValidError == "not yet valid"
TokenExpiredError == "expired"

\* ExtractJwt: the handler stops at the first thing it finds wrong.
ExtractJwt(token) ==
    LET claims == token.claims
    IN  IF token.encryptedFor \notin {Nothing, SecurityKey(server.encrypt)}
        THEN Error({"decryption"})
        ELSE IF token.signedBy # SecurityKey(server.sign) THEN Error({"signature"})
        ELSE IF claims.exp = Absent THEN Error({"no expiration"})
        ELSE IF claims.nbf > claims.exp THEN Error({"lifetime"})
        ELSE IF NotYetValid(token) THEN Error({TokenNotYetValidError})
        ELSE IF HasExpired(token) THEN Error({TokenExpiredError})
        ELSE IF server.audience \notin claims.aud THEN Error({"audience"})
        ELSE IF claims.iss # server.issuer THEN Error({"issuer"})
        ELSE Ok(claims)

JwtProvider(claims) ==
    [notBefore |-> Ok(claims.nbf),
     notAfter |-> Ok(claims.exp),
     issuedAt |-> IF claims.iat = Absent THEN Error({"no issued-at"}) ELSE Ok(claims.iat),
     issuer |-> Ok(claims.iss),
     audience |-> IF \E a \in claims.aud : claims.aud = {a}
                  THEN Ok(CHOOSE a \in claims.aud : TRUE) ELSE Error({"audiences"}),
     applications |-> IF claims.app = {} THEN Error({"no applications"}) ELSE Ok(claims.app),
     addresses |-> Reduce({ParseIpAddress(text) : text \in claims.ip}),
     vmid |-> Ok(claims.vmid),
     tokenId |-> IF claims.id = Nothing THEN Error({"no token id"}) ELSE Ok(claims.id)]

BuildFromClaims(claims) == Build(JwtProvider(claims))
Parse(token) == OnOk(ExtractJwt(token), BuildFromClaims(ExtractJwt(token).value))

\* Faulty variant: the application is compared as it is written.
GrantsExactly(props, app) == app \in props.applications

Grants(props, app) == \E a \in props.applications : EqualIgnoringCase(a, app)

Verify(request, token) ==
    LET Check(props) ==
            IF ~Grants(props, request.application) THEN Error({"application"})
            ELSE IF request.address \notin props.addresses THEN Error({"address"})
            ELSE Ok(props)
    IN  OnOk(Parse(token), Check(Parse(token).value))

\* ApproveV1 answers with the vmid, ApproveV2 with the expiry.
Respond(request, token) ==
    IF request.application.name = Nothing THEN [status |-> 400]
    ELSE LET result == Verify(request, token)
         IN  IF result.isOk
             THEN [status |-> 200, vmid |-> result.value.vmid, expiry |-> result.value.notAfter]
             ELSE [status |-> 403, errors |-> result.errors]

-----------------------------------------------------------------------------
NoOrder == [op |-> "foreign"]

Init ==
    /\ now = 0
    /\ server \in Servers
    /\ generated = {}
    /\ outcome = [op |-> "none"]
    /\ lapsed = {}

Tick ==
    /\ now < Horizon /\ now' = now + 1
    /\ UNCHANGED <<server, generated, outcome, lapsed>>

\* "sestest generate"; the identifier is a new GUID.
Generate(order) ==
    /\ Cardinality(generated) < MaxTokens
    /\ LET result == Execute(order, TokenId(Cardinality(generated)))
       IN  /\ generated' = IF result.isOk
                            THEN generated \cup {[token |-> result.value, order |-> order, at |-> now]}
                            ELSE generated
           /\ outcome' = [op |-> "generate", order |-> order, errors |-> ErrorsOf(result)]
    /\ UNCHANGED <<now, server, lapsed>>

\* A POST whose token somebody was given.
Approve(item, body, address) ==
    LET request == [application |-> body.application, address |-> address]
        response == Respond(request, item.token)
    IN  /\ outcome' = [op |-> "approve", response |-> response, item |-> item,
                       request |-> request, at |-> now]
        /\ lapsed' = IF response.status = 403 /\ response.errors = {TokenExpiredError}
                     THEN lapsed \cup {item.token} ELSE lapsed
        /\ UNCHANGED <<now, server, generated>>

Items == generated \cup {[token |-> token, order |-> NoOrder, at |-> 0] : token \in ForeignTokens}

Next ==
    \/ Tick
    \/ \E order \in Orders : Generate(order)
    \/ \E item \in Items, body \in Bodies, address \in RemoteAddresses : Approve(item, body, address)

Spec == Init /\ [][Next]_vars

-----------------------------------------------------------------------------
(* Properties.                                                             *)

\* What somebody who orders a token means by it.
ValidFrom(item) == IF item.order.notBefore = Absent THEN item.at ELSE item.order.notBefore
ValidTo(item) ==
    IF item.order.notAfter = Absent THEN item.at + SevenDays ELSE item.order.notAfter

Ordered(item, request) ==
    /\ \E app \in item.order.applications :
          app.name = request.application.name /\ request.application.spelling # "padded"
    /\ request.address \in IF item.order.addresses = {} THEN MachineAddresses
                           ELSE item.order.addresses

\* What the options --sign and --encrypt of the server promise, and what the code
\* does besides: the exceptions are the subject of ProtectedTokensOnly below.
SignedAsAsked(item) == item.order.sign = server.sign
UnsignedForKeyless(item) == item.order.sign = Nothing /\ server.sign \notin PrivateKeys
EncryptedAsAsked(item) == item.order.encrypt = server.encrypt /\ server.encrypt \in PrivateKeys
NotEncrypted(item) == item.order.encrypt = Nothing

Fits(item) ==
    /\ SignedAsAsked(item) \/ UnsignedForKeyless(item)
    /\ EncryptedAsAsked(item) \/ NotEncrypted(item)
    /\ OrDefault(item.order.audience, DefaultAudience) = server.audience
    /\ OrDefault(item.order.issuer, DefaultIssuer) = server.issuer

InTime(item, time) == ValidFrom(item) - ClockSkew <= time /\ time <= ValidTo(item) + ClockSkew

\* A request is approved exactly when it agrees with the command line the token was
\* generated from: what is typed survives the defaults, the claims, the parsing and
\* the comparisons of the server, whichever spelling of the application is used.
\* Exceptions: --encrypt does not keep tokens out that are not encrypted, nor a
\* --sign whose certificate has no private key those that are not signed, against
\* the documentation (see ProtectedTokensOnly); and the times have the tolerance of
\* ClockSkew.
VerdictMatchesOrder ==
    outcome.op = "approve" /\ outcome.item.order # NoOrder /\ outcome.response.status # 400 =>
        LET item == outcome.item
            response == outcome.response
        IN  /\ response.status = 200 <=>
                  Fits(item) /\ Ordered(item, outcome.request) /\ InTime(item, outcome.at)
            /\ response.status = 200 =>
                  response.vmid = item.order.vmid /\ response.expiry = ValidTo(item)

\* "If specified, all tokens must be signed" and "if specified, all tokens must be
\* encrypted" (ServerCommandLine.cs:14 and :17): a server that was started with both
\* options approves no token that is neither.
ProtectedTokensOnly ==
    outcome.op = "approve" /\ outcome.response.status = 200
    /\ server.sign # Nothing /\ server.encrypt # Nothing =>
        \/ outcome.item.token.signedBy = server.sign
        \/ outcome.item.token.encryptedFor = server.encrypt

\* The token of an approved request carries every claim the code asks for, also
\* when it comes from another generator.
ApprovedIsComplete ==
    outcome.op = "approve" /\ outcome.response.status = 200 =>
        LET claims == outcome.item.token.claims
        IN  /\ claims.iat # Absent /\ claims.exp # Absent /\ claims.id # Nothing
            /\ claims.aud = {server.audience} /\ claims.iss = server.issuer
            /\ BadAddress \notin claims.ip

\* What is wrong with an order, fault by fault.
Faults == {"NotBefore", "NotAfter", "no applications", BadAddress, "signing", "encryption"}

Wrong(order, fault) ==
    \/ fault = "NotBefore" /\ order.notBefore = Unparsable
    \/ fault = "NotAfter" /\ order.notAfter = Unparsable
    \/ fault = "no applications" /\ order.applications = {}
    \/ fault = BadAddress /\ BadAddress \in order.addresses
    \/ fault = "signing" /\ order.sign \notin Certificates \cup {Nothing}
    \/ fault = "encryption" /\ order.encrypt \notin Certificates \cup {Nothing}

\* A "sestest generate" that fails reports everything that is wrong with its options
\* at once.
EveryFaultReported ==
    outcome.op = "generate" /\ outcome.errors \ {"exception"} # {} =>
        outcome.errors = {fault \in Faults : Wrong(outcome.order, fault)}

\* "Once the token has expired, further verification requests will be declined"
\* (the Server project's readme.md:56): no approval follows the first answer that
\* says so.
LapsedStaysRefused ==
    [][outcome' # outcome /\ outcome'.op = "approve" /\ outcome'.response.status = 200 =>
          outcome'.item.token \notin lapsed]_vars
=============================================================================

--------------------------- MODULE OidcValidator ---------------------------
(* What oidc-credential-validator says of a credential, from what an        *)
(* identity provider answers (main.rs check): the discovery document names  *)
(* one endpoint and the ways a client may authenticate there, each way is   *)
(* tried with one request until one gives a decision.                       *)
(*                                                                          *)
(* "invalid" may cost an operator a stored credential, so everything but an *)
(* answer that judged the credential has to end in "error".                 *)
EXTENDS Naturals, Sequences, FiniteSetsExt

Method == {"basic", "post"}

(***************************************************************************)
(* Providers, as far as a client can tell them apart.                      *)
(***************************************************************************)

\* The discovery document: the endpoints it declares, whether they are https (or
\* need not be) and the authentication methods it lists ("other": private_key_jwt
\* and the like); and the methods this client may really use.  A provider may
\* list nothing; if it lists a method we know, it lists one the client may use.
Provider ==
    {p \in [introspects : BOOLEAN, mints : BOOLEAN, secure : BOOLEAN,
            lists : SUBSET (Method \cup {"other"}), understands : SUBSET Method] :
        /\ p.understands # {}
        /\ p.lists \cap Method # {} => p.lists \cap p.understands # {}}

\* An answer to a request: "silent" if there is none, the class of its status,
\* the OAuth error code in its body, and whether the body has `active`.
Reply == [status : {"silent", "2xx", "4xx", "401", "403", "429", "5xx"},
          error  : {"none", "invalid_client", "refused", "unknown"},
          active : BOOLEAN]

Says(status, error) == [status |-> status, error |-> error, active |-> FALSE]
Introspected == [status |-> "2xx", error |-> "none", active |-> TRUE]

\* Networks, overload and proxies answer anything that judges nothing.
Trouble == {Says("silent", "none"), Says("429", "none"), Says("5xx", "none"),
            Says("4xx", "none"), Says("4xx", "unknown")}

\* How a provider says that it does not take this client for who it says it is.
Rejections == {Says("401", "invalid_client"), Says("4xx", "invalid_client"),
               Says("401", "none"), Says("403", "none")}

\* RFC 7662: the client is authenticated before anything is answered; a page
\* without `active` comes from something else.
IntrospectionReplies(authenticated) ==
    Trouble \cup {Says("2xx", "none")}
        \cup IF authenticated THEN {Introspected} ELSE Rejections

\* RFC 6749: a token is minted for an authenticated client only; the grant may
\* be refused whoever asks.
TokenReplies(authenticated) ==
    Trouble \cup {Says("4xx", "refused")}
        \cup IF authenticated THEN {Says("2xx", "none")} ELSE Rejections

(***************************************************************************)
(* The validator.                                                          *)
(***************************************************************************)

\* The body of an answer that cannot be read to its end counts as empty.
Received(replies) == replies \cup {Says(r.status, "none") : r \in replies}

\* The one answer that says the credential is wrong: OAuth's code for it, or an
\* authentication failure without any code.
Rejected(r) == \/ r.error = "invalid_client"
               \/ r.error = "none" /\ r.status \in {"401", "403"}

\* What is common to both probes, after their own reading of a 2xx.
Judge(r) ==
    IF r.status \notin {"silent", "429", "5xx"} /\ Rejected(r) THEN "invalid" ELSE "error"

\* Mutant: any 2xx proves the credential.
classify_introspection_AnyPage(r) == IF r.status = "2xx" THEN "valid" ELSE Judge(r)

classify_introspection(r) ==
    IF r.status = "2xx" THEN (IF r.active THEN "valid" ELSE "error") ELSE Judge(r)
token_request(r) ==
    IF r.status = "2xx" THEN "valid" ELSE Judge(r)

\* The methods to try, Basic first: those the document lists, or both when it
\* lists nothing; none is left when it lists only others.
negotiated_methods(p) ==
    LET wanted == IF p.lists = {} THEN Method ELSE p.lists
    IN IF Method \subseteq wanted THEN <<"basic", "post">>
       ELSE IF "basic" \in wanted THEN <<"basic">>
       ELSE IF "post" \in wanted THEN <<"post">> ELSE <<>>

\* Mutant: the first answer decides.
try_methods_First(methods, verdict) == verdict[Head(methods)]

\* Each method in turn, until one gives something else than "invalid".
try_methods(methods, verdict) ==
    LET other == {i \in DOMAIN methods : verdict[methods[i]] # "invalid"}
    IN IF other = {} THEN "invalid" ELSE verdict[methods[Min(other)]]

\* check, after a discovery document was read: the introspection endpoint is
\* preferred, the token endpoint the fallback.  `reply` is the answer to the
\* request of each method.
check(p, reply) ==
    IF ~p.secure \/ negotiated_methods(p) = <<>> \/ ~(p.introspects \/ p.mints) THEN "error"
    ELSE try_methods(negotiated_methods(p),
                     [m \in Method |-> IF p.introspects THEN classify_introspection(reply[m])
                                       ELSE token_request(reply[m])])

\* What a provider can make the validator say of a credential.
Replies(p, m, good) ==
    LET authenticated == good /\ m \in p.understands
    IN Received(IF p.introspects THEN IntrospectionReplies(authenticated)
                ELSE TokenReplies(authenticated))

VerdictsOf(p, good) ==
    {"error"} \cup   \* no discovery document, a bad invocation, junk on stdin
    {check(p, reply) : reply \in {f \in [Method -> Reply] :
        \A m \in Method : f[m] \in Replies(p, m, good)}}

\* What the validator can say of a credential the issuer accepts, or does not.
OidcVerdicts == [good \in BOOLEAN |-> UNION {VerdictsOf(p, good) : p \in Provider}]
=============================================================================

-------------------------------- MODULE SSO ---------------------------------
(***************************************************************************)
(* Signing in at a provider, while its configuration changes.              *)
(*                                                                         *)
(* /auth/{github,oidc}/login keeps state, nonce and verifier in cookies of *)
(* the browser and sends it to the provider; /auth/{github,oidc}/callback  *)
(* picks up the provider that is live then, redeems the code, and judges   *)
(* the person by that provider's allowed organization or mail domain, on   *)
(* every login.  Nothing about a login is kept in the process: it survives *)
(* a restart, a second login of the same browser overwrites it, and the    *)
(* answer may be opened late, twice, or elsewhere.                         *)
(***************************************************************************)
EXTENDS AuthConfig, Sequences

CONSTANTS
    Browsers,   \* browsers, each of one person with one account per provider
    Callbacks,  \* goroutines that serve callbacks
    Enrolled,   \* <<scope, b>>: whom the providers list to begin with
    MaxLogins   \* bound: how many logins are begun

ASSUME SSOAssumption ==
    /\ Browsers # {} /\ Enrolled \subseteq Scopes \X Browsers
    /\ MaxLogins \in Nat

VARIABLES
    logins,    \* logins[n]: who began login n, where it was sent, and whether its
               \* code has been redeemed
    cookie,    \* cookie[b][p]: the login whose cookies b holds for p, 0 if none
    listed,    \* the providers' lists: <<scope, b>> while b's person is a member
    linked,    \* <<p, b>>: users with an external_id
    call       \* call[c]: the local variables of a callback

ssoVars == <<logins, cookie, listed, linked, call>>
allVars == <<vars, ssoVars>>

AnyBrowser == CHOOSE b \in Browsers : TRUE
Login == [by : Browsers, provider : Providers, id : Ids \union {Blank},
          spent : BOOLEAN]
Call  == [at : {"idle", "exchange", "verify", "start"},
          login : 0..MaxLogins, browser : Browsers, od : Rows, barred : BOOLEAN]
NoCall == [at |-> "idle", login |-> 0, browser |-> AnyBrowser,
           od |-> Empty, barred |-> FALSE]

SSOInit ==
    /\ Init
    /\ logins = <<>>
    /\ cookie = [b \in Browsers |-> [p \in Providers |-> 0]]
    /\ listed = Enrolled /\ linked = {}
    /\ call = [c \in Callbacks |-> NoCall]

-----------------------------------------------------------------------------
(* The browsers and the providers.                                         *)

\* handleGithubLogin, handleOIDCLogin: 404 unless the provider is live.
BeginLogin(b, p) ==
    /\ up /\ live[p] # Empty /\ Len(logins) < MaxLogins
    /\ logins' = Append(logins, [by |-> b, provider |-> p, id |-> live[p].id,
                                 spent |-> FALSE])
    /\ cookie' = [cookie EXCEPT ![b][p] = Len(logins')]
    /\ UNCHANGED <<vars, listed, linked, call>>

\* A person is taken off an organization, or out of a mail domain.
Leaves(m) ==
    /\ listed' = listed \ {m}
    /\ UNCHANGED <<vars, logins, cookie, linked, call>>

-----------------------------------------------------------------------------
(* handleGithubCallback, handleOIDCCallback.                               *)

Kind(c)   == logins[call[c].login].provider
Person(c) == logins[call[c].login].by
OnList(c) == <<call[c].od.scope, Person(c)>> \in listed

\* The rows an administrator believes to be in force, when they can be known.
InForce(p) == IF p \in env THEN Env[p] ELSE confirmed[p]
Barred(p, b) ==
    /\ Free /\ p \notin unsure \union skewed
    /\ InForce(p).scope # Blank /\ <<InForce(p).scope, b>> \notin listed

SameState_Any(b, n) == cookie[b][logins[n].provider] # 0      \* a slip: not compared
SameState(b, n)     == cookie[b][logins[n].provider] = n

\* The live provider is loaded, and the state in the address is the cookie's.  The
\* answer of login n is opened in browser b.
Arrive(c, b, n) ==
    LET p == logins[n].provider
    IN  /\ up /\ call[c].at = "idle" /\ live[p] # Empty
        /\ SameState(b, n)
        /\ call' = [call EXCEPT ![c] = [at |-> "exchange", login |-> n, browser |-> b,
                        od |-> live[p], barred |-> Barred(p, logins[n].by)]]
        /\ UNCHANGED <<vars, logins, cookie, listed, linked>>

\* Whatever the answer, it clears the cookies, those of a later login included.
Reply(c) ==
    /\ call' = [call EXCEPT ![c] = NoCall]
    /\ cookie' = [cookie EXCEPT ![call[c].browser][Kind(c)] = 0]

Proceed(c, step) == call' = [call EXCEPT ![c].at = step] /\ UNCHANGED cookie

\* The allowed domain against the verified mail address in the ID token.
DomainAllowed(c) == Kind(c) = "github" \/ call[c].od.scope = Blank \/ OnList(c)

\* exchange, authenticate: the code is good once, for the client it was issued to.
\* The ID token holds the OIDC claims; they are judged at once.
Exchange(c) ==
    /\ call[c].at = "exchange"
    /\ \/ /\ ~logins[call[c].login].spent
          /\ logins[call[c].login].id = call[c].od.id
          /\ logins' = [logins EXCEPT ![call[c].login].spent = TRUE]
          /\ IF DomainAllowed(c) THEN Proceed(c, "verify") ELSE Reply(c)
       \/ Reply(c) /\ UNCHANGED logins
    /\ UNCHANGED <<vars, listed, linked>>

Subject(c) == <<Kind(c), Person(c)>>

\* GitHub: isOrgMember now, or without an organization an account.
Authorized_NewOnly(c) ==                  \* a slip: known accounts are not re-verified
    Kind(c) = "github" => Subject(c) \in linked \/ (call[c].od.scope # Blank /\ OnList(c))
Authorized(c) ==
    Kind(c) = "github" =>
        IF call[c].od.scope # Blank THEN OnList(c) ELSE Subject(c) \in linked

\* Who is authorized and new is provisioned.  Any of the calls may fail, CreateUser
\* also when another callback was first.
Verify(c) ==
    /\ call[c].at = "verify"
    /\ \/ /\ Authorized(c)
          /\ linked' = linked \union {Subject(c)}
          /\ Proceed(c, "start")
       \/ Reply(c) /\ UNCHANGED linked
    /\ UNCHANGED <<vars, logins, listed>>

\* startSession, for the account of the subject, in the browser that asks.
StartSession(c) ==
    /\ call[c].at = "start"
    /\ Reply(c)
    /\ UNCHANGED <<vars, logins, listed, linked>>

-----------------------------------------------------------------------------

Callback(c) ==
    \/ \E b \in Browsers, n \in DOMAIN logins : Arrive(c, b, n)
    \/ Exchange(c) \/ Verify(c) \/ StartSession(c)

\* The process goes on, or dies with its callbacks.
Server ==
    \/ /\ Start \/ \E q \in Saves : handleAuthConfigPost(q)
       /\ UNCHANGED ssoVars
    \/ /\ Crash /\ call' = [c \in Callbacks |-> NoCall]
       /\ UNCHANGED <<logins, cookie, listed, linked>>

SSONext ==
    \/ Server
    \/ \E b \in Browsers, p \in Providers : BeginLogin(b, p)
    \/ \E m \in listed : Leaves(m)
    \/ \E c \in Callbacks : Callback(c)

SSOSpec == SSOInit /\ [][SSONext]_allVars

-----------------------------------------------------------------------------
(* Properties.                                                             *)

\* Types.
SSOTypeOK ==
    /\ logins \in Seq(Login) /\ Len(logins) <= MaxLogins
    /\ cookie \in [Browsers -> [Providers -> 0..Len(logins)]]
    /\ listed \subseteq Scopes \X Browsers /\ linked \subseteq Providers \X Browsers
    /\ call \in [Callbacks -> Call]
    /\ \A c \in Callbacks : call[c].at # "idle" => call[c].login \in DOMAIN logins

\* The state binds an answer to the browser that began the login: whatever other
\* logins the two browsers have under way, and in whatever order their answers are
\* opened, late, again or in the other browser, nobody is signed in as someone else.
OwnBrowser ==
    \A c \in Callbacks : call[c].at = "start" => call[c].browser = Person(c)

\* "Authorization is re-verified on EVERY login" (server/oauth_github.go:225): who is
\* not on the list of the organization or domain that the last confirmed save put in
\* force (or the environment) when the callback begins gets no session, account or
\* not, even if saves are refused and rolled back and the process restarts in
\* between; errors the code ignores excepted.
ListHolds ==
    \A c \in Callbacks : call[c].at = "start" => ~call[c].barred
=============================================================================

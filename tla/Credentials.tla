------------------------------ MODULE Credentials ------------------------------
\* Credentials of the LLM providers: auth.json, read and rewritten whole by every
\* goroutine of the gateway whose token is about to expire and by the command
\* tinyclaw auth, without a lock; and the auth method that the command notes in
\* config.json. Source: pkg/auth, cmd/tinyclaw/internal/auth, and the token sources
\* of pkg/providers/{codex,antigravity}_provider.go. Access tokens are numbered as
\* they are issued and expire in that order; 0 never expires.
EXTENDS Naturals

CONSTANTS
  TokenUsers, \* goroutines that ask for a token
  AuthCli,    \* the command
  MaxIssued,  \* bound: tokens issued
  MaxLogins   \* bound: commands run

ASSUME UsersAssumption == AuthCli \notin TokenUsers

VARIABLES
  auth,       \* auth.json: [torn, creds]
  method,     \* auth method of each provider in config.json
  issued, near, \* tokens issued; the last one that is to be refreshed
  live,       \* refresh tokens the issuers accept
  cPc, own,   \* step of each actor; its [kind, name, cred, creds, stale]
  commands,   \* commands begun
  spoiled     \* history: a write that was stale, failed or cut short, or a lost answer

credVars == <<auth, method, issued, near, live, cPc, own, commands, spoiled>>
-----------------------------------------------------------------------------
Google == "google-antigravity"
Alias == "antigravity"
Providers == {"openai", "anthropic", Google}
OAuth == {"openai", Google}
Users == TokenUsers \cup {AuthCli}

NoCreds == [p \in {} |-> 0]
NoCred == [access |-> 0, refresh |-> 0, method |-> "token", project |-> FALSE]
NoWork == [kind |-> "none", name |-> "", cred |-> NoCred, creds |-> NoCreds, stale |-> FALSE]

\* authLoginCmd and isAntigravityModel know the short name; the store does not.
Canonical(name) == IF name = Alias THEN Google ELSE name

\* Within five minutes of its end. Such a token may have expired (IsExpired) too.
NeedsRefresh(c) == c.access # 0 /\ c.access <= near

\* Nobody is logged in, or the user is with OpenAI and with Google.
CredentialsInit ==
  /\ \E in \in {{}, OAuth} :
       LET id(p) == IF p = Google THEN 2 ELSE 1
       IN /\ auth = [torn |-> FALSE, creds |-> [p \in in |->
                       [access |-> id(p), refresh |-> id(p), method |-> "oauth", project |-> FALSE]]]
          /\ method = [p \in Providers |-> IF p \in in THEN "oauth" ELSE ""]
          /\ live = {id(p) : p \in in}
  /\ issued = 2 /\ near = 0
  /\ cPc = [u \in Users |-> "idle"] /\ own = [u \in Users |-> NoWork]
  /\ commands = 0 /\ spoiled = FALSE

Is(u, l) == cPc[u] = l
To(u, l) == cPc' = [cPc EXCEPT ![u] = l]
Returns(u) == To(u, "idle") /\ own' = [own EXCEPT ![u] = NoWork]
Issuer == <<issued, near, live>>
Disk == <<auth, method>>

\* A new access token, with or without a new refresh token.
Issue(u, old, rotates, project) ==
  LET r == IF rotates THEN issued + 1 ELSE old
  IN /\ issued' = issued + 1
     /\ live' = IF rotates THEN (live \ {old}) \cup {r} ELSE live
     /\ own' = [own EXCEPT ![u].cred =
                  [access |-> issued + 1, refresh |-> r, method |-> "oauth", project |-> project]]
     /\ UNCHANGED near
-----------------------------------------------------------------------------
\* auth.json. SetCredential and DeleteCredential load it, change it and write it in
\* place.

\* Mutant: what cannot be read counts as empty.
LoadStoreLenient(u) ==
  /\ Is(u, "load")
  /\ own' = [own EXCEPT ![u].creds = IF auth.torn THEN NoCreds ELSE auth.creds,
                        ![u].stale = @ /\ own[u].kind = "source"]
  /\ To(u, "save") /\ UNCHANGED <<Disk, Issuer, commands, spoiled>>

LoadStore(u) ==
  /\ Is(u, "load")
  /\ IF auth.torn
     THEN Returns(u) /\ spoiled' = TRUE
     ELSE /\ own' = [own EXCEPT ![u].creds = auth.creds, ![u].stale = @ /\ own[u].kind = "source"]
          /\ To(u, "save") /\ UNCHANGED spoiled
  /\ UNCHANGED <<Disk, Issuer, commands>>

\* os.WriteFile truncates and then writes; it may fail at once.
Truncate(u) ==
  /\ Is(u, "save")
  /\ \/ /\ auth' = [auth EXCEPT !.torn = TRUE] /\ To(u, "write") /\ UNCHANGED <<own, spoiled>>
     \/ /\ Returns(u) /\ spoiled' = TRUE /\ UNCHANGED auth
  /\ UNCHANGED <<method, Issuer, commands>>

\* A change of the file makes what others have read from it out of date.
Outdated == [u \in Users |-> [own[u] EXCEPT !.stale = own[u].kind # "none"]]

Changed(w) ==
  IF w.kind = "logout" THEN [p \in DOMAIN w.creds \ {w.name} |-> w.creds[p]]
  ELSE [p \in DOMAIN w.creds \cup {Canonical(w.name)} |-> IF p = Canonical(w.name) THEN w.cred ELSE w.creds[p]]

\* A write by one who saw an older file undoes what came between.
WriteStore(u) ==
  /\ Is(u, "write")
  /\ auth' = [torn |-> FALSE, creds |-> Changed(own[u])]
  /\ spoiled' = (spoiled \/ own[u].stale)
  /\ To(u, IF own[u].kind \in {"login", "logout"} THEN "config" ELSE "use")
  /\ own' = [Outdated EXCEPT ![u].creds = NoCreds, ![u].stale = FALSE]
  /\ UNCHANGED <<method, Issuer, commands>>
-----------------------------------------------------------------------------
\* The token sources, and authModelsCmd, which does the same for Google.

GetCredential(u, p) ==
  /\ Is(u, "idle") /\ ~auth.torn /\ p \in DOMAIN auth.creds
  /\ own' = [own EXCEPT ![u] = [NoWork EXCEPT !.kind = "source", !.name = p, !.cred = auth.creds[p]]]
  /\ To(u, IF NeedsRefresh(auth.creds[p]) /\ auth.creds[p].refresh # 0 THEN "refresh" ELSE "use")
  /\ UNCHANGED <<Disk, Issuer, spoiled>>

TokenAsked(g) == (\E p \in OAuth : GetCredential(g, p)) /\ UNCHANGED commands
AuthModels == commands < MaxLogins /\ GetCredential(AuthCli, Google) /\ commands' = commands + 1

\* RefreshAccessToken: refused if the refresh token was used before; the issuer
\* may rotate it; the answer may be lost on the way.
RefreshAccessToken(u) ==
  /\ Is(u, "refresh") /\ issued < MaxIssued
  /\ own[u].cred.refresh \in live
  /\ \E rotates \in BOOLEAN : Issue(u, own[u].cred.refresh, rotates, own[u].cred.project)
  /\ To(u, "load") /\ UNCHANGED <<Disk, commands, spoiled>>

RefreshLost(u) ==
  /\ Is(u, "refresh") /\ own[u].cred.refresh \in live
  /\ live' = live \ {own[u].cred.refresh}
  /\ spoiled' = TRUE /\ Returns(u)
  /\ UNCHANGED <<Disk, issued, near, commands>>

RefreshFails(u) == Is(u, "refresh") /\ Returns(u) /\ UNCHANGED <<Disk, Issuer, commands, spoiled>>

\* The token is used, or refused if it has expired; Google's project is looked up
\* and stored if it is not known yet.
UseToken(u) ==
  /\ Is(u, "use")
  /\ \/ Returns(u)
     \/ /\ own[u].name = Google /\ ~own[u].cred.project /\ u \in TokenUsers
        /\ own' = [own EXCEPT ![u].cred.project = TRUE] /\ To(u, "load")
  /\ UNCHANGED <<Disk, Issuer, commands, spoiled>>
-----------------------------------------------------------------------------
\* The command.

CommandBegins(kind, name, l) ==
  /\ Is(AuthCli, "idle") /\ commands < MaxLogins /\ commands' = commands + 1
  /\ own' = [own EXCEPT ![AuthCli] = [NoWork EXCEPT !.kind = kind, !.name = name]]
  /\ To(AuthCli, l) /\ UNCHANGED <<Disk, Issuer, spoiled>>

\* LoginBrowser waits for the callback, a pasted address or five minutes;
\* LoginDeviceCode polls for fifteen; a token is pasted.
AuthLogin ==
  \/ \E name \in OAuth \cup {Alias} : CommandBegins("login", name, "browser")
  \/ CommandBegins("login", "openai", "device")
  \/ CommandBegins("login", "anthropic", "paste")

LoginGivenUp == \E l \in {"browser", "device", "paste"} :
  Is(AuthCli, l) /\ Returns(AuthCli) /\ UNCHANGED <<Disk, Issuer, commands, spoiled>>

PollDeviceCode == Is(AuthCli, "device") /\ To(AuthCli, "exchange") /\ UNCHANGED <<Disk, Issuer, own, commands, spoiled>>

\* The callback with the state that was sent and a code, or a pasted code.
CallbackCode == Is(AuthCli, "browser") /\ To(AuthCli, "exchange") /\ UNCHANGED <<Disk, Issuer, own, commands, spoiled>>

\* exchangeCodeForTokens, for Google with the user's project if it is found. A
\* device login that gets no token goes on polling.
ExchangeCodeForTokens ==
  /\ Is(AuthCli, "exchange")
  /\ \/ /\ issued < MaxIssued
        /\ \E found \in BOOLEAN : Issue(AuthCli, 0, TRUE, found /\ Canonical(own[AuthCli].name) = Google)
        /\ To(AuthCli, "load")
     \/ /\ own[AuthCli].name = "openai" /\ To(AuthCli, "device") /\ UNCHANGED <<Issuer, own>>
     \/ Returns(AuthCli) /\ UNCHANGED Issuer
  /\ UNCHANGED <<Disk, commands, spoiled>>

LoginPasteToken == Is(AuthCli, "paste") /\ To(AuthCli, "load") /\ UNCHANGED <<Disk, Issuer, own, commands, spoiled>>

AuthLogout == \E name \in Providers \cup {Alias} : CommandBegins("logout", name, "load")

DeleteAllCredentials ==
  /\ Is(AuthCli, "idle") /\ commands < MaxLogins /\ commands' = commands + 1
  /\ auth' = [torn |-> FALSE, creds |-> NoCreds]
  /\ own' = [Outdated EXCEPT ![AuthCli] = [NoWork EXCEPT !.kind = "logoutAll"]]
  /\ To(AuthCli, "config") /\ UNCHANGED <<method, Issuer, spoiled>>

\* The configuration follows: for the provider, or for all; unless it cannot be
\* loaded or saved.
UpdateConfig ==
  /\ Is(AuthCli, "config")
  /\ LET w == own[AuthCli]
     IN \/ /\ method' = [p \in Providers |->
                CASE w.kind = "logoutAll" -> ""
                  [] p = Canonical(w.name) /\ w.kind = "logout" -> ""
                  [] p = Canonical(w.name) /\ w.kind = "login" -> w.cred.method
                  [] OTHER -> method[p]]
           /\ UNCHANGED spoiled
        \/ spoiled' = TRUE /\ UNCHANGED method
  /\ Returns(AuthCli) /\ UNCHANGED <<auth, Issuer, commands>>
-----------------------------------------------------------------------------
\* Time passes: the oldest token comes near its end.
TokenAges ==
  /\ near < issued /\ near' = near + 1
  /\ UNCHANGED <<Disk, issued, live, cPc, own, commands, spoiled>>

\* The gateway or the command dies, perhaps between the two halves of a write.
ProcessDies ==
  /\ \E gone \in {TokenUsers, {AuthCli}} :
       /\ \E u \in gone : ~Is(u, "idle")
       /\ spoiled' = (spoiled \/ \E u \in gone : cPc[u] \in {"load", "save", "write", "config"})
       /\ cPc' = [u \in Users |-> IF u \in gone THEN "idle" ELSE cPc[u]]
       /\ own' = [u \in Users |-> IF u \in gone THEN NoWork ELSE own[u]]
  /\ UNCHANGED <<Disk, Issuer, commands>>

CredentialsNext ==
  \/ \E g \in TokenUsers : TokenAsked(g)
  \/ \E u \in Users : \/ LoadStore(u) \/ Truncate(u) \/ WriteStore(u) \/ UseToken(u)
                      \/ RefreshAccessToken(u) \/ RefreshLost(u) \/ RefreshFails(u)
  \/ AuthModels \/ AuthLogin \/ LoginGivenUp \/ CallbackCode \/ PollDeviceCode \/ ExchangeCodeForTokens
  \/ LoginPasteToken \/ AuthLogout \/ DeleteAllCredentials \/ UpdateConfig
  \/ TokenAges \/ ProcessDies

CredentialsSpec == CredentialsInit /\ [][CredentialsNext]_credVars
-----------------------------------------------------------------------------
\* Unless a write was stale or failed, a process died on the way or an answer was
\* lost: the file can be read when nobody writes it; a refresh token in it, and not
\* just replaced, is one that the issuer accepts; and with no command under way
\* the configuration names a method exactly for the providers with credentials (but
\* that a logout by the short name leaves Google's).
LoginsAreKept ==
  ~spoiled =>
    /\ auth.torn => \E u \in Users : Is(u, "write")
    /\ \A p \in DOMAIN auth.creds : auth.creds[p].refresh \in live \cup {0}
         \/ \E u \in Users : Canonical(own[u].name) = p /\ cPc[u] \in {"load", "save", "write"}
    /\ Is(AuthCli, "idle") =>
         \A p \in Providers : /\ method[p] # "" => p \in DOMAIN auth.creds
                              /\ p \in DOMAIN auth.creds /\ p # Google => method[p] = auth.creds[p].method
================================================================================

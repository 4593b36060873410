------------------------------ MODULE Accounts ------------------------------
(***************************************************************************)
(* Accounts, profiles and connections: routes/connections.ts over           *)
(* services/connection.service.ts, with the checks of plugins/auth.ts.      *)
(* A request is one call of the metadata database at a time; between two    *)
(* calls (a bcrypt hash, a probe of the server, a round trip) others run.   *)
(* A token is believed for seven days and never looked up: it carries the   *)
(* role and the profile the account had when it was signed.                 *)
(* An account is the row of its email; ids are given once, emails are not.  *)
(***************************************************************************)
EXTENDS Integers, FiniteSets

CONSTANTS
  Caller,        \* requests that may run at once
  Email,
  Profile,       \* the ids profiles are given, each once
  Conn,          \* the ids connections are given, each once
  NoOne, Unused, Gone,
  MaxAccounts,   \* bound: accounts ever made
  MaxRequests    \* bound: requests that write

ASSUME BoundsAssumption == MaxAccounts \in Nat /\ MaxRequests \in Nat

VARIABLES
  users,      \* Email -> the account, or NoOne
  profiles,   \* Profile -> Unused, Gone, or the id of its admin's account
  conns,      \* Conn -> Unused, Gone, or the row
  tokens,     \* the tokens that were signed and have not expired
  request,    \* Caller -> what its request does next
  made,       \* accounts made so far; the next one's id
  served      \* requests begun so far

accountVars == <<users, profiles, conns, tokens, request, made, served>>

Id == 0 .. MaxAccounts
Token == [role : {"superadmin", "admin", "viewer"}, profile : Profile \cup {NoOne}]
Account == [id : Id, role : {"superadmin", "admin", "viewer"}, profile : Profile \cup {NoOne}]
\* readOnly is one of the fields an update may set; probed, whether the version,
\* topology and metadata were refreshed since the row was made.
Row == [profile : Profile, readOnly : BOOLEAN, probed : BOOLEAN]

\* What a request still has to do, with what it has read or was asked for.
Request ==
  [at : {"idle"}]
  \cup [at : {"sign"}, email : Email, id : Id, as : Token]
  \cup [at : {"register", "admin"}, email : Email]
  \cup [at : {"profile"}, email : Email, id : Id]
  \cup [at : {"link"}, email : Email, id : Id, profile : Profile]
  \cup [at : {"unprofile"}, profile : Profile]
  \cup [at : {"invite"}, email : Email, profile : Profile]
  \cup [at : {"probe"}, as : Token]
  \cup [at : {"update", "delete", "read", "test", "explore"}, as : Token, conn : Conn]
  \cup [at : {"reply"}, as : Token, profile : Profile]

ASSUME AccountsAssumption ==
  /\ NoOne \notin Profile /\ NoOne \notin Account
  /\ Unused # Gone /\ {Unused, Gone} \cap (Id \cup Row) = {}

Here == {p \in Profile : profiles[p] \notin {Unused, Gone}}
Stored == {k \in Conn : conns[k] \notin {Unused, Gone}}
Idle == [at |-> "idle"]

AccountsInit ==
  /\ users = [e \in Email |-> NoOne]
  /\ profiles = [p \in Profile |-> Unused]
  /\ conns = [k \in Conn |-> Unused]
  /\ tokens = {}
  /\ request = [c \in Caller |-> Idle]
  /\ made = 0
  /\ served = 0

-----------------------------------------------------------------------------
(* plugins/auth.ts *)
requireAdmin(t) == t.role # "viewer"
requireSuperAdmin(t) == t.role = "superadmin"
\* What profileScope lets a token reach; it throws for one without a profile.
profileScope(t, p) == t.role = "superadmin" \/ (t.profile # NoOne /\ t.profile = p)

Ask(c, r) ==
  /\ request[c].at = "idle" /\ served < MaxRequests
  /\ served' = served + 1
  /\ request' = [request EXCEPT ![c] = r]

Ends(c) == request' = [request EXCEPT ![c] = Idle]
Goes(c, r) == request' = [request EXCEPT ![c] = r]

AddAccount(e, role, p) ==
  /\ made < MaxAccounts
  /\ users' = [users EXCEPT ![e] = [id |-> made, role |-> role, profile |-> p]]
  /\ made' = made + 1

-----------------------------------------------------------------------------
(* Signing in and the first account *)
LoginRead(c, e) ==
  /\ users[e] # NoOne
  /\ Ask(c, [at |-> "sign", email |-> e, id |-> users[e].id,
             as |-> [role |-> users[e].role, profile |-> users[e].profile]])
  /\ UNCHANGED <<users, profiles, conns, tokens, made>>

\* lastLoginAt is set before the token is signed; a row that is gone throws.
LoginSign(c) ==
  LET r == request[c] IN
  /\ r.at = "sign"
  /\ tokens' = IF users[r.email] # NoOne /\ users[r.email].id = r.id
               THEN tokens \cup {r.as} ELSE tokens
  /\ Ends(c)
  /\ UNCHANGED <<users, profiles, conns, made, served>>

RegisterCount(c, e) ==
  /\ \A f \in Email : users[f] = NoOne
  /\ Ask(c, [at |-> "register", email |-> e])
  /\ UNCHANGED <<users, profiles, conns, tokens, made>>

RegisterCreate(c) ==
  /\ request[c].at = "register"
  /\ IF users[request[c].email] = NoOne
     THEN /\ AddAccount(request[c].email, "superadmin", NoOne)
          /\ tokens' = tokens \cup {[role |-> "superadmin", profile |-> NoOne]}
     ELSE UNCHANGED <<users, made, tokens>>
  /\ Ends(c)
  /\ UNCHANGED <<profiles, conns, served>>

TokenExpires(t) ==
  /\ t \in tokens
  /\ tokens' = tokens \ {t}
  /\ UNCHANGED <<users, profiles, conns, request, made, served>>

-----------------------------------------------------------------------------
(* Profiles: made and deleted in several calls that no transaction joins *)
ProfileAsked(c, t, e) ==
  /\ requireSuperAdmin(t)
  /\ Ask(c, [at |-> "admin", email |-> e])
  /\ UNCHANGED <<users, profiles, conns, tokens, made>>

ProfileAdmin(c) ==
  LET e == request[c].email IN
  /\ request[c].at = "admin"
  /\ IF users[e] = NoOne
     THEN AddAccount(e, "admin", NoOne) /\ Goes(c, [at |-> "profile", email |-> e, id |-> made])
     ELSE UNCHANGED <<users, made>> /\ Ends(c)
  /\ UNCHANGED <<profiles, conns, tokens, served>>

ProfileCreate(c, p) ==
  LET r == request[c] IN
  /\ r.at = "profile" /\ profiles[p] = Unused
  /\ profiles' = [profiles EXCEPT ![p] = r.id]
  /\ Goes(c, [at |-> "link", email |-> r.email, id |-> r.id, profile |-> p])
  /\ UNCHANGED <<users, conns, tokens, made, served>>

\* Mutant of ProfileLink: the account is found by its email.
ProfileLinkByEmail(c) ==
  LET r == request[c] IN
  /\ r.at = "link"
  /\ users' = IF users[r.email] # NoOne
              THEN [users EXCEPT ![r.email].profile = r.profile] ELSE users
  /\ Ends(c)
  /\ UNCHANGED <<profiles, conns, tokens, made, served>>

\* The update throws when the account, or the profile it is to refer to, is gone.
ProfileLink(c) ==
  LET r == request[c] IN
  /\ r.at = "link"
  /\ users' = IF users[r.email] # NoOne /\ users[r.email].id = r.id /\ r.profile \in Here
              THEN [users EXCEPT ![r.email].profile = r.profile] ELSE users
  /\ Ends(c)
  /\ UNCHANGED <<profiles, conns, tokens, made, served>>

ProfileEmptied(c, t, p) ==
  /\ requireSuperAdmin(t) /\ p \in Here
  /\ Ask(c, [at |-> "unprofile", profile |-> p])
  /\ users' = [e \in Email |-> IF users[e] # NoOne /\ users[e].profile = p THEN NoOne ELSE users[e]]
  /\ UNCHANGED <<profiles, conns, tokens, made>>

\* Connections hold on to their profile (the delete throws, the users are gone);
\* an account invited meanwhile loses its profile instead.
ProfileDeleted(c) ==
  LET p == request[c].profile IN
  /\ request[c].at = "unprofile"
  /\ IF p \in Here /\ \A k \in Stored : conns[k].profile # p
     THEN /\ profiles' = [profiles EXCEPT ![p] = Gone]
          /\ users' = [e \in Email |-> IF users[e] # NoOne /\ users[e].profile = p
                                       THEN [users[e] EXCEPT !.profile = NoOne] ELSE users[e]]
     ELSE UNCHANGED <<profiles, users>>
  /\ Ends(c)
  /\ UNCHANGED <<conns, tokens, made, served>>

-----------------------------------------------------------------------------
(* Viewers *)
OwnProfile(t, p) == requireAdmin(t) /\ (t.role = "admin" => t.profile = p)

InviteAsked(c, t, e, p) ==
  /\ OwnProfile(t, p)
  /\ Ask(c, [at |-> "invite", email |-> e, profile |-> p])
  /\ UNCHANGED <<users, profiles, conns, tokens, made>>

InviteCreate(c) ==
  LET r == request[c] IN
  /\ r.at = "invite"
  /\ IF users[r.email] = NoOne /\ r.profile \in Here
     THEN AddAccount(r.email, "viewer", r.profile)
     ELSE UNCHANGED <<users, made>>
  /\ Ends(c)
  /\ UNCHANGED <<profiles, conns, tokens, served>>

ViewerDeleted(t, e, p) ==
  /\ OwnProfile(t, p) /\ served < MaxRequests
  /\ users[e] # NoOne /\ users[e].profile = p /\ users[e].role = "viewer"
  /\ users' = [users EXCEPT ![e] = NoOne]
  /\ served' = served + 1
  /\ UNCHANGED <<profiles, conns, tokens, request, made>>

\* The settings route asks for a token and for no role.
UserDeleted(t, e) ==
  /\ t \in tokens /\ served < MaxRequests
  /\ users[e] # NoOne
  /\ users' = [users EXCEPT ![e] = NoOne]
  /\ served' = served + 1
  /\ UNCHANGED <<profiles, conns, tokens, request, made>>

-----------------------------------------------------------------------------
(* Connections *)
ConnectionAsked(c, t) ==
  /\ requireAdmin(t) /\ t.profile # NoOne
  /\ Ask(c, [at |-> "probe", as |-> t])
  /\ UNCHANGED <<users, profiles, conns, tokens, made>>

\* The probe has succeeded; the row needs its profile.
ConnectionCreate(c, k) ==
  LET p == request[c].as.profile IN
  /\ request[c].at = "probe" /\ conns[k] = Unused
  /\ conns' = IF p \in Here THEN [conns EXCEPT ![k] = [profile |-> p, readOnly |-> FALSE, probed |-> FALSE]] ELSE conns
  /\ Ends(c)
  /\ UNCHANGED <<users, profiles, tokens, made, served>>

ProbeFails(c) ==
  /\ request[c].at \in {"probe", "test"}
  /\ Ends(c)
  /\ UNCHANGED <<users, profiles, conns, tokens, made, served>>

ConnectionFound(c, t, k, at) ==
  /\ requireAdmin(t) /\ k \in Stored
  /\ profileScope(t, conns[k].profile)
  /\ Ask(c, [at |-> at, as |-> t, conn |-> k])
  /\ UNCHANGED <<users, profiles, conns, tokens, made>>

ConnectionUpdate(c) ==
  LET k == request[c].conn IN
  /\ request[c].at = "update"
  /\ conns' = IF k \in Stored THEN [conns EXCEPT ![k].readOnly = TRUE] ELSE conns
  /\ Ends(c)
  /\ UNCHANGED <<users, profiles, tokens, made, served>>

ConnectionDelete(c) ==
  LET k == request[c].conn IN
  /\ request[c].at = "delete"
  /\ conns' = IF k \in Stored THEN [conns EXCEPT ![k] = Gone] ELSE conns
  /\ Ends(c)
  /\ UNCHANGED <<users, profiles, tokens, made, served>>

\* The schema, databases, rows and snapshot routes: any role, in its scope.
ReadAsked(c, t, k) ==
  /\ k \in Stored /\ profileScope(t, conns[k].profile)
  /\ Ask(c, [at |-> "read", as |-> t, conn |-> k])
  /\ UNCHANGED <<users, profiles, conns, tokens, made>>

\* The service looks the connection up once more, by its id; a row that is gone throws.
ReadOpens(c) ==
  /\ request[c].at = "read"
  /\ Goes(c, IF request[c].conn \in Stored
             THEN [at |-> "reply", as |-> request[c].as, profile |-> conns[request[c].conn].profile]
             ELSE Idle)
  /\ UNCHANGED <<users, profiles, conns, tokens, made, served>>

ReadReplies(c) ==
  /\ request[c].at \in {"reply", "explore"} /\ Ends(c)
  /\ UNCHANGED <<users, profiles, conns, tokens, made, served>>

\* testConnection looks at no role and no profile, nor do the routes of the
\* explorer, the monitor and the exports: the connection is found by its id.
FoundById(c, t, k, at) ==
  /\ t \in tokens /\ k \in Stored
  /\ Ask(c, [at |-> at, as |-> t, conn |-> k])
  /\ UNCHANGED <<users, profiles, conns, tokens, made>>

\* The probe has succeeded; a row that is gone throws.
TestSaved(c) ==
  LET k == request[c].conn IN
  /\ request[c].at = "test"
  /\ conns' = IF k \in Stored THEN [conns EXCEPT ![k].probed = TRUE] ELSE conns
  /\ Ends(c)
  /\ UNCHANGED <<users, profiles, tokens, made, served>>

\* shutdown, or the process dies, with requests between two of their calls.
ProcessEnds ==
  /\ \E c \in Caller : request[c].at # "idle"
  /\ request' = [c \in Caller |-> Idle]
  /\ UNCHANGED <<users, profiles, conns, tokens, made, served>>

AccountsNext ==
  \/ \E t \in tokens :
       \/ TokenExpires(t)
       \/ \E c \in Caller, e \in Email : ProfileAsked(c, t, e)
       \/ \E c \in Caller, p \in Profile : ProfileEmptied(c, t, p)
       \/ \E c \in Caller, e \in Email, p \in Profile : InviteAsked(c, t, e, p)
       \/ \E e \in Email, p \in Profile : ViewerDeleted(t, e, p)
       \/ \E e \in Email : UserDeleted(t, e)
       \/ \E c \in Caller : ConnectionAsked(c, t)
       \/ \E c \in Caller, k \in Conn, at \in {"update", "delete"} : ConnectionFound(c, t, k, at)
       \/ \E c \in Caller, k \in Conn : ReadAsked(c, t, k)
       \/ \E c \in Caller, k \in Conn, at \in {"test", "explore"} : FoundById(c, t, k, at)
  \/ \E c \in Caller :
       \/ \E e \in Email : LoginRead(c, e) \/ RegisterCount(c, e)
       \/ LoginSign(c) \/ RegisterCreate(c)
       \/ ProfileAdmin(c) \/ ProfileLink(c) \/ ProfileDeleted(c) \/ InviteCreate(c)
       \/ \E p \in Profile : ProfileCreate(c, p)
       \/ \E k \in Conn : ConnectionCreate(c, k)
       \/ ProbeFails(c) \/ ConnectionUpdate(c) \/ ConnectionDelete(c) \/ TestSaved(c)
       \/ ReadOpens(c) \/ ReadReplies(c)
  \/ ProcessEnds

AccountsSpec == AccountsInit /\ [][AccountsNext]_accountVars

-----------------------------------------------------------------------------
AccountsTypeOK ==
  /\ users \in [Email -> Account \cup {NoOne}]
  /\ profiles \in [Profile -> Id \cup {Unused, Gone}]
  /\ conns \in [Conn -> Row \cup {Unused, Gone}]
  /\ tokens \subseteq Token
  /\ request \in [Caller -> Request]
  /\ made \in Id /\ served \in 0 .. MaxRequests

(* Accounts and connections belong to profiles that are there, and an admin *)
(* to the one it was made for, whichever calls of a creation or a deletion  *)
(* were cut off or overtaken (the account a cut-off creation leaves has no  *)
(* profile).                                                                *)
Placed ==
  /\ \A k \in Stored : conns[k].profile \in Here
  /\ \A e \in Email : users[e] # NoOne =>
       /\ users[e].profile # NoOne => users[e].profile \in Here /\ users[e].role # "superadmin"
       /\ users[e].role = "admin" /\ users[e].profile # NoOne =>
            profiles[users[e].profile] = users[e].id

\* What a connection is, whatever the last probe of its server found.
Registered(k) ==
  IF k \in Stored THEN [profile |-> conns[k].profile, readOnly |-> conns[k].readOnly] ELSE conns[k]

(* A connection is made, changed and deleted for a request whose token is no *)
(* viewer's and is a superadmin's or of that profile, although it is found   *)
(* and written in two calls; and it never moves to another profile.  (What   *)
(* the probe found is written for any token: POST /:id/test.)                *)
Scoped ==
  \A k \in Conn : Registered(k)' # Registered(k) =>
    \E c \in Caller :
      /\ request'[c] # request[c]
      /\ requireAdmin(request[c].as)
      /\ profileScope(request[c].as, IF k \in Stored THEN conns[k].profile ELSE conns'[k].profile)
      /\ k \in Stored /\ k \in Stored' => conns'[k].profile = conns[k].profile

(* What a read by the routes of connections.ts returns is of a profile its   *)
(* token reaches, although the second lookup of the connection is by its id  *)
(* alone.  (It is not said of "explore": those routes ask for a token only.) *)
RepliesInScope ==
  \A c \in Caller : request[c].at = "reply" => profileScope(request[c].as, request[c].profile)

(* Profiles are kept apart where routes/connections.ts scopes a request: what *)
(* is made, updated, deleted and read through it.                            *)
ProfilesApart == [](Placed /\ RepliesInScope) /\ [][Scoped]_accountVars
=============================================================================

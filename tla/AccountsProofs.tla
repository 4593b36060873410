--------------------------- MODULE AccountsProofs ---------------------------
(***************************************************************************)
(* Profiles are kept apart by routes/connections.ts, for any callers,        *)
(* emails, profiles, connections and bounds.  What a request does next was   *)
(* decided earlier, so the invariant says what is still true of it: whom it  *)
(* acts for, the account it made, the profile it made for it, the connection *)
(* it found.                                                                 *)
(***************************************************************************)
EXTENDS Accounts, TLAPS

\* What the calls of one request have established for those to come.
InFlight(r) ==
  /\ r.at \in {"profile", "link"} =>
       /\ r.id < made
       /\ users[r.email] # NoOne /\ users[r.email].id = r.id => users[r.email].role = "admin"
  /\ r.at = "link" => profiles[r.profile] \in {r.id, Gone}
  /\ r.at = "probe" => requireAdmin(r.as)
  /\ r.at \in {"update", "delete", "read"} =>
       /\ conns[r.conn] # Unused
       /\ r.conn \in Stored => profileScope(r.as, conns[r.conn].profile)
  /\ r.at \in {"update", "delete"} => requireAdmin(r.as)
  /\ r.at = "reply" => profileScope(r.as, r.profile)

RequestsInv == \A c \in Caller : InFlight(request[c])
IdsInv == \A e \in Email : users[e] # NoOne => users[e].id < made

AccountsInv == AccountsTypeOK /\ Placed /\ IdsInv /\ RequestsInv

-----------------------------------------------------------------------------
(* Requests as records. *)

\* What a request holds, by what it does next.
LEMMA RequestFields ==
  ASSUME NEW r \in Request
  PROVE  /\ r.at \in {"idle", "sign", "register", "admin", "profile", "link", "unprofile", "invite",
                      "probe", "update", "delete", "read", "test", "explore", "reply"}
         /\ r.at \in {"sign", "register", "admin", "profile", "link", "invite"} => r.email \in Email
         /\ r.at \in {"sign", "profile", "link"} => r.id \in Id
         /\ r.at \in {"link", "unprofile", "invite", "reply"} => r.profile \in Profile
         /\ r.at \in {"sign", "probe", "update", "delete", "read", "test", "explore", "reply"} => r.as \in Token
         /\ r.at \in {"update", "delete", "read", "test", "explore"} => r.conn \in Conn
  BY DEF Request

\* The requests the routes make.
LEMMA RequestMade ==
  ASSUME NEW e \in Email, NEW i \in Id, NEW t \in Token, NEW p \in Profile, NEW k \in Conn
  PROVE  /\ [at |-> "sign", email |-> e, id |-> i, as |-> t] \in Request
         /\ [at |-> "profile", email |-> e, id |-> i] \in Request
         /\ [at |-> "link", email |-> e, id |-> i, profile |-> p] \in Request
         /\ \A a \in {"register", "admin"} : [at |-> a, email |-> e] \in Request
         /\ [at |-> "invite", email |-> e, profile |-> p] \in Request
         /\ [at |-> "unprofile", profile |-> p] \in Request
         /\ [at |-> "probe", as |-> t] \in Request
         /\ \A a \in {"update", "delete", "read", "test", "explore"} : [at |-> a, as |-> t, conn |-> k] \in Request
         /\ [at |-> "reply", as |-> t, profile |-> p] \in Request
  BY DEF Request

LEMMA IdleMade == Idle \in Request /\ InFlight(Idle) /\ Idle.at = "idle"
  BY DEF Idle, Request, InFlight

-----------------------------------------------------------------------------
(* What a step may do to the rows while a request waits. *)

\* An account stays itself, or is one that has just been made.
AccountsStay == \A e \in Email : users'[e] # NoOne =>
  \/ users[e] # NoOne /\ users'[e].id = users[e].id /\ users'[e].role = users[e].role
  \/ users'[e].id >= made
\* A profile is made once and deleted once; so is a connection, which keeps its profile.
ProfilesStay == \A p \in Profile :
  profiles'[p] = profiles[p] \/ profiles[p] = Unused \/ profiles'[p] = Gone
ConnsStay == \A k \in Conn :
  \/ conns'[k] = conns[k] \/ conns[k] = Unused \/ conns'[k] = Gone
  \/ (k \in Stored /\ k \in Stored' /\ conns'[k].profile = conns[k].profile)

LEMMA Waits ==
  ASSUME NEW r \in Request, InFlight(r), AccountsStay, ProfilesStay, ConnsStay,
         made \in Int, made' \in Int, made <= made'
  PROVE  InFlight(r)'
<1>1. r.at \in {"profile", "link"} =>
        /\ r.id < made'
        /\ users'[r.email] # NoOne /\ users'[r.email].id = r.id => users'[r.email].role = "admin"
  <2>1. SUFFICES ASSUME r.at \in {"profile", "link"}
                 PROVE  /\ r.id < made'
                        /\ users'[r.email] # NoOne /\ users'[r.email].id = r.id
                             => users'[r.email].role = "admin"
    OBVIOUS
  <2>2. r.email \in Email /\ r.id \in Int
    BY <2>1, RequestFields DEF Id
  <2> QED BY <2>1, <2>2 DEF InFlight, AccountsStay
<1>2. r.at = "link" => profiles'[r.profile] \in {r.id, Gone}
  <2>1. r.at = "link" => r.profile \in Profile /\ r.id \in Id
    BY RequestFields
  <2> QED BY <2>1, AccountsAssumption DEF InFlight, ProfilesStay
<1>3. r.at \in {"update", "delete", "read"} =>
        /\ conns'[r.conn] # Unused
        /\ r.conn \in Stored' => profileScope(r.as, conns'[r.conn].profile)
  <2>1. r.at \in {"update", "delete", "read"} => r.conn \in Conn
    BY RequestFields
  <2> QED BY <2>1, AccountsAssumption DEF InFlight, ConnsStay, Stored
<1> QED BY <1>1, <1>2, <1>3 DEF InFlight, requireAdmin, profileScope, Stored

\* A request goes on to a call that is right, or none does.
NextCall ==
  \/ request' = request
  \/ \E c \in Caller, r \in Request : InFlight(r)' /\ request' = [request EXCEPT ![c] = r]

\* The requests that wait are still right, and the one that goes on is if its next call is.
LEMMA RequestsKept ==
  ASSUME AccountsInv, NextCall, AccountsStay, ProfilesStay, ConnsStay,
         made' \in Int, made <= made'
  PROVE  RequestsInv' /\ request' \in [Caller -> Request]
<1>1. request \in [Caller -> Request] /\ made \in Int
  BY BoundsAssumption DEF AccountsInv, AccountsTypeOK, Id
<1>2. \A d \in Caller : InFlight(request[d])'
  <2>1. SUFFICES ASSUME NEW d \in Caller PROVE InFlight(request[d])'
    OBVIOUS
  <2>2. CASE request'[d] = request[d]
    <3>1. request[d] \in Request /\ InFlight(request[d])
      BY <1>1 DEF AccountsInv, RequestsInv
    <3> QED BY <1>1, <2>2, <3>1, Waits DEF InFlight
  <2>3. CASE request'[d] # request[d]
    <3>1. PICK c \in Caller, r \in Request :
            InFlight(r)' /\ request' = [request EXCEPT ![c] = r]
      BY <2>3 DEF NextCall
    <3>2. request'[d] = r
      BY <1>1, <2>3, <3>1
    <3> QED BY <3>1, <3>2 DEF InFlight
  <2> QED BY <2>2, <2>3
<1> QED BY <1>1, <1>2 DEF RequestsInv, NextCall

-----------------------------------------------------------------------------
(* What the actions have in common: which rows they touch. *)

Signed == tokens' \subseteq Token /\ served' \in 0 .. MaxRequests

\* No row is touched.
LEMMA RowsAlone ==
  ASSUME AccountsInv, NextCall, Signed, UNCHANGED <<users, profiles, conns, made>>
  PROVE  AccountsInv'
<1>1. AccountsStay /\ ProfilesStay /\ ConnsStay /\ made \in Int
  BY BoundsAssumption DEF AccountsStay, ProfilesStay, ConnsStay, Stored, AccountsInv, AccountsTypeOK, Id
<1>2. RequestsInv' /\ request' \in [Caller -> Request]
  BY <1>1, RequestsKept
<1>3. AccountsTypeOK'
  BY <1>2 DEF AccountsInv, AccountsTypeOK, Signed
<1>4. Placed' /\ IdsInv'
  BY DEF AccountsInv, Placed, IdsInv, Here, Stored
<1> QED BY <1>2, <1>3, <1>4 DEF AccountsInv

\* An account is added, a viewer of a profile that is there or one without a profile.
LEMMA AccountAdded ==
  ASSUME AccountsInv, NextCall, Signed, UNCHANGED <<profiles, conns>>,
         NEW e \in Email, NEW role \in {"superadmin", "admin", "viewer"},
         NEW p \in Profile \cup {NoOne},
         users[e] = NoOne, p = NoOne \/ (p \in Here /\ role = "viewer"),
         AddAccount(e, role, p)
  PROVE  AccountsInv'
<1> DEFINE new == [id |-> made, role |-> role, profile |-> p]
<1>1. /\ made \in Nat /\ made' = made + 1 /\ made' \in Id /\ made \in Id
      /\ users \in [Email -> Account \cup {NoOne}]
  BY BoundsAssumption DEF AccountsInv, AccountsTypeOK, Id, AddAccount
<1>2. new \in Account /\ new.id = made /\ new.role = role /\ new.profile = p
  BY <1>1 DEF Account
<1>3. users' = [users EXCEPT ![e] = new]
  BY DEF AddAccount
<1> HIDE DEF new
<1>4. users' \in [Email -> Account \cup {NoOne}] /\ users'[e] = new
      /\ \A f \in Email : f # e => users'[f] = users[f]
  BY <1>1, <1>2, <1>3
<1>5. AccountsStay /\ ProfilesStay /\ ConnsStay /\ made' \in Int /\ made <= made'
  BY <1>1, <1>2, <1>4 DEF AccountsStay, ProfilesStay, ConnsStay, Stored
<1>6. RequestsInv' /\ request' \in [Caller -> Request]
  BY <1>5, RequestsKept
<1>7. AccountsTypeOK'
  BY <1>1, <1>4, <1>6 DEF AccountsInv, AccountsTypeOK, Signed
<1>8. IdsInv'
  BY <1>1, <1>2, <1>4 DEF AccountsInv, IdsInv, AccountsTypeOK, Account, Id
<1>9. Placed'
  <2>1. Here' = Here /\ Stored' = Stored
    BY DEF Here, Stored
  <2> QED BY <1>2, <1>4, <2>1 DEF AccountsInv, Placed
<1> QED BY <1>6, <1>7, <1>8, <1>9 DEF AccountsInv

\* Accounts go, or lose their profile.
LEMMA AccountsGo ==
  ASSUME AccountsInv, NextCall, Signed, UNCHANGED <<profiles, conns, made>>,
         users' \in [Email -> Account \cup {NoOne}],
         \A e \in Email : users'[e] \in {NoOne, users[e]}
  PROVE  AccountsInv'
<1>1. AccountsStay /\ ProfilesStay /\ ConnsStay /\ made \in Int
  BY BoundsAssumption DEF AccountsStay, ProfilesStay, ConnsStay, Stored, AccountsInv, AccountsTypeOK, Id
<1>2. RequestsInv' /\ request' \in [Caller -> Request]
  BY <1>1, RequestsKept
<1>3. AccountsTypeOK'
  BY <1>2 DEF AccountsInv, AccountsTypeOK, Signed
<1>4. IdsInv'
  BY DEF AccountsInv, IdsInv
<1>5. Placed'
  <2>1. Here' = Here /\ Stored' = Stored
    BY DEF Here, Stored
  <2> QED BY <2>1 DEF AccountsInv, Placed
<1> QED BY <1>2, <1>3, <1>4, <1>5 DEF AccountsInv

\* Connections change, and those that are there belong to a profile that is.
LEMMA ConnectionsChange ==
  ASSUME AccountsInv, NextCall, Signed, UNCHANGED <<users, profiles, made>>,
         conns' \in [Conn -> Row \cup {Unused, Gone}], ConnsStay,
         \A k \in Stored' : conns'[k].profile \in Here
  PROVE  AccountsInv'
<1>1. AccountsStay /\ ProfilesStay /\ made \in Int
  BY BoundsAssumption DEF AccountsStay, ProfilesStay, AccountsInv, AccountsTypeOK, Id
<1>2. RequestsInv' /\ request' \in [Caller -> Request]
  BY <1>1, RequestsKept
<1>3. AccountsTypeOK'
  BY <1>2 DEF AccountsInv, AccountsTypeOK, Signed
<1>4. Placed' /\ IdsInv'
  BY DEF AccountsInv, Placed, IdsInv, Here
<1> QED BY <1>2, <1>3, <1>4 DEF AccountsInv

-----------------------------------------------------------------------------
(* The invariant holds at first, and every step keeps it. *)

LEMMA InitInv == AccountsInit => AccountsInv
<1> SUFFICES ASSUME AccountsInit PROVE AccountsInv
  OBVIOUS
<1>1. AccountsTypeOK
  BY BoundsAssumption, IdleMade DEF AccountsInit, AccountsTypeOK, Id
<1>2. Placed /\ IdsInv
  BY DEF AccountsInit, Placed, IdsInv, Stored
<1>3. RequestsInv
  BY IdleMade DEF AccountsInit, RequestsInv
<1> QED BY <1>1, <1>2, <1>3 DEF AccountsInv

\* A request that is begun is right when its first call is.
LEMMA Begins ==
  ASSUME AccountsInv, NEW c \in Caller, NEW r \in Request, InFlight(r)', Ask(c, r),
         tokens' = tokens
  PROVE  NextCall /\ Signed
<1>1. served \in Nat /\ served < MaxRequests /\ served' = served + 1
  BY BoundsAssumption DEF Ask, AccountsInv, AccountsTypeOK
<1>2. NextCall
  BY DEF Ask, NextCall
<1>3. Signed
  BY <1>1, BoundsAssumption DEF Signed, AccountsInv, AccountsTypeOK
<1> QED BY <1>2, <1>3

\* A request that goes on, or ends.
LEMMA GoesOn ==
  ASSUME AccountsInv, NEW c \in Caller, NEW r \in Request, InFlight(r)', Goes(c, r),
         tokens' \subseteq Token, served' = served
  PROVE  NextCall /\ Signed
  BY DEF Goes, NextCall, Signed, AccountsInv, AccountsTypeOK

LEMMA EndsRight ==
  ASSUME AccountsInv, NEW c \in Caller, Ends(c), tokens' \subseteq Token, served' = served
  PROVE  NextCall /\ Signed
<1>1. InFlight(Idle)'
  BY DEF InFlight, Idle
<1> QED BY <1>1, IdleMade DEF Ends, NextCall, Signed, AccountsInv, AccountsTypeOK

\* What the request of a caller is, and what it has established.
LEMMA RequestIs ==
  ASSUME AccountsInv, NEW c \in Caller
  PROVE  request[c] \in Request /\ InFlight(request[c])
  BY DEF AccountsInv, AccountsTypeOK, RequestsInv

\* The calls that touch no row: those that begin most requests, those that end them.
LEMMA BeginInv ==
  ASSUME AccountsInv, NEW t \in tokens, NEW c \in Caller
  PROVE  /\ \A e \in Email : ProfileAsked(c, t, e) => AccountsInv'
         /\ \A e \in Email, p \in Profile : InviteAsked(c, t, e, p) => AccountsInv'
         /\ ConnectionAsked(c, t) => AccountsInv'
         /\ \A k \in Conn, at \in {"update", "delete"} : ConnectionFound(c, t, k, at) => AccountsInv'
         /\ \A k \in Conn : ReadAsked(c, t, k) => AccountsInv'
         /\ \A k \in Conn, at \in {"test", "explore"} : FoundById(c, t, k, at) => AccountsInv'
<1>t. t \in Token
  BY DEF AccountsInv, AccountsTypeOK
<1> DEFINE Right(r) == r \in Request /\ InFlight(r)' /\ Ask(c, r)
           /\ UNCHANGED <<users, profiles, conns, tokens, made>>
<1>0. ASSUME NEW r, Right(r) PROVE AccountsInv'
  BY <1>0, Begins, RowsAlone
<1>1. ASSUME NEW e \in Email, ProfileAsked(c, t, e) PROVE AccountsInv'
  <2> DEFINE r == [at |-> "admin", email |-> e]
  <2>1. r \in Request /\ InFlight(r)'
    BY DEF Request, InFlight
  <2> QED BY <1>1, <2>1, <1>0 DEF ProfileAsked
<1>2. ASSUME NEW e \in Email, NEW p \in Profile, InviteAsked(c, t, e, p) PROVE AccountsInv'
  <2> DEFINE r == [at |-> "invite", email |-> e, profile |-> p]
  <2>1. r \in Request /\ InFlight(r)'
    BY DEF Request, InFlight
  <2> QED BY <1>2, <2>1, <1>0 DEF InviteAsked
<1>3. ASSUME ConnectionAsked(c, t) PROVE AccountsInv'
  <2> DEFINE r == [at |-> "probe", as |-> t]
  <2>1. r \in Request /\ InFlight(r)'
    BY <1>t, <1>3 DEF Request, InFlight, ConnectionAsked, requireAdmin
  <2> QED BY <1>3, <2>1, <1>0 DEF ConnectionAsked
<1>4. ASSUME NEW k \in Conn, NEW at \in {"update", "delete"}, ConnectionFound(c, t, k, at)
      PROVE  AccountsInv'
  <2> DEFINE r == [at |-> at, as |-> t, conn |-> k]
  <2>1. r \in Request
    BY <1>t DEF Request
  <2>2. InFlight(r)'
    BY <1>4 DEF InFlight, ConnectionFound, requireAdmin, profileScope, Stored
  <2> QED BY <1>4, <2>1, <2>2, <1>0 DEF ConnectionFound
<1>5. ASSUME NEW k \in Conn, NEW at \in {"test", "explore"}, FoundById(c, t, k, at)
      PROVE  AccountsInv'
  <2> DEFINE r == [at |-> at, as |-> t, conn |-> k]
  <2>1. r \in Request /\ InFlight(r)'
    BY <1>t DEF Request, InFlight
  <2> QED BY <1>5, <2>1, <1>0 DEF FoundById
<1>6. ASSUME NEW k \in Conn, ReadAsked(c, t, k) PROVE AccountsInv'
  <2> DEFINE r == [at |-> "read", as |-> t, conn |-> k]
  <2>1. r \in Request
    BY <1>t DEF Request
  <2>2. InFlight(r)'
    BY <1>6 DEF InFlight, ReadAsked, profileScope, Stored
  <2> QED BY <1>6, <2>1, <2>2, <1>0 DEF ReadAsked
<1> QED BY <1>1, <1>2, <1>3, <1>4, <1>5, <1>6

LEMMA SignInInv ==
  ASSUME AccountsInv, NEW c \in Caller, NEW e \in Email, LoginRead(c, e) \/ RegisterCount(c, e)
  PROVE  AccountsInv'
<1>1. ASSUME NEW r \in Request, InFlight(r)', Ask(c, r),
             UNCHANGED <<users, profiles, conns, tokens, made>>
      PROVE  AccountsInv'
  BY <1>1, Begins, RowsAlone
<1>2. CASE LoginRead(c, e)
  <2> DEFINE t == [role |-> users[e].role, profile |-> users[e].profile]
             r == [at |-> "sign", email |-> e, id |-> users[e].id, as |-> t]
  <2>1. users[e] \in Account
    BY <1>2 DEF LoginRead, AccountsInv, AccountsTypeOK
  <2>2. users[e].id \in Id /\ t \in Token
    BY <2>1 DEF Account, Token
  <2>3. r \in Request /\ InFlight(r)'
    BY <2>2 DEF Request, InFlight
  <2> QED BY <1>2, <2>3, <1>1 DEF LoginRead
<1>3. CASE RegisterCount(c, e)
  <2> DEFINE r == [at |-> "register", email |-> e]
  <2>1. r \in Request /\ InFlight(r)'
    BY DEF Request, InFlight
  <2> QED BY <1>3, <2>1, <1>1 DEF RegisterCount
<1> QED BY <1>2, <1>3

\* The calls of requests that are under way.
LEMMA SignedInInv ==
  ASSUME AccountsInv, NEW c \in Caller, LoginSign(c) \/ RegisterCreate(c)
  PROVE  AccountsInv'
<1>1. request[c] \in Request
  BY RequestIs
<1>2. CASE LoginSign(c)
  <2>1. request[c].as \in Token
    BY <1>1, <1>2, RequestFields DEF LoginSign
  <2>2. tokens' \subseteq Token
    BY <1>2, <2>1 DEF LoginSign, AccountsInv, AccountsTypeOK
  <2> QED BY <1>2, <2>2, EndsRight, RowsAlone DEF LoginSign
<1>3. CASE RegisterCreate(c)
  <2>1. request[c].email \in Email
    BY <1>1, <1>3, RequestFields DEF RegisterCreate
  <2>2. tokens' \subseteq Token
    BY <1>3 DEF RegisterCreate, Token, AccountsInv, AccountsTypeOK
  <2>3. NextCall /\ Signed
    BY <1>3, <2>2, EndsRight DEF RegisterCreate
  <2>4. CASE users[request[c].email] = NoOne
    BY <1>3, <2>1, <2>3, <2>4, AccountAdded DEF RegisterCreate
  <2>5. CASE users[request[c].email] # NoOne
    BY <1>3, <2>3, <2>5, RowsAlone DEF RegisterCreate
  <2> QED BY <2>4, <2>5
<1> QED BY <1>2, <1>3

LEMMA ProfileAdminInv ==
  ASSUME AccountsInv, NEW c \in Caller, ProfileAdmin(c)
  PROVE  AccountsInv'
<1> DEFINE e == request[c].email
<1>1. e \in Email /\ tokens' \subseteq Token
  BY RequestIs, RequestFields DEF ProfileAdmin, AccountsInv, AccountsTypeOK
<1>2. CASE users[e] = NoOne
  <2>0. made \in Id
    BY DEF AccountsInv, AccountsTypeOK
  <2>r. PICK r \in Request : r = [at |-> "profile", email |-> e, id |-> made]
    BY <1>1, <2>0 DEF Request
  <2>1. AddAccount(e, "admin", NoOne) /\ Goes(c, r) /\ UNCHANGED <<profiles, conns, tokens, served>>
    BY <1>2, <2>r DEF ProfileAdmin
  <2>2. /\ made \in Int /\ made' = made + 1
        /\ r.at = "profile" /\ r.id = made /\ r.email = e
    BY <2>0, <2>1, <2>r, BoundsAssumption DEF AddAccount, Id
  <2>3. users'[e].role = "admin"
    BY <1>1, <2>1 DEF AddAccount, AccountsInv, AccountsTypeOK
  <2>4. InFlight(r)'
    BY <2>2, <2>3 DEF InFlight
  <2>5. NextCall /\ Signed
    BY <1>1, <2>1, <2>2, <2>4, GoesOn
  <2> QED BY <1>1, <1>2, <2>1, <2>5, AccountAdded
<1>3. CASE users[e] # NoOne
  <2>1. NextCall /\ Signed
    BY <1>1, <1>3, EndsRight DEF ProfileAdmin
  <2> QED BY <1>3, <2>1, RowsAlone DEF ProfileAdmin
<1> QED BY <1>2, <1>3

LEMMA ProfileCreateInv ==
  ASSUME AccountsInv, NEW c \in Caller, NEW p \in Profile, ProfileCreate(c, p)
  PROVE  AccountsInv'
<1> DEFINE q == request[c]
<1>1. q \in Request /\ InFlight(q) /\ q.at = "profile" /\ q.email \in Email /\ q.id \in Id
  BY RequestIs, RequestFields DEF ProfileCreate
<1>2. profiles \in [Profile -> Id \cup {Unused, Gone}] /\ profiles' = [profiles EXCEPT ![p] = q.id]
      /\ profiles[p] = Unused
  BY DEF ProfileCreate, AccountsInv, AccountsTypeOK
<1>3. PICK r \in Request : r = [at |-> "link", email |-> q.email, id |-> q.id, profile |-> p]
  BY <1>1 DEF Request
<1>4. InFlight(r)'
  <2>1. r.at = "link" /\ r.email = q.email /\ r.id = q.id /\ r.profile = p
    BY <1>3
  <2>2. profiles'[p] = r.id /\ users' = users /\ made' = made
    BY <1>2, <2>1 DEF ProfileCreate
  <2> QED BY <1>1, <2>1, <2>2 DEF InFlight
<1>5. NextCall /\ Signed
  BY <1>3, <1>4, GoesOn DEF ProfileCreate, AccountsInv, AccountsTypeOK
<1>6. AccountsStay /\ ProfilesStay /\ ConnsStay /\ made \in Int
  <2>1. AccountsStay /\ ConnsStay
    BY DEF AccountsStay, ConnsStay, ProfileCreate
  <2>2. ProfilesStay
    BY <1>2 DEF ProfilesStay
  <2> QED BY <2>1, <2>2, BoundsAssumption DEF AccountsInv, AccountsTypeOK, Id
<1>7. RequestsInv' /\ request' \in [Caller -> Request]
  BY <1>5, <1>6, RequestsKept DEF ProfileCreate
<1>8. AccountsTypeOK'
  <2>1. profiles' \in [Profile -> Id \cup {Unused, Gone}]
    BY <1>1, <1>2
  <2> QED BY <1>5, <1>7, <2>1 DEF Signed, ProfileCreate, AccountsInv, AccountsTypeOK
<1>9. Placed'
  <2>1. \A o \in Here : o \in Here' /\ profiles'[o] = profiles[o]
    BY <1>2 DEF Here
  <2>2. users' = users /\ conns' = conns /\ Stored' = Stored
    BY DEF ProfileCreate, Stored
  <2> QED BY <2>1, <2>2 DEF AccountsInv, Placed
<1>10. IdsInv'
  BY DEF ProfileCreate, AccountsInv, IdsInv
<1> QED BY <1>7, <1>8, <1>9, <1>10 DEF AccountsInv

LEMMA ProfileLinkInv ==
  ASSUME AccountsInv, NEW c \in Caller, ProfileLink(c)
  PROVE  AccountsInv'
<1> DEFINE r == request[c]
           e == r.email
<1>1. r \in Request /\ InFlight(r) /\ r.at = "link" /\ e \in Email /\ r.profile \in Profile
  BY RequestIs, RequestFields DEF ProfileLink
<1>2. NextCall /\ Signed
  BY EndsRight DEF ProfileLink, AccountsInv, AccountsTypeOK
<1>3. CASE users[e] # NoOne /\ users[e].id = r.id /\ r.profile \in Here
  <2> DEFINE new == [users[e] EXCEPT !.profile = r.profile]
  <2>1. users \in [Email -> Account \cup {NoOne}] /\ users[e] \in Account
    BY <1>1, <1>3 DEF AccountsInv, AccountsTypeOK
  <2>2. /\ new \in Account /\ new.id = users[e].id /\ new.role = users[e].role
        /\ new.profile = r.profile
    BY <1>1, <2>1 DEF Account
  <2>3. users' = [users EXCEPT ![e] = new]
    BY <1>3 DEF ProfileLink
  <2>4. users[e].role = "admin" /\ profiles[r.profile] = users[e].id
    BY <1>1, <1>3 DEF InFlight, Here
  <2> HIDE DEF new
  <2>5. users' \in [Email -> Account \cup {NoOne}] /\ users'[e] = new
        /\ \A f \in Email : f # e => users'[f] = users[f]
    BY <1>1, <2>1, <2>2, <2>3
  <2>6. AccountsStay /\ ProfilesStay /\ ConnsStay /\ made \in Int
    <3>1. AccountsStay
      BY <1>3, <2>2, <2>5 DEF AccountsStay
    <3>2. ProfilesStay /\ ConnsStay
      BY DEF ProfilesStay, ConnsStay, ProfileLink
    <3> QED BY <3>1, <3>2, BoundsAssumption DEF AccountsInv, AccountsTypeOK, Id
  <2>7. RequestsInv' /\ request' \in [Caller -> Request]
    BY <1>2, <2>6, RequestsKept DEF ProfileLink
  <2>8. AccountsTypeOK'
    BY <1>2, <2>5, <2>7 DEF Signed, ProfileLink, AccountsInv, AccountsTypeOK
  <2>9. Placed'
    <3>1. Here' = Here /\ Stored' = Stored /\ conns' = conns /\ profiles' = profiles
      BY DEF Here, Stored, ProfileLink
    <3> QED BY <1>3, <2>2, <2>4, <2>5, <3>1 DEF AccountsInv, Placed
  <2>10. IdsInv'
    BY <1>3, <2>2, <2>5 DEF ProfileLink, AccountsInv, IdsInv
  <2> QED BY <2>7, <2>8, <2>9, <2>10 DEF AccountsInv
<1>4. CASE ~(users[e] # NoOne /\ users[e].id = r.id /\ r.profile \in Here)
  BY <1>2, <1>4, RowsAlone DEF ProfileLink
<1> QED BY <1>3, <1>4

LEMMA ProfileDeletedInv ==
  ASSUME AccountsInv, NEW c \in Caller, ProfileDeleted(c)
  PROVE  AccountsInv'
<1> DEFINE p == request[c].profile
<1>1. NextCall /\ Signed
  BY EndsRight DEF ProfileDeleted, AccountsInv, AccountsTypeOK
<1>2. CASE p \in Here /\ \A k \in Stored : conns[k].profile # p
  <2>1. /\ profiles' = [profiles EXCEPT ![p] = Gone]
        /\ users' = [e \in Email |-> IF users[e] # NoOne /\ users[e].profile = p
                                     THEN [users[e] EXCEPT !.profile = NoOne] ELSE users[e]]
        /\ conns' = conns /\ made' = made
    BY <1>2 DEF ProfileDeleted
  <2>2. /\ users \in [Email -> Account \cup {NoOne}] /\ p \in Profile
        /\ profiles \in [Profile -> Id \cup {Unused, Gone}]
    BY <1>2 DEF Here, AccountsInv, AccountsTypeOK
  <2>3. ASSUME NEW e \in Email
        PROVE  /\ users'[e] \in Account \cup {NoOne}
               /\ users'[e] # NoOne => /\ users[e] # NoOne
                                       /\ users'[e].id = users[e].id /\ users'[e].role = users[e].role
                                       /\ users'[e].profile # NoOne =>
                                            /\ users'[e].profile = users[e].profile
                                            /\ users[e].profile # p
    <3>1. CASE users[e] # NoOne /\ users[e].profile = p
      <4>1. users'[e] = [users[e] EXCEPT !.profile = NoOne] /\ users[e] \in Account
        BY <2>1, <2>2, <3>1
      <4> QED BY <3>1, <4>1 DEF Account
    <3>2. CASE ~(users[e] # NoOne /\ users[e].profile = p)
      <4>1. users'[e] = users[e]
        BY <2>1, <3>2
      <4> QED BY <2>2, <3>2, <4>1
    <3> QED BY <3>1, <3>2
  <2>4. users' \in [Email -> Account \cup {NoOne}]
    BY <2>1, <2>3
  <2>5. AccountsStay /\ ProfilesStay /\ ConnsStay /\ made \in Int
    <3>1. AccountsStay
      BY <2>3 DEF AccountsStay
    <3>2. ProfilesStay /\ ConnsStay
      BY <2>1, <2>2 DEF ProfilesStay, ConnsStay
    <3> QED BY <3>1, <3>2, BoundsAssumption DEF AccountsInv, AccountsTypeOK, Id
  <2>6. RequestsInv' /\ request' \in [Caller -> Request]
    BY <1>1, <2>1, <2>5, RequestsKept
  <2>7. AccountsTypeOK'
    BY <1>1, <2>1, <2>2, <2>4, <2>6 DEF Signed, AccountsInv, AccountsTypeOK
  <2>8. Placed'
    <3>1. Here' = Here \ {p} /\ \A o \in Here' : profiles'[o] = profiles[o]
      BY <2>1, <2>2 DEF Here
    <3>2. Stored' = Stored
      BY <2>1 DEF Stored
    <3>3. \A k \in Stored' : conns'[k].profile \in Here'
      BY <1>2, <2>1, <3>1, <3>2 DEF AccountsInv, Placed
    <3>4. ASSUME NEW e \in Email, users'[e] # NoOne, users'[e].profile # NoOne
          PROVE  /\ users'[e].profile \in Here' /\ users'[e].role # "superadmin"
                 /\ users'[e].role = "admin" => profiles'[users'[e].profile] = users'[e].id
      <4>1. users[e] # NoOne /\ users'[e].profile = users[e].profile /\ users[e].profile # p
            /\ users'[e].id = users[e].id /\ users'[e].role = users[e].role
        BY <2>3, <3>4
      <4> QED BY <3>1, <3>4, <4>1 DEF AccountsInv, Placed
    <3> QED BY <3>3, <3>4 DEF Placed
  <2>9. IdsInv'
    BY <2>1, <2>3 DEF AccountsInv, IdsInv
  <2> QED BY <2>6, <2>7, <2>8, <2>9 DEF AccountsInv
<1>3. CASE ~(p \in Here /\ \A k \in Stored : conns[k].profile # p)
  BY <1>1, <1>3, RowsAlone DEF ProfileDeleted
<1> QED BY <1>2, <1>3

LEMMA InviteInv ==
  ASSUME AccountsInv, NEW c \in Caller, InviteCreate(c)
  PROVE  AccountsInv'
<1> DEFINE r == request[c]
<1>1. r.email \in Email /\ r.profile \in Profile
  BY RequestIs, RequestFields DEF InviteCreate
<1>2. NextCall /\ Signed
  BY EndsRight DEF InviteCreate, AccountsInv, AccountsTypeOK
<1>3. CASE users[r.email] = NoOne /\ r.profile \in Here
  <2>1. AddAccount(r.email, "viewer", r.profile) /\ UNCHANGED <<profiles, conns>>
    BY <1>3 DEF InviteCreate
  <2> QED BY <1>1, <1>2, <1>3, <2>1, AccountAdded
<1>4. CASE ~(users[r.email] = NoOne /\ r.profile \in Here)
  BY <1>2, <1>4, RowsAlone DEF InviteCreate
<1> QED BY <1>3, <1>4

\* The deletions that are one call, and the first call of a profile's.
LEMMA DeletionInv ==
  ASSUME AccountsInv, NEW t \in tokens
  PROVE  /\ \A c \in Caller, p \in Profile : ProfileEmptied(c, t, p) => AccountsInv'
         /\ \A e \in Email, p \in Profile : ViewerDeleted(t, e, p) => AccountsInv'
         /\ \A e \in Email : UserDeleted(t, e) => AccountsInv'
<1>0. /\ users \in [Email -> Account \cup {NoOne}] /\ tokens \subseteq Token
      /\ served \in 0 .. MaxRequests /\ MaxRequests \in Nat
  BY BoundsAssumption DEF AccountsInv, AccountsTypeOK
<1>1. ASSUME NEW c \in Caller, NEW p \in Profile, ProfileEmptied(c, t, p) PROVE AccountsInv'
  <2> DEFINE r == [at |-> "unprofile", profile |-> p]
  <2>1. r \in Request /\ InFlight(r)'
    BY DEF Request, InFlight
  <2>2. NextCall /\ Signed
    BY <1>1, <2>1, Begins DEF ProfileEmptied
  <2>3. users' \in [Email -> Account \cup {NoOne}] /\ \A e \in Email : users'[e] \in {NoOne, users[e]}
    BY <1>0, <1>1 DEF ProfileEmptied
  <2> QED BY <1>1, <2>2, <2>3, AccountsGo DEF ProfileEmptied
<1>2. ASSUME NEW e \in Email, served < MaxRequests, served' = served + 1,
             users' = [users EXCEPT ![e] = NoOne],
             UNCHANGED <<profiles, conns, tokens, request, made>>
      PROVE  AccountsInv'
  <2>1. NextCall /\ Signed
    BY <1>0, <1>2 DEF NextCall, Signed
  <2>2. users' \in [Email -> Account \cup {NoOne}] /\ \A f \in Email : users'[f] \in {NoOne, users[f]}
    BY <1>0, <1>2
  <2> QED BY <1>2, <2>1, <2>2, AccountsGo
<1>3. ASSUME NEW e \in Email, NEW p \in Profile, ViewerDeleted(t, e, p) PROVE AccountsInv'
  BY <1>2, <1>3 DEF ViewerDeleted
<1>4. ASSUME NEW e \in Email, UserDeleted(t, e) PROVE AccountsInv'
  BY <1>2, <1>4 DEF UserDeleted
<1> QED BY <1>1, <1>3, <1>4

LEMMA ConnectionInv ==
  ASSUME AccountsInv, NEW c \in Caller,
         ConnectionUpdate(c) \/ ConnectionDelete(c) \/ TestSaved(c) \/ \E k \in Conn : ConnectionCreate(c, k)
  PROVE  AccountsInv'
<1>0. /\ conns \in [Conn -> Row \cup {Unused, Gone}] /\ tokens \subseteq Token
      /\ \A k \in Stored : conns[k] \in Row /\ conns[k].profile \in Here
  BY DEF AccountsInv, AccountsTypeOK, Placed, Stored
<1>1. NextCall /\ Signed
  BY <1>0, EndsRight DEF ConnectionUpdate, ConnectionDelete, TestSaved, ConnectionCreate
<1>2. ASSUME UNCHANGED conns PROVE AccountsInv'
  BY <1>1, <1>2, RowsAlone DEF ConnectionUpdate, ConnectionDelete, TestSaved, ConnectionCreate
\* A row is written, of the profile it had or, for one that is made, of one that is there.
<1>3. ASSUME NEW k \in Conn, NEW row \in Row \cup {Gone}, conns' = [conns EXCEPT ![k] = row],
             row # Gone => row.profile \in Here /\ (k \in Stored => row.profile = conns[k].profile),
             k \in Stored \/ conns[k] = Unused
      PROVE  AccountsInv'
  <2>1. conns' \in [Conn -> Row \cup {Unused, Gone}] /\ conns'[k] = row
        /\ \A l \in Conn : l # k => conns'[l] = conns[l]
    BY <1>0, <1>3
  <2>2. ConnsStay
    BY <1>3, <2>1, AccountsAssumption DEF ConnsStay, Stored
  <2>3. \A l \in Stored' : conns'[l].profile \in Here
    BY <1>0, <1>3, <2>1 DEF Stored
  <2> QED BY <1>1, <2>1, <2>2, <2>3, ConnectionsChange
         DEF ConnectionUpdate, ConnectionDelete, TestSaved, ConnectionCreate
<1>4. CASE ConnectionUpdate(c)
  <2> DEFINE k == request[c].conn
             row == [conns[k] EXCEPT !.readOnly = TRUE]
  <2>1. CASE k \in Stored
    <3>1. k \in Conn /\ conns[k] \in Row /\ conns[k].profile \in Here
      BY <1>0, <2>1 DEF Stored
    <3>2. row \in Row /\ row.profile = conns[k].profile /\ conns' = [conns EXCEPT ![k] = row]
      BY <1>4, <2>1, <3>1 DEF Row, ConnectionUpdate
    <3> QED BY <1>3, <2>1, <3>1, <3>2
  <2>2. CASE k \notin Stored
    BY <1>2, <1>4, <2>2 DEF ConnectionUpdate
  <2> QED BY <2>1, <2>2
<1>5. CASE ConnectionDelete(c)
  <2> DEFINE k == request[c].conn
  <2>1. CASE k \in Stored
    <3>1. k \in Conn /\ conns' = [conns EXCEPT ![k] = Gone]
      BY <1>5, <2>1 DEF Stored, ConnectionDelete
    <3> QED BY <1>3, <2>1, <3>1
  <2>2. CASE k \notin Stored
    BY <1>2, <1>5, <2>2 DEF ConnectionDelete
  <2> QED BY <2>1, <2>2
<1>6. ASSUME NEW k \in Conn, ConnectionCreate(c, k) PROVE AccountsInv'
  <2> DEFINE p == request[c].as.profile
             row == [profile |-> p, readOnly |-> FALSE, probed |-> FALSE]
  <2>1. CASE p \in Here
    <3>1. row \in Row /\ row.profile = p /\ conns' = [conns EXCEPT ![k] = row]
      BY <1>6, <2>1 DEF Here, Row, ConnectionCreate
    <3>2. k \notin Stored /\ conns[k] = Unused
      BY <1>6 DEF ConnectionCreate, Stored
    <3> QED BY <1>3, <2>1, <3>1, <3>2
  <2>2. CASE p \notin Here
    BY <1>2, <1>6, <2>2 DEF ConnectionCreate
  <2> QED BY <2>1, <2>2
<1>7. CASE TestSaved(c)
  <2> DEFINE k == request[c].conn
             row == [conns[k] EXCEPT !.probed = TRUE]
  <2>1. CASE k \in Stored
    <3>1. k \in Conn /\ conns[k] \in Row /\ conns[k].profile \in Here
      BY <1>0, <2>1 DEF Stored
    <3>2. row \in Row /\ row.profile = conns[k].profile /\ conns' = [conns EXCEPT ![k] = row]
      BY <1>7, <2>1, <3>1 DEF Row, TestSaved
    <3> QED BY <1>3, <2>1, <3>1, <3>2
  <2>2. CASE k \notin Stored
    BY <1>2, <1>7, <2>2 DEF TestSaved
  <2> QED BY <2>1, <2>2
<1> QED BY <1>4, <1>5, <1>6, <1>7

LEMMA ReadInv ==
  ASSUME AccountsInv, NEW c \in Caller,
         ReadOpens(c) \/ ReadReplies(c) \/ ProbeFails(c)
  PROVE  AccountsInv'
<1>0. tokens \subseteq Token
  BY DEF AccountsInv, AccountsTypeOK
<1>1. CASE ReadReplies(c) \/ ProbeFails(c)
  BY <1>0, <1>1, EndsRight, RowsAlone DEF ReadReplies, ProbeFails
<1>2. CASE ReadOpens(c)
  <2> DEFINE q == request[c]
  <2>1. q \in Request /\ InFlight(q) /\ q.at = "read" /\ q.as \in Token /\ q.conn \in Conn
    BY <1>2, RequestIs, RequestFields DEF ReadOpens
  <2>2. CASE q.conn \in Stored
    <3>1. conns[q.conn].profile \in Profile /\ profileScope(q.as, conns[q.conn].profile)
      BY <2>1, <2>2 DEF InFlight, AccountsInv, Placed, Here
    <3>2. PICK r \in Request : r = [at |-> "reply", as |-> q.as, profile |-> conns[q.conn].profile]
      BY <2>1, <3>1 DEF Request
    <3>3. InFlight(r)'
      BY <3>1, <3>2 DEF InFlight, profileScope
    <3>4. NextCall /\ Signed
      BY <1>0, <1>2, <2>2, <3>2, <3>3, GoesOn DEF ReadOpens
    <3> QED BY <1>2, <3>4, RowsAlone DEF ReadOpens
  <2>3. CASE q.conn \notin Stored
    <3>1. Ends(c)
      BY <1>2, <2>3 DEF ReadOpens, Goes, Ends
    <3> QED BY <1>0, <1>2, <3>1, EndsRight, RowsAlone DEF ReadOpens
  <2> QED BY <2>2, <2>3
<1> QED BY <1>1, <1>2

LEMMA ProcessEndsInv ==
  ASSUME AccountsInv, ProcessEnds
  PROVE  AccountsInv'
<1>1. AccountsTypeOK'
  BY IdleMade DEF ProcessEnds, AccountsInv, AccountsTypeOK
<1>2. Placed' /\ IdsInv'
  BY DEF ProcessEnds, AccountsInv, Placed, IdsInv, Here, Stored
<1>3. RequestsInv'
  BY DEF ProcessEnds, RequestsInv, InFlight, Idle
<1> QED BY <1>1, <1>2, <1>3 DEF AccountsInv

LEMMA NextInv == AccountsInv /\ [AccountsNext]_accountVars => AccountsInv'
<1> SUFFICES ASSUME AccountsInv, [AccountsNext]_accountVars PROVE AccountsInv'
  OBVIOUS
<1>1. CASE UNCHANGED accountVars
  BY <1>1, RowsAlone DEF accountVars, NextCall, Signed, AccountsInv, AccountsTypeOK
<1>2. ASSUME NEW t \in tokens, TokenExpires(t) PROVE AccountsInv'
  BY <1>2, RowsAlone DEF TokenExpires, NextCall, Signed, AccountsInv, AccountsTypeOK
<1> QED
  BY <1>1, <1>2, BeginInv, DeletionInv, SignInInv, SignedInInv, ProfileAdminInv, ProfileCreateInv,
     ProfileLinkInv, ProfileDeletedInv, InviteInv, ConnectionInv, ReadInv, ProcessEndsInv
  DEF AccountsNext

-----------------------------------------------------------------------------
(* The theorems. *)

\* What a test saves is nothing that a connection is.
LEMMA TestKeepsConnection ==
  ASSUME AccountsInv, NEW c \in Caller, TestSaved(c), NEW k \in Conn
  PROVE  Registered(k)' = Registered(k)
<1>1. conns \in [Conn -> Row \cup {Unused, Gone}]
  BY DEF AccountsInv, AccountsTypeOK
<1>2. CASE conns'[k] = conns[k]
  BY <1>2 DEF Registered, Stored
<1>3. CASE conns'[k] # conns[k]
  <2>1. k = request[c].conn /\ k \in Stored /\ conns[k] \in Row
        /\ conns'[k] = [conns[k] EXCEPT !.probed = TRUE]
    BY <1>1, <1>3 DEF TestSaved, Stored
  <2>2. /\ conns'[k] \in Row /\ conns'[k].profile = conns[k].profile
        /\ conns'[k].readOnly = conns[k].readOnly
    BY <2>1 DEF Row
  <2>3. k \in Stored'
    BY <2>2, AccountsAssumption DEF Stored
  <2> QED BY <2>1, <2>2, <2>3 DEF Registered
<1> QED BY <1>2, <1>3

\* A connection's row is written within the scope of the request it is written for.
LEMMA ScopedStep == AccountsInv /\ [AccountsNext]_accountVars => [Scoped]_accountVars
<1> SUFFICES ASSUME AccountsInv, AccountsNext, NEW k \in Conn, Registered(k)' # Registered(k)
             PROVE  \E c \in Caller :
                      /\ request'[c] # request[c]
                      /\ requireAdmin(request[c].as)
                      /\ profileScope(request[c].as,
                           IF k \in Stored THEN conns[k].profile ELSE conns'[k].profile)
                      /\ k \in Stored /\ k \in Stored' => conns'[k].profile = conns[k].profile
  BY DEF Scoped, accountVars
<1>0. conns'[k] # conns[k]
  BY DEF Registered, Stored
<1>1. PICK c \in Caller : ConnectionUpdate(c) \/ ConnectionDelete(c) \/ \E l \in Conn : ConnectionCreate(c, l)
  <2>1. conns' # conns
    BY <1>0
  <2>2. ~\E c \in Caller : TestSaved(c)
    BY TestKeepsConnection
  <2> QED BY <2>1, <2>2 DEF AccountsNext, TokenExpires, ProfileAsked, ProfileEmptied, InviteAsked, ViewerDeleted,
      UserDeleted, ConnectionAsked, ConnectionFound, FoundById, ReadAsked, LoginRead, RegisterCount,
      LoginSign, RegisterCreate, ProfileAdmin, ProfileLink, ProfileDeleted, InviteCreate, ProfileCreate,
      ProbeFails, ReadOpens, ReadReplies, ProcessEnds
<1>2. /\ conns \in [Conn -> Row \cup {Unused, Gone}] /\ request \in [Caller -> Request]
      /\ InFlight(request[c])
  BY DEF AccountsInv, AccountsTypeOK, RequestsInv
<1>3. request'[c] = Idle /\ request[c].at \in {"update", "delete", "probe"}
  BY <1>1, <1>2 DEF Ends, ConnectionUpdate, ConnectionDelete, ConnectionCreate
<1>4. request'[c] # request[c] /\ requireAdmin(request[c].as)
  BY <1>2, <1>3, IdleMade DEF InFlight
<1>5. CASE ConnectionUpdate(c) \/ ConnectionDelete(c)
  <2>1. k = request[c].conn /\ k \in Stored /\ request[c].at \in {"update", "delete"}
    BY <1>0, <1>2, <1>5 DEF ConnectionUpdate, ConnectionDelete
  <2>2. profileScope(request[c].as, conns[k].profile)
    BY <1>2, <2>1 DEF InFlight
  <2>3. k \in Stored' => conns'[k].profile = conns[k].profile
    <3>1. CASE ConnectionUpdate(c)
      <4>1. conns[k] \in Row /\ conns'[k] = [conns[k] EXCEPT !.readOnly = TRUE]
        BY <1>2, <2>1, <3>1 DEF ConnectionUpdate, Stored
      <4> QED BY <4>1 DEF Row
    <3>2. CASE ConnectionDelete(c)
      BY <1>2, <2>1, <3>2 DEF ConnectionDelete, Stored
    <3> QED BY <1>5, <3>1, <3>2
  <2> QED BY <1>4, <2>1, <2>2, <2>3
<1>6. ASSUME NEW l \in Conn, ConnectionCreate(c, l) PROVE
         /\ k \notin Stored
         /\ profileScope(request[c].as, conns'[k].profile)
  <2> DEFINE p == request[c].as.profile
  <2>1. l = k /\ p \in Here /\ conns[k] = Unused /\ conns'[k] = [profile |-> p, readOnly |-> FALSE, probed |-> FALSE]
    BY <1>0, <1>2, <1>6 DEF ConnectionCreate
  <2>2. p # NoOne
    BY <2>1, AccountsAssumption DEF Here
  <2> QED BY <2>1, <2>2 DEF profileScope, Stored
<1> QED BY <1>1, <1>4, <1>5, <1>6

\* Type correctness: in every reachable state the tables, the tokens and the
\* requests under way are what routes/connections.ts can have written.
THEOREM AccountsTypeCorrect == AccountsSpec => []AccountsTypeOK
<1>1. AccountsInv => AccountsTypeOK
  BY DEF AccountsInv
<1> QED BY <1>1, InitInv, NextInv, PTL DEF AccountsSpec

\* Profiles are kept apart in routes/connections.ts, for what its routes scope:
\* what belongs to a profile belongs to one that is there, a read by them is
\* answered from a profile its token reaches, and a connection is made, changed
\* (but for what a test of it found) and deleted for an admin within that scope.
THEOREM ProfilesApartHolds == AccountsSpec => ProfilesApart
<1>1. AccountsInv => Placed /\ RepliesInScope
  BY DEF AccountsInv, RequestsInv, InFlight, RepliesInScope
<1> QED BY <1>1, InitInv, NextInv, ScopedStep, PTL DEF AccountsSpec, ProfilesApart
=============================================================================

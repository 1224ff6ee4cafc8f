-------------------------------- MODULE Auth --------------------------------
(***************************************************************************)
(* AuthManager of agent/auth.py: API keys and tokens, who may do what, the *)
(* per-user window of requests and the sessions a user may name.  The      *)
(* middleware admits a request; a handler that awaits the request's body   *)
(* goes on later.  Keys and the blacklist are in SQLite, the windows die   *)
(* with the process.  Requests without valid credentials change nothing.   *)
(* Ids of users and sessions are what split(":") makes of them: sequences  *)
(* of the parts between the colons.                                        *)
(***************************************************************************)
EXTENDS Windows, SequencesExt

CONSTANTS
  Parts,      \* of ids
  Users,      \* the ids of those who get keys and tokens
  UserIds,    \* theirs, and others that a user may have
  Roles,      \* the roles in use
  Chatters,   \* those whose ROLE_PERMISSIONS hold "chat"
  Limit,      \* ROLE_RATE_LIMITS; 0, unlimited
  Hour,       \* the window of check_rate_limit
  KeyLives, TokenLives,  \* expires_in of new keys and tokens; 0 is none
  Never,      \* expires_at of a key without one
  Chosen,     \* the key that the operator enters on the command line
  Clients,    \* who may wait for the server at the same time
  Asked,      \* the session ids that requests ask for, or their handlers for them
  Spellings,  \* of a signature: those that _b64url_decode() takes for the same bytes
  MaxTime, MaxKeys, MaxTokens, MaxServed, MaxChats  \* bounds

ASSUME AuthAssumption ==
  /\ "admin" \in Roles /\ Chatters \subseteq Roles
  /\ Limit \in [Roles -> Nat] /\ Limit["admin"] = 0
  /\ Hour \in Nat /\ KeyLives \cup TokenLives \subseteq Nat
  /\ Never \notin Nat /\ Chosen \notin Nat
  /\ Users \subseteq UserIds
ASSUME IdAssumption ==
  /\ {"", "owned"} \subseteq Parts /\ UserIds \cup Asked \subseteq Seq(Parts) \ {<<>>}
  /\ <<"">> \notin UserIds

VARIABLES
  now,        \* in seconds, as the tokens count them
  up,         \* whether the server runs
  keys,       \* api_keys: [user, role, raw, expires, revoked, boot]
  tokens,     \* the tokens made: <<sub, role, iat, exp>>
  blacklist,  \* the tokens in it, each as its signature was spelled
  windows,    \* _rate_windows
  doing,      \* what the handler of each client's request goes on with
  chats,      \* the ids of the sessions with turns
  lost,       \* the credentials revoked and not issued again (for the properties)
  served,     \* <<user, role, time>> of each request counted since the start (for the properties)
  opened      \* the <<user, session>> of chats (for the properties)

stored == <<keys, tokens, blacklist, lost>>
sessions == <<chats, opened>>
vars == <<now, up, stored, windows, doing, sessions, served>>

Op(op, user) == [op |-> op, user |-> user]
Idle == Op("none", <<>>)
-----------------------------------------------------------------------------
\* _auth_api_key(), _auth_jwt(): whom the credentials stand for.
KeyHonoured(k) == ~k.revoked /\ (k.expires = Never \/ now <= k.expires)
TokenHonoured(t, spelling) == <<t, spelling>> \notin blacklist /\ now <= t[4]

Honoured ==
  {[user |-> k.user, role |-> k.role, cred |-> <<k.raw>>] : k \in {k \in ToSet(keys) : KeyHonoured(k)}}
  \cup {[user |-> p[1][1], role |-> p[1][2], cred |-> p] :
          p \in {p \in tokens \X Spellings : TokenHonoured(p[1], p[2])}}
Contexts == {[user |-> h.user, role |-> h.role] : h \in Honoured}

\* check_rate_limit(): the requests still in the window, an Hour old ones too, once the
\* stale ones have been popped off its front.
RecentNewest(u) ==
  IF windows[u] # <<>> /\ Last(windows[u]) + Hour >= now THEN windows[u] ELSE <<>>
Recent(u) == Pruned(windows[u], Hour + 1, now)

\* is_bootstrapped(): an expired key counts, a revoked one does not.
Bootstrapped == \E k \in ToSet(keys) : ~k.revoked

\* create_api_key(); an expires_in of 0 is none.
AddKey(user, role, raw, life, boot) ==
  /\ Len(keys) < MaxKeys
  /\ keys' = Append(keys, [user |-> user, role |-> role, raw |-> raw, revoked |-> FALSE,
                            expires |-> IF life = 0 THEN Never ELSE now + life, boot |-> boot])
  /\ lost' = lost \ {<<raw>>}
Generated == Len(keys) + 1

\* create_token(): two made in one second for the same user and role are one; an
\* expires_in of 0 is the default's.
AddToken(user, role, life) ==
  LET t == <<user, role, now, now + life>> IN
  /\ Cardinality(tokens \cup {t}) <= MaxTokens
  /\ tokens' = tokens \cup {t}

\* session_owner(): the one part after "owned", whatever colons the owner's id has.
SessionOwner(s) == IF Len(s) > 2 /\ s[1] = "owned" THEN <<s[2]>> ELSE <<"">>

\* scoped_session_id() of a user who is authenticated, which may refuse.
OwnedBy(u) == <<"owned">> \o u
MayName(u, s) == SessionOwner(s) \in {<<"">>, u}
ScopedAsAsked(u, s) == s
Scoped(u, s) == IF SessionOwner(s) = u THEN s ELSE OwnedBy(u) \o s

\* visible_session_ids(): startswith the owner's prefix and its last colon.
Visible(u) == {s \in chats : IsPrefix(OwnedBy(u), s) /\ Len(s) > Len(OwnedBy(u))}
-----------------------------------------------------------------------------
Init ==
  /\ now = 0
  /\ up = FALSE
  /\ keys = <<>> /\ tokens = {} /\ blacklist = {} /\ lost = {}
  /\ windows = [u \in Users |-> <<>>]
  /\ doing = [r \in Clients |-> Idle]
  /\ chats = {} /\ opened = {}
  /\ served = <<>>

\* The middleware: authenticate(), then check_rate_limit() under the limit of this role
\* in the window of this user, then can_access(), whose refusal is counted as well.
Admitted(c) ==
  /\ up
  /\ \/ Limit[c.role] = 0 /\ UNCHANGED <<windows, served>>
     \/ /\ Limit[c.role] # 0
        /\ Len(Recent(c.user)) < Limit[c.role]
        /\ Len(served) < MaxServed
        /\ windows' = [windows EXCEPT ![c.user] = Append(Recent(c.user), now)]
        /\ served' = Append(served, <<c.user, c.role, now>>)

TooMany(c) ==
  /\ up
  /\ Limit[c.role] # 0 /\ Len(Recent(c.user)) >= Limit[c.role]
  /\ windows' = [windows EXCEPT ![c.user] = Recent(c.user)]
  /\ UNCHANGED <<now, up, stored, doing, sessions, served>>

\* A request whose handler awaits the body: to issue or revoke, of an administrator, whom
\* the handler does not look at again, or to chat.
Begins(r, c) ==
  /\ doing[r] = Idle
  /\ Admitted(c)
  /\ \/ c.role = "admin" /\ doing' = [doing EXCEPT ![r] = Op("manage", <<>>)]
     \/ c.role \in Chatters \cup {"admin"} /\ doing' = [doing EXCEPT ![r] = Op("chat", c.user)]
  /\ UNCHANGED <<now, up, stored, sessions>>

\* A request that is forbidden, or changes nothing here.
Passes(c) ==
  /\ Admitted(c)
  /\ UNCHANGED <<now, up, stored, doing, sessions>>

\* DELETE /auth/keys/{key_id} awaits nothing.
RevokeKey(c) ==
  /\ Admitted(c) /\ c.role = "admin"
  /\ \E i \in DOMAIN keys :
       /\ ~keys[i].revoked
       /\ keys' = [keys EXCEPT ![i].revoked = TRUE]
       /\ lost' = lost \cup {<<keys[i].raw>>}
  /\ UNCHANGED <<now, up, tokens, blacklist, doing, sessions>>

\* The body is there: the handler goes on, for the user the middleware saw.
GoesOn(r, op) ==
  /\ doing[r].op = op
  /\ doing' = [doing EXCEPT ![r] = Idle]
  /\ UNCHANGED <<now, up, windows, served>>

CreateKey(r) ==
  /\ GoesOn(r, "manage")
  /\ \E u \in Users, role \in Roles, life \in KeyLives : AddKey(u, role, Generated, life, FALSE)
  /\ UNCHANGED <<tokens, blacklist, sessions>>

CreateToken(r) ==
  /\ GoesOn(r, "manage")
  /\ \E u \in Users, role \in Roles, life \in TokenLives \ {0} : AddToken(u, role, life)
  /\ UNCHANGED <<keys, blacklist, lost, sessions>>

RevokeToken(r) ==
  /\ GoesOn(r, "manage")
  /\ \E p \in tokens \X Spellings : blacklist' = blacklist \cup {p} /\ lost' = lost \cup {p}
  /\ UNCHANGED <<keys, tokens, sessions>>

Chat(r) ==
  /\ GoesOn(r, "chat")
  /\ LET u == doing[r].user IN
     \E s \in Asked :
       /\ MayName(u, s)
       /\ Cardinality(chats \cup {Scoped(u, s)}) <= MaxChats
       /\ chats' = chats \cup {Scoped(u, s)}
       /\ opened' = opened \cup {<<u, Scoped(u, s)>>}
  /\ UNCHANGED stored

\* The body is malformed or asks for what is refused, or the client is gone.
Abandon(r) ==
  /\ doing[r] # Idle
  /\ GoesOn(r, doing[r].op)
  /\ UNCHANGED <<stored, sessions>>

\* POST /auth/bootstrap is public; its handler awaits the body before it looks.
AsksToBootstrap(r) ==
  /\ up /\ doing[r] = Idle
  /\ doing' = [doing EXCEPT ![r] = Op("bootstrap", <<>>)]
  /\ UNCHANGED <<now, up, stored, windows, sessions, served>>

\* bootstrap_admin() with the right token, on the server.
BootstrapUnchecked(r) ==
  /\ GoesOn(r, "bootstrap")
  /\ \E u \in Users : AddKey(u, "admin", Generated, 0, TRUE)
  /\ UNCHANGED <<tokens, blacklist, sessions>>
Bootstrap(r) ==
  /\ GoesOn(r, "bootstrap")
  /\ ~Bootstrapped
  /\ \E u \in Users : AddKey(u, "admin", Generated, 0, TRUE)
  /\ UNCHANGED <<tokens, blacklist, sessions>>

\* --create-admin, a process of its own, while the server is down.
CommandLine ==
  /\ ~up /\ ~Bootstrapped
  /\ \E u \in Users, life \in TokenLives \ {0} :
       AddKey(u, "admin", Chosen, 0, TRUE) /\ AddToken(u, "admin", life)
  /\ UNCHANGED <<now, up, blacklist, windows, doing, sessions, served>>

StartForgets ==
  /\ ~up
  /\ up' = TRUE
  /\ blacklist' = {}
  /\ UNCHANGED <<now, keys, tokens, lost, windows, doing, sessions, served>>
Start ==
  /\ ~up
  /\ up' = TRUE
  /\ UNCHANGED <<now, stored, windows, doing, sessions, served>>

\* The server stops or crashes: the windows and the requests die with it.
Stop ==
  /\ up
  /\ up' = FALSE
  /\ windows' = [u \in Users |-> <<>>] /\ served' = <<>>
  /\ doing' = [r \in Clients |-> Idle]
  /\ UNCHANGED <<now, stored, sessions>>

Tick ==
  /\ now < MaxTime
  /\ now' = now + 1
  /\ UNCHANGED <<up, stored, windows, doing, sessions, served>>

Next ==
  \/ \E c \in Contexts :
       TooMany(c) \/ Passes(c) \/ RevokeKey(c) \/ \E r \in Clients : Begins(r, c)
  \/ \E r \in Clients :
       \/ CreateKey(r) \/ CreateToken(r) \/ RevokeToken(r) \/ Chat(r) \/ Abandon(r)
       \/ AsksToBootstrap(r) \/ Bootstrap(r)
  \/ CommandLine \/ Start \/ Stop \/ Tick

Spec == Init /\ [][Next]_vars
-----------------------------------------------------------------------------
\* "disabled once any active API key exists" (bootstrap_admin): of the keys not revoked
\* one at most is of the bootstrap, and no two are the same secret, whatever handlers of
\* the server bootstrap, and the command line while no server runs.
BootstrapOnce ==
  \A i, j \in DOMAIN keys :
    ~keys[i].revoked /\ ~keys[j].revoked /\ i # j =>
      ~(keys[i].boot /\ keys[j].boot) /\ keys[i].raw # keys[j].raw

\* authenticate() honours no key that was revoked and not issued again, and no token under
\* a spelling of its signature that was, whatever handlers issue and revoke meanwhile and
\* however often the server restarts.
LostStaysOut == \A h \in Honoured : h.cred \notin lost

\* Each request counted was within the limit of its own role, of all the requests of its
\* user in the hour before it, whatever their roles; and the window of a user forgets
\* none of that hour, and holds none that is older against anyone.
Before(u, t, n) == Cardinality({i \in 1..n : served[i][1] = u /\ served[i][3] + Hour >= t})
WithinRoleLimit ==
  /\ \A n \in DOMAIN served :
       Before(served[n][1], served[n][3], n - 1) < Limit[served[n][2]]
  /\ \A u \in Users : Len(Recent(u)) = Before(u, now, Len(served))

\* Who chatted in a session sees it; whoever else does has an id that goes on after that
\* user's and a colon, or the other way round; and a user without a colon in the id can
\* name again whatever it sees, which stays the session it is.
Kin(u, v) == IsPrefix(u, v) \/ IsPrefix(v, u)
SessionsOwned ==
  \A u \in UserIds :
    /\ \A o \in opened : o[2] \in Visible(u) => Kin(u, o[1])
    /\ \A o \in opened : o[1] = u => o[2] \in Visible(u)
    /\ Len(u) = 1 => \A s \in Visible(u) : MayName(u, s) /\ Scoped(u, s) = s
=============================================================================

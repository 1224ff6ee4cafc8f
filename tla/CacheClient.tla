---------------------------- MODULE CacheClient ------------------------------
(***************************************************************************)
(* One session beside one counter of CacheClient (agent/cache.py), on the  *)
(* back end connect() found.  update_session() reads, merges and writes.   *)
(* On Redis other calls come between; those of the memory store suspend    *)
(* nobody.  Each caller sets a field of its own.                           *)
(***************************************************************************)
EXTENDS RateCheck

CONSTANTS
  Callers,  \* of update_session()
  Ttl       \* of a session

ASSUME SessionAssumption == Ttl \in Nat \ {0} /\ "nothing read" \notin Callers

VARIABLES
  fields,  \* the session: who has set a field of it; {}, no session
  ends,
  copy,    \* what each caller has read; Nothing, it is not between the two
  after,   \* who has written since each caller read (for the properties)
  owed     \* whose fields nothing but a concurrent update may take (for the properties)

session == <<fields, ends, copy, after, owed>>
clientVars == <<rateVars, session>>

Nothing == {"nothing read"}

\* _is_alive(), or Redis.
Alive == IF backend = "redis" THEN clock < ends ELSE clock <= ends
Stored == IF Alive THEN fields ELSE {}
Owed == IF Alive THEN owed ELSE {}
-----------------------------------------------------------------------------
ClientInit ==
  /\ RateInit
  /\ fields = {} /\ ends = 0
  /\ copy = [c \in Callers |-> Nothing]
  /\ after = [c \in Callers |-> {}]
  /\ owed = {}

Noted(c) ==
  after' = [d \in Callers |-> IF d = c \/ copy[d] = Nothing THEN {} ELSE after[d] \cup {c}]

\* rate_check(), the sweeps and the clock leave the session alone.
Counts == (Check \/ SweepCounter \/ ClockTick) /\ UNCHANGED session

\* set_session() of what was read with the update in it.
WritesOnly(c, read) ==
  /\ fields' = {c} /\ ends' = clock + Ttl
  /\ owed' = (Owed \ after[c]) \cup {c}
  /\ Noted(c)
Writes(c, read) ==
  /\ fields' = read \cup {c} /\ ends' = clock + Ttl
  /\ owed' = (Owed \ after[c]) \cup {c}
  /\ Noted(c)

\* update_session() on the memory store: nobody comes between.
Update(c) ==
  /\ backend = "memory"
  /\ Writes(c, Stored)
  /\ UNCHANGED <<rateVars, copy>>

\* On Redis it awaits the old session, and then that the new one is there.
Read(c) ==
  /\ backend = "redis" /\ copy[c] = Nothing
  /\ copy' = [copy EXCEPT ![c] = Stored]
  /\ after' = [after EXCEPT ![c] = {}]
  /\ UNCHANGED <<rateVars, fields, ends, owed>>

Write(c) ==
  /\ copy[c] # Nothing
  /\ Writes(c, copy[c])
  /\ copy' = [copy EXCEPT ![c] = Nothing]
  /\ UNCHANGED rateVars

\* set_session() by one who does not look, delete_session().
SetSession(c) ==
  /\ fields' = {c} /\ ends' = clock + Ttl
  /\ owed' = {c}
  /\ after' = [d \in Callers |-> IF copy[d] = Nothing THEN {} ELSE after[d] \cup {c}]
  /\ UNCHANGED <<rateVars, copy>>

DeleteSession ==
  /\ fields' = {} /\ owed' = {}
  /\ UNCHANGED <<rateVars, ends, copy, after>>

ClientNext ==
  \/ Counts \/ DeleteSession
  \/ \E c \in Callers : Update(c) \/ Read(c) \/ Write(c) \/ SetSession(c)

ClientSpec == ClientInit /\ [][ClientNext]_clientVars
-----------------------------------------------------------------------------
\* An update is kept until the session is set anew, deleted or dead, unless another
\* update that began before it was written ends after it; and in the memory store,
\* where there is no such thing, a session holds these updates and nothing else.
UpdatesKept ==
  /\ Owed \subseteq Stored
  /\ backend = "memory" => Stored = Owed
=============================================================================

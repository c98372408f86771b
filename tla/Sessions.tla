------------------------------ MODULE Sessions ------------------------------
(***************************************************************************)
(* Login, logout and the resolution of a session cookie: auth-service.ts   *)
(* and resolveSession of runtime-context.ts over the session table, the    *)
(* signed cookie of session-signing.ts, and the operator's rotation of the *)
(* signing keys, which the process reads once when it starts.              *)
(*                                                                         *)
(* The cookie names the user and its organization, not a session: every    *)
(* request is resolved against the rows of that user, whichever device it  *)
(* comes from, and not all routes do it alike:                             *)
(*   visit, logout  the command routes: the LATEST row, if it is in force, *)
(*                  and no cookie older than the idle window               *)
(*   read           the geo read and knowledge routes: the latest of the   *)
(*                  rows in force, and no idle window                      *)
(*   page           the middleware before a page: the cookie alone         *)
(* Users share nothing but the keys: one is modelled, with its membership  *)
(* of one organization, whose role does not change (the check that cookie  *)
(* and row agree on the surface holds).                                    *)
(*                                                                         *)
(* A unit of time is an idle window (30 minutes).  The HTTP server ends a  *)
(* request well before one has passed, so a request sees at most one tick. *)
(***************************************************************************)
EXTENDS Integers, FiniteSets, FiniteSetsExt

CONSTANTS
  Request,    \* records: kind ("login", "visit", "read", "page" or "logout"), device
  Device,
  IdleTTL,    \* SESSION_IDLE_TTL_MS, counted from the cookie's issuedAt
  CookieTTL,  \* SESSION_TTL_MS
  RowTTL,     \* DEFAULT_SESSION_TTL_MS
  TimeMax,    \* bound of the clock
  KeyMax      \* bound of the keys the operator makes

ASSUME TTLAssumption ==
  /\ {IdleTTL, CookieTTL, RowTTL, TimeMax, KeyMax} \subseteq Nat \ {0}
  /\ IdleTTL < CookieTTL
  /\ CookieTTL + 1 < RowTTL  \* a login may take up to a tick on either side
ASSUME RequestAssumption ==
  \A r \in Request :
    r.kind \in {"login", "visit", "read", "page", "logout"} /\ r.device \in Device

VARIABLES
  now,       \* the clock of the server and of the database
  keys,      \* the process's signing keys, numbered in the order of their making
  rotatedAt, \* when the previous key was replaced
  barred,    \* history: keys below this one were compromised
  sessions,  \* committed session rows; n is their order by (created_at, id)
  revoked,   \* those with a revoked_at
  jar,       \* jar[d]: the cookie that device d keeps
  pc,        \* pc[r]: where the handler of r is
  held,      \* held[r]: what the handler of r has read and made
  answer,    \* answer[r]: what the client of r was told
  before     \* history: before[r], the rows revoked when r was sent

sessionVars == <<sessions, revoked>>
keyVars == <<keys, rotatedAt, barred>>
vars == <<now, keyVars, sessionVars, jar, pc, held, answer, before>>

NoKey == 0
NoCookie == [key |-> NoKey, at |-> 0, row |-> 0]
Nothing == [cookie |-> NoCookie, at |-> 0, row |-> 0, valid |-> FALSE]
Cookie == [key: 0..KeyMax, at: 0..TimeMax, row: Nat]
Row == [n: Nat \ {0}, version: Nat \ {0}, expires: Nat]

\* What runs in the process, and so dies with it.
Handling == {"login", "insert", "sign", "decode", "load", "check", "revoke"}
\* A response that sets or clears the cookie is on its way.
Responding == {"set", "clear"}
Labels == {"unsent", "answered"} \cup Handling \cup Responding
Answers == {"none", "in", "out", "rejected", "refused", "error"}

Init ==
  /\ now = 0
  /\ keys = [current |-> 1, previous |-> NoKey]
  /\ rotatedAt = 0
  /\ barred = 1
  /\ sessions = {}
  /\ revoked = {}
  /\ jar = [d \in Device |-> NoCookie]
  /\ pc = [r \in Request |-> "unsent"]
  /\ held = [r \in Request |-> Nothing]
  /\ answer = [r \in Request |-> "none"]
  /\ before = [r \in Request |-> {}]

Goto(r, label) == pc' = [pc EXCEPT ![r] = label]
Then(r, label) == Goto(r, label) /\ UNCHANGED answer
Tell(r, what) ==
  /\ Goto(r, "answered")
  /\ answer' = [answer EXCEPT ![r] = what]
Keep(r, record) == held' = [held EXCEPT ![r] = record]
At(r, kind, label) == r.kind = kind /\ pc[r] = label

\* A request is sent, with the cookie of its device; handler time starts.
Send(r) ==
  /\ pc[r] = "unsent"
  /\ Keep(r, [Nothing EXCEPT !.cookie = jar[r.device], !.at = now])
  /\ before' = [before EXCEPT ![r] = revoked]
  /\ Then(r, IF r.kind = "login" THEN "login" ELSE "decode")
  /\ UNCHANGED <<now, keyVars, sessionVars, jar>>

-----------------------------------------------------------------------------
(* Login.                                                                  *)

\* No email, no user, no active membership.
Refuse(r) ==
  /\ At(r, "login", "login")
  /\ Tell(r, "refused")
  /\ UNCHANGED <<now, keyVars, sessionVars, jar, held, before>>

\* The INSERT starts, and with it the row's created_at: after every row that is
\* there and every one whose INSERT has started.
Issue(r) ==
  /\ At(r, "login", "login")
  /\ Keep(r, [held[r] EXCEPT !.row =
       Max({0} \cup {s.n : s \in sessions} \cup {held[q].row : q \in Request}) + 1])
  /\ Then(r, "insert")
  /\ UNCHANGED <<now, keyVars, sessionVars, jar, before>>

\* sessions.create: session_version is always 1, expires_at from the login's now.
Create(r) ==
  /\ At(r, "login", "insert")
  /\ sessions' = sessions \cup
       {[n |-> held[r].row, version |-> 1, expires |-> held[r].at + RowTTL]}
  /\ Then(r, "sign")
  /\ UNCHANGED <<now, keyVars, revoked, jar, held, before>>

\* Mutant: a rotation in progress goes on signing with the key it moves out.
SignWithPrevious(r) ==
  /\ At(r, "login", "sign")
  /\ Keep(r, [held[r] EXCEPT !.cookie =
       [key |-> IF keys.previous # NoKey THEN keys.previous ELSE keys.current,
        at |-> now, row |-> held[r].row]])
  /\ Then(r, "set")
  /\ UNCHANGED <<now, keyVars, sessionVars, jar, before>>

\* encodeSessionCookie: signed with CURRENT; issuedAt is read again.
Sign(r) ==
  /\ At(r, "login", "sign")
  /\ Keep(r, [held[r] EXCEPT !.cookie =
       [key |-> keys.current, at |-> now, row |-> held[r].row]])
  /\ Then(r, "set")
  /\ UNCHANGED <<now, keyVars, sessionVars, jar, before>>

\* The device stores what the response sets.
Receive(r) ==
  /\ pc[r] = "set"
  /\ jar' = [jar EXCEPT ![r.device] = held[r].cookie]
  /\ Tell(r, "in")
  /\ UNCHANGED <<now, keyVars, sessionVars, held, before>>

-----------------------------------------------------------------------------
(* resolveSession, for a visit and for a logout.                           *)

\* verifySignedSessionToken: CURRENT or PREVIOUS, within the absolute TTL.
Verifies(c) ==
  /\ c.key \in {keys.current, keys.previous} \ {NoKey}
  /\ now < c.at + CookieTTL
Fresh(c) == now - c.at <= IdleTTL
Decoded(r) == Verifies(held[r].cookie)

\* No session: a visit is answered 401, a logout goes on to its answer.
Unresolved(r) ==
  IF r.kind = "visit" THEN Tell(r, "rejected") ELSE Then(r, "clear")

Decode(r) ==
  /\ r.kind \in {"visit", "logout"} /\ pc[r] = "decode"
  /\ Keep(r, [held[r] EXCEPT !.at = now])
  /\ IF Decoded(r) /\ Fresh(held[r].cookie)
     THEN Then(r, "load")
     ELSE Unresolved(r)
  /\ UNCHANGED <<now, keyVars, sessionVars, jar, before>>

\* Mutant: WHERE ... AND revoked_at IS NULL.
LatestUnrevoked ==
  LET live == {s \in sessions : s.n \notin revoked} IN
  {s \in live : \A t \in live : t.n <= s.n}

\* Mutant: ORDER BY created_at ASC.
Earliest == {s \in sessions : \A t \in sessions : s.n <= t.n}

\* ORDER BY created_at DESC, id DESC LIMIT 1.
Latest == {s \in sessions : \A t \in sessions : t.n <= s.n}

\* loadLatestSessionForUserOrg, with what isSessionValid will ask of the row.
LoadLatest(r) ==
  /\ pc[r] = "load" /\ r.kind # "read"
  /\ IF Latest = {} THEN Unresolved(r) /\ UNCHANGED held
     ELSE /\ \E s \in Latest : Keep(r, [held[r] EXCEPT !.row = s.n, !.valid =
               s.n \notin revoked /\ held[r].at < s.expires])
          /\ Then(r, "check")
  /\ UNCHANGED <<now, keyVars, sessionVars, jar, before>>

\* currentMembershipVersion, a later statement, and isSessionVersionCurrent.
CheckVersion(r) ==
  /\ pc[r] = "check"
  /\ LET version(n) == (CHOOSE s \in sessions : s.n = n).version
         live == Max({s.version : s \in sessions}) IN
     IF ~held[r].valid \/ version(held[r].row) < live THEN Unresolved(r)
     ELSE IF r.kind = "visit" THEN Tell(r, "in")
     ELSE Then(r, "revoke")
  /\ UNCHANGED <<now, keyVars, sessionVars, jar, held, before>>

-----------------------------------------------------------------------------
(* The other two: a read's resolveSession, and the middleware of a page.   *)

\* decodeSessionCookie, which tells no issue time.
DecodeRead(r) ==
  /\ At(r, "read", "decode")
  /\ Keep(r, [held[r] EXCEPT !.at = now])
  /\ IF Decoded(r) THEN Then(r, "load") ELSE Tell(r, "rejected")
  /\ UNCHANGED <<now, keyVars, sessionVars, jar, before>>

\* WHERE user_id = $1 AND revoked_at IS NULL AND expires_at > now().
ActiveByUser == {s \in sessions : s.n \notin revoked /\ now < s.expires}

\* listActiveByUser, newest first, of which the first is taken.
LoadActive(r) ==
  /\ At(r, "read", "load")
  /\ IF ActiveByUser = {} THEN Tell(r, "rejected") /\ UNCHANGED held
     ELSE /\ Keep(r, [held[r] EXCEPT !.row = Max({s.n : s \in ActiveByUser})])
          /\ Tell(r, "in")
  /\ UNCHANGED <<now, keyVars, sessionVars, jar, before>>

\* No session is looked up: the cookie's role is let onto its own surface, a
\* page of another one is 403, and without a cookie that verifies it is /login.
Guard(r) ==
  /\ At(r, "page", "decode")
  /\ Keep(r, [held[r] EXCEPT !.at = now])
  /\ IF Decoded(r) THEN Tell(r, "in") \/ Tell(r, "refused") ELSE Tell(r, "rejected")
  /\ UNCHANGED <<now, keyVars, sessionVars, jar, before>>

-----------------------------------------------------------------------------
\* logout: the row that was resolved is revoked ...
Revoke(r) ==
  /\ At(r, "logout", "revoke")
  /\ revoked' = revoked \cup {held[r].row}
  /\ Then(r, "clear")
  /\ UNCHANGED <<now, keyVars, sessions, jar, held, before>>

\* ... and success is reported in any case, which clears the device's cookie.
Clear(r) ==
  /\ pc[r] = "clear"
  /\ jar' = [jar EXCEPT ![r.device] = NoCookie]
  /\ Tell(r, "out")
  /\ UNCHANGED <<now, keyVars, sessionVars, held, before>>

\* A statement fails, or the response does not arrive.
Fail(r) ==
  /\ pc[r] \in Handling \cup Responding
  /\ Tell(r, "error")
  /\ UNCHANGED <<now, keyVars, sessionVars, jar, held, before>>

-----------------------------------------------------------------------------
(* The operator (PILOT_OPERATOR_RUNBOOK.md, sections 7 and 8) and time.    *)

\* A restart reads the keys anew and ends what runs in the process.
Restart ==
  LET killed == {r \in Request : pc[r] \in Handling} IN
  /\ pc' = [r \in Request |-> IF r \in killed THEN "answered" ELSE pc[r]]
  /\ answer' = [r \in Request |-> IF r \in killed THEN "error" ELSE answer[r]]
  /\ UNCHANGED <<now, sessionVars, jar, held, before>>

\* Routine: CURRENT moves to PREVIOUS, a fresh key becomes CURRENT.
Rotate ==
  /\ keys.previous = NoKey
  /\ keys.current < KeyMax
  /\ keys' = [current |-> keys.current + 1, previous |-> keys.current]
  /\ rotatedAt' = now
  /\ Restart
  /\ UNCHANGED barred

\* After the TTL window has fully elapsed PREVIOUS is cleared.
Retire ==
  /\ keys.previous # NoKey
  /\ now >= rotatedAt + CookieTTL
  /\ keys' = [keys EXCEPT !.previous = NoKey]
  /\ Restart
  /\ UNCHANGED <<rotatedAt, barred>>

\* Emergency: a fresh CURRENT and no PREVIOUS.
EmergencyRotate ==
  /\ keys.current < KeyMax
  /\ keys' = [current |-> keys.current + 1, previous |-> NoKey]
  /\ barred' = keys'.current
  /\ Restart
  /\ UNCHANGED rotatedAt

InFlight(r) == pc[r] \in Handling \cup Responding
Tick ==
  /\ now < TimeMax
  /\ \A r \in Request : InFlight(r) => held[r].at = now
  /\ now' = now + 1
  /\ UNCHANGED <<keyVars, sessionVars, jar, pc, held, answer, before>>

Step(r) ==
  \/ Send(r)
  \/ Refuse(r) \/ Issue(r) \/ Create(r) \/ Sign(r) \/ Receive(r)
  \/ Decode(r) \/ LoadLatest(r) \/ CheckVersion(r)
  \/ DecodeRead(r) \/ LoadActive(r) \/ Guard(r)
  \/ Revoke(r) \/ Clear(r)
  \/ Fail(r)
Operate == Rotate \/ Retire \/ EmergencyRotate
\* Whatever was sent is answered.
Idle == \A r \in Request : pc[r] \in {"unsent", "answered"}
Next ==
  \/ \E r \in Request : Step(r)
  \/ Operate \/ Tick
  \/ Idle /\ UNCHANGED vars
Spec == Init /\ [][Next]_vars

-----------------------------------------------------------------------------
TypeOK ==
  /\ now \in 0..TimeMax
  /\ keys \in [current: 1..KeyMax, previous: 0..KeyMax]
  /\ rotatedAt \in 0..TimeMax
  /\ barred \in 1..KeyMax
  /\ sessions \subseteq Row
  /\ revoked \subseteq {s.n : s \in sessions}
  /\ jar \in [Device -> Cookie]
  /\ pc \in [Request -> Labels]
  /\ held \in [Request -> [cookie: Cookie, at: 0..TimeMax, row: Nat, valid: BOOLEAN]]
  /\ answer \in [Request -> Answers]
  /\ before \in [Request -> SUBSET Nat]

Ended(kind, what) == {r \in Request : r.kind = kind /\ answer[r] = what}
Expired(r) == held[r].at >= held[r].cookie.at + CookieTTL

(***************************************************************************)
(* Runbook section 7, "a still-cryptographically-valid cookie cannot       *)
(* bypass revocation", as far as cookies name no session: nothing that is  *)
(* sent after a session was revoked rests on that session; and on a        *)
(* command route nobody is let in, from any device, unless the user has    *)
(* logged in again since that session began.                               *)
(***************************************************************************)
LogoutIsObeyed ==
  /\ \A r \in Ended("visit", "in") : \A n \in before[r] : n < held[r].row
  /\ \A r \in Ended("read", "in") : held[r].row \notin before[r]

(***************************************************************************)
(* Nobody is turned away without a reason: there was no cookie, its key    *)
(* was compromised, or its time had run out: the idle window for a visit,  *)
(* the absolute one for a page or a read.  A visit may also find a session *)
(* as late as its own revoked by a logout, a read only its own.  So        *)
(* neither another login of the user, nor a routine rotation, nor a        *)
(* restart, ends a session, and no page says /login while they do not.     *)
(***************************************************************************)
NoProof(r) == held[r].cookie = NoCookie \/ held[r].cookie.key < barred
RejectedForAReason ==
  /\ \A r \in Ended("visit", "rejected") :
       LET c == held[r].cookie IN
       NoProof(r) \/ held[r].at - c.at > IdleTTL \/ \E n \in revoked : c.row <= n
  /\ \A r \in Ended("read", "rejected") :
       NoProof(r) \/ Expired(r) \/ held[r].cookie.row \in revoked
  /\ \A r \in Ended("page", "rejected") : NoProof(r) \/ Expired(r)

(***************************************************************************)
(* Section 8, the rotation contract: whatever rotations came between, a    *)
(* cookie verifies for its whole TTL, unless its key was compromised, and  *)
(* then it never does.                                                     *)
(***************************************************************************)
Issued == ({jar[d] : d \in Device} \cup {held[r].cookie : r \in Request}) \ {NoCookie}
KeysInForce ==
  /\ TypeOK
  /\ \A c \in Issued : now < c.at + CookieTTL => (Verifies(c) <=> barred <= c.key)
=============================================================================

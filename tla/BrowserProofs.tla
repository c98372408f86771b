---------------------------- MODULE BrowserProofs ----------------------------
(***************************************************************************)
(* Safety of what a browser holds: of Sessions, for any number of requests,*)
(* devices, rotations and rows, and any windows in the order TTLAssumption *)
(* says; and of Workspace, for any pages open together, rows, clients,     *)
(* loads and mishaps.                                                      *)
(***************************************************************************)
EXTENDS Sessions, Workspace, WellFoundedInduction, FiniteSetTheorems, TLAPS

(***************************************************************************)
(* Sessions.                                                               *)
(***************************************************************************)

SessionRows == {s.n : s \in sessions}
\* A login whose INSERT has started.
Began(q) == q.kind = "login" /\ held[q].row # 0

KeysOrdered ==
  /\ rotatedAt <= now
  /\ barred <= keys.current
  /\ keys.previous # NoKey => keys.previous < keys.current /\ barred <= keys.previous

\* A key that was replaced is the previous one for as long as what it signed lives.
InForce(c) ==
  /\ c.key \in 1..keys.current
  /\ c.at <= now
  /\ c.key < keys.current /\ barred <= c.key =>
       /\ c.at <= rotatedAt
       /\ now < c.at + CookieTTL => keys.previous = c.key
\* A cookie is of a session, signed within a tick of its login.
OfLogin(c) ==
  /\ c.row \in SessionRows
  /\ \E p \in Request : Began(p) /\ c.row = held[p].row /\ c.at <= held[p].at + 1
GoodCookies == {NoCookie} \cup {c \in Cookie : InForce(c) /\ OfLogin(c)}

Bounded ==
  \E k \in Nat : (\A n \in SessionRows : n <= k) /\ (\A q \in Request : held[q].row <= k)
\* Rows are numbered in the order of their logins, up to a tick.
LoginsOrdered ==
  \A p, q \in Request : Began(p) /\ Began(q) /\ held[p].row <= held[q].row =>
    /\ held[p].at <= held[q].at + 1
    /\ held[p].row = held[q].row => p = q
RowsAreLogins ==
  \A s \in sessions :
    /\ s.version = 1
    /\ \E q \in Request : Began(q) /\ s.n = held[q].row /\ s.expires = held[q].at + RowTTL

Outlived(r) == held[r].at - held[r].cookie.at > IdleTTL
LaterRevoked(r) == \E n \in revoked : held[r].cookie.row <= n

\* Where a request is, and what it holds there.
Places(r) ==
  /\ held[r].at <= now
  /\ InFlight(r) => now <= held[r].at + 1
  /\ before[r] \subseteq revoked
  /\ pc[r] = "unsent" => held[r] = Nothing
  /\ pc[r] \in {"unsent"} \cup Handling \cup Responding => answer[r] = "none"
Writes(r) ==
  /\ pc[r] \in {"login", "insert", "sign", "set"} => r.kind = "login"
  /\ pc[r] = "login" => held[r].row = 0
  /\ pc[r] \in {"insert", "sign"} => held[r].row # 0
  /\ pc[r] = "sign" => held[r].row \in SessionRows
  /\ pc[r] \in {"load", "check", "revoke"} => r.kind # "login"
Resolves(r) ==
  /\ pc[r] \in {"load", "check"} => held[r].cookie # NoCookie
  /\ pc[r] \in {"check", "revoke"} => held[r].row \in SessionRows
  /\ pc[r] = "check" /\ held[r].valid => \A n \in before[r] : n < held[r].row
  /\ pc[r] = "check" /\ ~held[r].valid => (Outlived(r) \/ LaterRevoked(r))
\* What was answered, and why.
Heard(r) ==
  /\ r.kind = "visit" /\ answer[r] = "in" => \A n \in before[r] : n < held[r].row
  /\ r.kind = "read" /\ answer[r] = "in" => held[r].row \notin before[r]
  /\ r.kind = "visit" /\ answer[r] = "rejected" => NoProof(r) \/ Outlived(r) \/ LaterRevoked(r)
  /\ r.kind = "read" /\ answer[r] = "rejected" =>
       NoProof(r) \/ Expired(r) \/ held[r].cookie.row \in revoked
  /\ r.kind = "page" /\ answer[r] = "rejected" => NoProof(r) \/ Expired(r)

Fits(r) == Places(r) /\ Writes(r) /\ Resolves(r) /\ Heard(r)
SessionInv ==
  /\ TypeOK
  /\ KeysOrdered
  /\ Bounded
  /\ LoginsOrdered
  /\ RowsAreLogins
  /\ \A d \in Device : jar[d] \in GoodCookies
  /\ \A r \in Request : held[r].cookie \in GoodCookies
  /\ \A r \in Request : Fits(r)

-----------------------------------------------------------------------------
(* Highest numbers.                                                        *)

LEMMA LeastBound ==
  ASSUME NEW U \in SUBSET Nat, U # {}
  PROVE  \E x \in U : \A y \in U : x <= y
<1>1. PICK x \in U : \A y \in U : ~(<<y, x>> \in OpToRel(<, Nat))
  BY WFMin, NatLessThanWellFounded
<1>2. ASSUME NEW y \in U PROVE x <= y
  <2>1. ~(y < x)
    <3>1. <<y, x>> \in Nat \X Nat
      OBVIOUS
    <3> QED BY <1>1, <3>1 DEF OpToRel
  <2> QED BY <2>1
<1> QED BY <1>2

LEMMA MaxOfBounded ==
  ASSUME NEW S \in SUBSET Nat, S # {}, NEW k \in Nat, \A x \in S : x <= k
  PROVE  Max(S) \in S /\ \A x \in S : x <= Max(S)
<1> DEFINE U == {b \in Nat : \A x \in S : x <= b}
<1>1. PICK b \in U : \A y \in U : b <= y
  <2>1. U \in SUBSET Nat /\ k \in U
    OBVIOUS
  <2> QED BY <2>1, LeastBound
<1>2. b \in S
  <2> SUFFICES ASSUME b \notin S PROVE FALSE
    OBVIOUS
  <2>1. PICK x \in S : TRUE
    OBVIOUS
  <2>2. b - 1 \in Nat
    BY <2>1
  <2>3. b - 1 \in U
    BY <2>2
  <2> QED BY <1>1, <2>2, <2>3
<1>3. \E x \in S : \A y \in S : x >= y
  BY <1>2
<1> QED BY <1>3 DEF Max

LEMMA RowsAreNumbers ==
  ASSUME TypeOK
  PROVE  SessionRows \subseteq Nat \ {0} /\ revoked \subseteq SessionRows
BY DEF TypeOK, Row, SessionRows

\* Of rows there are, there is a latest.
LEMMA HighestOf ==
  ASSUME TypeOK, Bounded, NEW S \in SUBSET SessionRows, S # {}
  PROVE  Max(S) \in S /\ \A n \in S : n <= Max(S)
<1>1. PICK k \in Nat : \A n \in SessionRows : n <= k
  BY DEF Bounded
<1>2. S \in SUBSET Nat
  BY RowsAreNumbers
<1> QED BY <1>1, <1>2, MaxOfBounded

LEMMA LatestIsThere ==
  ASSUME TypeOK, Bounded, SessionRows # {}
  PROVE  Latest # {}
<1>1. Max(SessionRows) \in SessionRows /\ \A n \in SessionRows : n <= Max(SessionRows)
  BY HighestOf
<1>2. PICK s \in sessions : s.n = Max(SessionRows)
  BY <1>1 DEF SessionRows
<1>3. \A t \in sessions : t.n <= s.n
  BY <1>1, <1>2 DEF SessionRows
<1> QED BY <1>3 DEF Latest

-----------------------------------------------------------------------------
(* Keys: a cookie that lives verifies, unless its key was compromised.     *)

LEMMA LivingVerify ==
  ASSUME TypeOK, KeysOrdered, NEW c \in GoodCookies, c # NoCookie, now < c.at + CookieTTL
  PROVE  Verifies(c) <=> barred <= c.key
<1>1. InForce(c) /\ c \in Cookie
  BY DEF GoodCookies
<1>2. keys.current \in Nat \ {0} /\ keys.previous \in Nat /\ barred \in Nat
  BY TTLAssumption DEF TypeOK
<1>3. c.key \in Nat \ {0}
  BY <1>1, <1>2 DEF InForce
<1> QED BY <1>1, <1>2, <1>3 DEF InForce, KeysOrdered, Verifies, NoKey

LEMMA NotVerified ==
  ASSUME TypeOK, KeysOrdered, NEW c \in GoodCookies, ~Verifies(c)
  PROVE  c = NoCookie \/ c.key < barred \/ now >= c.at + CookieTTL
<1>1. c \in Cookie \/ c = NoCookie
  BY DEF GoodCookies
<1>2. c \in Cookie => c.key \in Nat /\ c.at + CookieTTL \in Nat
  BY TTLAssumption DEF Cookie
<1>3. now \in Nat /\ barred \in Nat
  BY DEF TypeOK
<1> QED BY <1>1, <1>2, <1>3, LivingVerify

-----------------------------------------------------------------------------
(* A step of one request r, by what it leaves alone.                       *)

StepOf(r) ==
  /\ UNCHANGED <<now, keyVars>>
  /\ sessions \subseteq sessions'
  /\ revoked \subseteq revoked'
  /\ \A s \in Request \ {r} : /\ pc'[s] = pc[s] /\ answer'[s] = answer[s]
                             /\ held'[s] = held[s] /\ before'[s] = before[s]
  /\ Began(r) => held'[r].row = held[r].row /\ held'[r].at = held[r].at

LEMMA RowsGrow ==
  ASSUME sessions \subseteq sessions'
  PROVE  SessionRows \subseteq SessionRows'
BY DEF SessionRows

LEMMA CookiesStay ==
  ASSUME TypeOK, NEW r \in Request, StepOf(r)
  PROVE  GoodCookies \subseteq GoodCookies'
<1> SUFFICES ASSUME NEW c \in GoodCookies PROVE c \in GoodCookies'
  OBVIOUS
<1>1. CASE c = NoCookie
  BY <1>1 DEF GoodCookies
<1>2. CASE c # NoCookie
  <2>1. c \in Cookie /\ InForce(c) /\ OfLogin(c)
    BY <1>2 DEF GoodCookies
  <2>2. InForce(c)'
    BY <2>1 DEF InForce, StepOf, keyVars
  <2>3. PICK p \in Request : Began(p) /\ c.row = held[p].row /\ c.at <= held[p].at + 1
    BY <2>1 DEF OfLogin
  <2>4. Began(p)' /\ held'[p].row = held[p].row /\ held'[p].at = held[p].at
    BY <2>3 DEF StepOf, Began
  <2>5. c.row \in SessionRows'
    BY <2>1, RowsGrow DEF OfLogin, StepOf
  <2>6. OfLogin(c)'
    BY <2>3, <2>4, <2>5 DEF OfLogin
  <2> QED BY <2>1, <2>2, <2>6 DEF GoodCookies
<1> QED BY <1>1, <1>2

\* A request that does not move, while keys, rows and revocations do.
LEMMA FitsStays ==
  ASSUME TypeOK, TypeOK', NEW s \in Request, Fits(s), UNCHANGED now,
         pc'[s] = pc[s], answer'[s] = answer[s], held'[s] = held[s], before'[s] = before[s],
         barred <= barred', revoked \subseteq revoked', SessionRows \subseteq SessionRows'
  PROVE  Fits(s)'
<1>1. Places(s)'
  BY DEF Fits, Places, InFlight
<1>2. Writes(s)'
  BY DEF Fits, Writes
<1>3. Outlived(s)' = Outlived(s) /\ (LaterRevoked(s) => LaterRevoked(s)')
  BY DEF Outlived, LaterRevoked
<1>4. NoProof(s) => NoProof(s)'
  <2>1. held[s].cookie.key \in Nat /\ barred \in Nat /\ barred' \in Nat
    BY DEF TypeOK, Cookie
  <2> QED BY <2>1 DEF NoProof
<1>5. Expired(s)' = Expired(s)
  BY DEF Expired
<1>6. Resolves(s)'
  BY <1>3 DEF Fits, Resolves
<1>7. Heard(s)'
  BY <1>3, <1>4, <1>5 DEF Fits, Heard
<1> QED BY <1>1, <1>2, <1>6, <1>7 DEF Fits

\* Rows and logins stand while no INSERT starts or is committed.
LEMMA LoginsStand ==
  ASSUME SessionInv, NEW r \in Request, StepOf(r), sessions' = sessions,
         r.kind = "login" => held'[r].row = held[r].row,
         held'[r].row = held[r].row \/ held'[r].row \in SessionRows
  PROVE  Bounded' /\ LoginsOrdered' /\ RowsAreLogins'
<1> USE DEF SessionInv
<1>1. SessionRows' = SessionRows
  BY DEF SessionRows
<1>2. Bounded'
  <2>1. PICK k \in Nat : (\A n \in SessionRows : n <= k) /\ (\A q \in Request : held[q].row <= k)
    BY DEF Bounded
  <2>2. \A q \in Request : held'[q].row <= k
    BY <2>1 DEF StepOf
  <2> QED BY <1>1, <2>1, <2>2 DEF Bounded
<1>3. \A q \in Request : Began(q)' <=> Began(q)
  BY DEF Began, StepOf
<1>4. \A q \in Request : Began(q) => held'[q].row = held[q].row /\ held'[q].at = held[q].at
  BY DEF StepOf
<1>5. LoginsOrdered'
  BY <1>3, <1>4 DEF LoginsOrdered
<1>6. RowsAreLogins'
  BY <1>3, <1>4 DEF RowsAreLogins
<1> QED BY <1>2, <1>5, <1>6

LEMMA Moves ==
  ASSUME NEW r \in Request, SessionInv, TypeOK', StepOf(r),
         Bounded', LoginsOrdered', RowsAreLogins',
         \A d \in Device : jar'[d] = jar[d] \/ jar'[d] \in GoodCookies,
         held'[r].cookie \in GoodCookies',
         Fits(r)'
  PROVE  SessionInv'
<1> USE DEF SessionInv
<1>1. KeysOrdered'
  BY DEF KeysOrdered, StepOf, keyVars
<1>2. \A d \in Device : jar'[d] \in GoodCookies'
  BY CookiesStay
<1>3. \A s \in Request : held'[s].cookie \in GoodCookies'
  <2>1. ASSUME NEW s \in Request \ {r} PROVE held'[s].cookie \in GoodCookies'
    <3>1. held'[s] = held[s]
      BY DEF StepOf
    <3> QED BY <3>1, CookiesStay
  <2> QED BY <2>1
<1>4. \A s \in Request : Fits(s)'
  <2>1. ASSUME NEW s \in Request \ {r} PROVE Fits(s)'
    <3>1. barred <= barred'
      BY DEF TypeOK, StepOf, keyVars
    <3>2. SessionRows \subseteq SessionRows' /\ UNCHANGED now /\ revoked \subseteq revoked'
      BY RowsGrow DEF StepOf
    <3>3. pc'[s] = pc[s] /\ answer'[s] = answer[s] /\ held'[s] = held[s] /\ before'[s] = before[s]
      BY DEF StepOf
    <3> QED BY <3>1, <3>2, <3>3, FitsStays
  <2> QED BY <2>1
<1> QED BY <1>1, <1>2, <1>3, <1>4

-----------------------------------------------------------------------------
(* What a handler holds, as the steps change it.                           *)

Held == [cookie: Cookie, at: 0..TimeMax, row: Nat, valid: BOOLEAN]
LEMMA HeldType == TypeOK => held \in [Request -> Held]
BY DEF TypeOK, Held

Dated(h, t) == [h EXCEPT !.at = t]
LEMMA HeldDated ==
  ASSUME NEW h \in Held, NEW t \in 0..TimeMax
  PROVE  /\ Dated(h, t) \in Held /\ Dated(h, t).at = t
         /\ Dated(h, t).cookie = h.cookie /\ Dated(h, t).row = h.row
BY DEF Held, Dated

Numbered(h, n) == [h EXCEPT !.row = n]
LEMMA HeldNumbered ==
  ASSUME NEW h \in Held, NEW n \in Nat
  PROVE  /\ Numbered(h, n) \in Held /\ Numbered(h, n).row = n
         /\ Numbered(h, n).cookie = h.cookie /\ Numbered(h, n).at = h.at
BY DEF Held, Numbered

Judged(h, n, b) == [h EXCEPT !.row = n, !.valid = b]
LEMMA HeldJudged ==
  ASSUME NEW h \in Held, NEW n \in Nat, NEW b \in BOOLEAN
  PROVE  /\ Judged(h, n, b) \in Held /\ Judged(h, n, b).row = n /\ Judged(h, n, b).valid = b
         /\ Judged(h, n, b).cookie = h.cookie /\ Judged(h, n, b).at = h.at
BY DEF Held, Judged

Signed(h, c) == [h EXCEPT !.cookie = c]
LEMMA HeldSigned ==
  ASSUME NEW h \in Held, NEW c \in Cookie
  PROVE  /\ Signed(h, c) \in Held /\ Signed(h, c).cookie = c
         /\ Signed(h, c).row = h.row /\ Signed(h, c).at = h.at
BY DEF Held, Signed

Starting(c, t) == [Nothing EXCEPT !.cookie = c, !.at = t]
LEMMA HeldStarting ==
  ASSUME NEW c \in Cookie, NEW t \in 0..TimeMax
  PROVE  /\ Starting(c, t) \in Held /\ Starting(c, t).cookie = c
         /\ Starting(c, t).at = t /\ Starting(c, t).row = 0
<1>1. Nothing \in Held /\ Nothing.row = 0
  BY TTLAssumption DEF Held, Nothing, NoCookie, Cookie, NoKey
<1> QED BY <1>1 DEF Held, Starting

\* A step of r that is not one of the rows: what has to be shown of it.
LEMMA Turns ==
  ASSUME SessionInv, NEW r \in Request,
         UNCHANGED <<now, keyVars, sessions>>, revoked \subseteq revoked', revoked' \subseteq SessionRows,
         NEW label \in Labels, pc' = [pc EXCEPT ![r] = label],
         NEW what \in Answers, answer' = [answer EXCEPT ![r] = what],
         NEW h \in Held, held' = [held EXCEPT ![r] = h],
         NEW b \in SUBSET Nat, before' = [before EXCEPT ![r] = b],
         NEW c \in GoodCookies, jar' = jar \/ jar' = [jar EXCEPT ![r.device] = c],
         h.cookie \in GoodCookies,
         h.row = held[r].row \/ (h.row \in SessionRows /\ r.kind # "login"),
         Began(r) => h.at = held[r].at,
         pc'[r] = label /\ answer'[r] = what /\ held'[r] = h /\ before'[r] = b => Fits(r)'
  PROVE  SessionInv'
<1>0. TypeOK
  BY DEF SessionInv
<1>1. /\ pc'[r] = label /\ answer'[r] = what /\ held'[r] = h /\ before'[r] = b
      /\ \A s \in Request \ {r} : /\ pc'[s] = pc[s] /\ answer'[s] = answer[s]
                                /\ held'[s] = held[s] /\ before'[s] = before[s]
  BY <1>0 DEF TypeOK
<1>2. TypeOK'
  <2>1. GoodCookies \subseteq Cookie
    BY TTLAssumption DEF GoodCookies, NoCookie, Cookie, NoKey
  <2>2. held' \in [Request -> [cookie: Cookie, at: 0..TimeMax, row: Nat, valid: BOOLEAN]]
    BY <1>0, HeldType DEF Held
  <2>3. jar' \in [Device -> Cookie]
    BY <1>0, <2>1 DEF TypeOK
  <2>4. revoked' \subseteq {s.n : s \in sessions'}
    BY DEF SessionRows
  <2>5. pc' \in [Request -> Labels] /\ answer' \in [Request -> Answers] /\ before' \in [Request -> SUBSET Nat]
    BY <1>0 DEF TypeOK
  <2> QED BY <1>0, <2>2, <2>3, <2>4, <2>5 DEF TypeOK, keyVars
<1>3. StepOf(r)
  BY <1>0, <1>1, RowsAreNumbers DEF StepOf, Began
<1>4. Bounded' /\ LoginsOrdered' /\ RowsAreLogins'
  BY <1>1, <1>3, LoginsStand
<1>5. \A d \in Device : jar'[d] = jar[d] \/ jar'[d] \in GoodCookies
  BY <1>0, RequestAssumption DEF TypeOK
<1>6. held'[r].cookie \in GoodCookies'
  BY <1>0, <1>1, <1>3, CookiesStay
<1>7. Fits(r)'
  BY <1>1
<1> QED BY <1>2, <1>3, <1>4, <1>5, <1>6, <1>7, Moves

\* A step that touches no row, no revocation and no device.
LEMMA Continues ==
  ASSUME SessionInv, NEW r \in Request, pc[r] \in Handling \cup Responding,
         UNCHANGED <<now, keyVars, sessionVars, jar, before>>,
         NEW label \in Labels \ {"unsent"}, pc' = [pc EXCEPT ![r] = label],
         NEW what \in Answers, answer' = [answer EXCEPT ![r] = what],
         NEW h \in Held, held' = [held EXCEPT ![r] = h],
         label # "answered" => what = "none",
         h.cookie \in GoodCookies,
         h.row = held[r].row \/ (h.row \in SessionRows /\ r.kind # "login"),
         h.at = held[r].at \/ (h.at = now /\ r.kind # "login"),
         pc'[r] = label /\ answer'[r] = what /\ held'[r] = h =>
           Writes(r)' /\ Resolves(r)' /\ Heard(r)'
  PROVE  SessionInv'
<1>1. TypeOK /\ Fits(r) /\ revoked \subseteq SessionRows
  BY RowsAreNumbers DEF SessionInv
<1>2. PICK b \in SUBSET Nat : b = before[r]
  BY <1>1 DEF TypeOK
<1>3. before' = [before EXCEPT ![r] = b]
  BY <1>1, <1>2 DEF TypeOK
<1>4. NoCookie \in GoodCookies
  BY DEF GoodCookies
<1>5. Began(r) => h.at = held[r].at
  BY DEF Began
<1>6. pc'[r] = label /\ answer'[r] = what /\ held'[r] = h /\ before'[r] = b
  BY <1>1, <1>3 DEF TypeOK
<1>7. Fits(r)'
  <2>1. h.at <= now /\ now <= h.at + 1 /\ before[r] \subseteq revoked
    BY <1>1 DEF Fits, Places, InFlight, TypeOK
  <2>2. Places(r)'
    BY <1>2, <1>6, <2>1 DEF Places, InFlight, sessionVars, Handling, Responding
  <2> QED BY <1>6, <2>2 DEF Fits
<1>8. /\ UNCHANGED <<now, keyVars, sessions>> /\ revoked \subseteq revoked'
      /\ revoked' \subseteq SessionRows /\ label \in Labels /\ jar' = jar
  BY <1>1 DEF sessionVars
<1> QED BY <1>3, <1>4, <1>5, <1>7, <1>8, Turns

\* Then and UNCHANGED held, as updates of r.
LEMMA ThenGoes ==
  ASSUME TypeOK, NEW r \in Request, NEW label, Then(r, label)
  PROVE  pc' = [pc EXCEPT ![r] = label] /\ answer' = [answer EXCEPT ![r] = answer[r]]
BY DEF Then, Goto, TypeOK

LEMMA HeldStays ==
  ASSUME TypeOK, NEW r \in Request, UNCHANGED held
  PROVE  held' = [held EXCEPT ![r] = held[r]]
BY DEF TypeOK

LEMMA NoneYet ==
  ASSUME SessionInv, NEW r \in Request, pc[r] \in Handling \cup Responding
  PROVE  answer[r] = "none" /\ held[r] \in Held /\ held[r].cookie \in GoodCookies
BY HeldType DEF SessionInv, Fits, Places

LEMMA EndFits ==
  ASSUME NEW r \in Request, pc'[r] = "answered", answer'[r] \notin {"in", "rejected"}
  PROVE  Writes(r)' /\ Resolves(r)' /\ Heard(r)'
BY DEF Writes, Resolves, Heard

LEMMA EndKeeps ==
  ASSUME SessionInv, NEW r \in Request, Refuse(r) \/ Fail(r)
  PROVE  SessionInv'
<1>1. /\ pc[r] \in Handling \cup Responding
      /\ UNCHANGED <<now, keyVars, sessionVars, jar, held, before>>
      /\ \E what \in {"refused", "error"} : Tell(r, what)
  BY DEF Refuse, Fail, At, Handling, Responding
<1>2. PICK what \in {"refused", "error"} :
        pc' = [pc EXCEPT ![r] = "answered"] /\ answer' = [answer EXCEPT ![r] = what]
  BY <1>1 DEF Tell, Goto
<1>3. PICK h : h = held[r]
  OBVIOUS
<1>4. TypeOK /\ held' = [held EXCEPT ![r] = h] /\ h \in Held /\ h.cookie \in GoodCookies
  BY <1>1, <1>3, HeldStays, NoneYet DEF SessionInv
<1>5. "answered" \in Labels \ {"unsent"} /\ what \in Answers
  BY DEF Labels, Answers
<1>6. pc'[r] = "answered" /\ answer'[r] = what => Writes(r)' /\ Resolves(r)' /\ Heard(r)'
  BY EndFits
<1> QED BY <1>1, <1>2, <1>3, <1>4, <1>5, <1>6, Continues

LEMMA SignKeeps ==
  ASSUME SessionInv, NEW r \in Request, Sign(r)
  PROVE  SessionInv'
<1>1. pc[r] = "sign" /\ pc[r] \in Handling \cup Responding /\ r.kind = "login"
  BY DEF Sign, At, Handling
<1>2. TypeOK /\ Fits(r) /\ answer[r] = "none" /\ held[r] \in Held
  BY <1>1, NoneYet DEF SessionInv
<1>3. PICK c : c = [key |-> keys.current, at |-> now, row |-> held[r].row]
  OBVIOUS
<1>4. c \in Cookie
  BY <1>2, <1>3 DEF TypeOK, Cookie, Held
<1>5. c \in GoodCookies
  <2>1. InForce(c)
    BY <1>2, <1>3, TTLAssumption DEF InForce, TypeOK
  <2>2. held[r].row \in SessionRows /\ Began(r) /\ now <= held[r].at + 1
    BY <1>1, <1>2 DEF Fits, Writes, Places, InFlight, Began
  <2>3. OfLogin(c)
    BY <1>3, <2>2 DEF OfLogin
  <2> QED BY <1>4, <2>1, <2>3 DEF GoodCookies
<1>6. PICK h : h = Signed(held[r], c)
  OBVIOUS
<1>7. h \in Held /\ h.cookie = c /\ h.row = held[r].row /\ h.at = held[r].at
  BY <1>2, <1>4, <1>6, HeldSigned
<1>8. held' = [held EXCEPT ![r] = h]
  BY <1>3, <1>6 DEF Sign, Keep, Signed
<1>9. pc' = [pc EXCEPT ![r] = "set"] /\ answer' = [answer EXCEPT ![r] = "none"]
  BY <1>2, ThenGoes DEF Sign
<1>10. UNCHANGED <<now, keyVars, sessionVars, jar, before>>
  BY DEF Sign
<1>11. "set" \in Labels \ {"unsent"} /\ "none" \in Answers
  BY DEF Labels, Answers, Responding
<1>12. pc'[r] = "set" /\ answer'[r] = "none" => Writes(r)' /\ Resolves(r)' /\ Heard(r)'
  BY <1>1 DEF Writes, Resolves, Heard
<1> QED BY <1>1, <1>5, <1>7, <1>8, <1>9, <1>10, <1>11, <1>12, Continues

\* A cookie that is decoded is one; one that is not has a reason.
LEMMA DecodedIsCookie ==
  ASSUME NEW r \in Request, Decoded(r)
  PROVE  held[r].cookie # NoCookie
BY DEF Decoded, Verifies, NoCookie, NoKey

LEMMA DecodeKeeps ==
  ASSUME SessionInv, NEW r \in Request, Decode(r)
  PROVE  SessionInv'
<1>1. pc[r] = "decode" /\ pc[r] \in Handling \cup Responding /\ r.kind \in {"visit", "logout"}
  BY DEF Decode, Handling
<1>2. TypeOK /\ KeysOrdered /\ answer[r] = "none" /\ held[r] \in Held /\ held[r].cookie \in GoodCookies
  BY <1>1, NoneYet DEF SessionInv
<1>3. PICK h : h = Dated(held[r], now)
  OBVIOUS
<1>4. h \in Held /\ h.cookie = held[r].cookie /\ h.row = held[r].row /\ h.at = now
  BY <1>2, <1>3, HeldDated DEF TypeOK
<1>5. held' = [held EXCEPT ![r] = h] /\ UNCHANGED <<now, keyVars, sessionVars, jar, before>>
  BY <1>3 DEF Decode, Keep, Dated
<1>6. CASE Decoded(r) /\ Fresh(held[r].cookie)
  <2>1. pc' = [pc EXCEPT ![r] = "load"] /\ answer' = [answer EXCEPT ![r] = "none"]
    BY <1>2, <1>6, ThenGoes DEF Decode
  <2>2. "load" \in Labels \ {"unsent"} /\ "none" \in Answers
    BY DEF Labels, Answers, Handling
  <2>3. pc'[r] = "load" /\ answer'[r] = "none" /\ held'[r] = h => Writes(r)' /\ Resolves(r)' /\ Heard(r)'
    BY <1>1, <1>4, <1>6, DecodedIsCookie DEF Writes, Resolves, Heard
  <2> QED BY <1>1, <1>2, <1>4, <1>5, <2>1, <2>2, <2>3, Continues
<1>7. CASE (~Decoded(r) \/ ~Fresh(held[r].cookie)) /\ r.kind = "logout"
  <2>1. pc' = [pc EXCEPT ![r] = "clear"] /\ answer' = [answer EXCEPT ![r] = "none"]
    BY <1>2, <1>7, ThenGoes DEF Decode, Unresolved
  <2>2. "clear" \in Labels \ {"unsent"} /\ "none" \in Answers
    BY DEF Labels, Answers, Responding
  <2>3. pc'[r] = "clear" /\ answer'[r] = "none" /\ held'[r] = h => Writes(r)' /\ Resolves(r)' /\ Heard(r)'
    BY DEF Writes, Resolves, Heard
  <2> QED BY <1>1, <1>2, <1>4, <1>5, <2>1, <2>2, <2>3, Continues
<1>8. CASE (~Decoded(r) \/ ~Fresh(held[r].cookie)) /\ r.kind = "visit"
  <2>1. pc' = [pc EXCEPT ![r] = "answered"] /\ answer' = [answer EXCEPT ![r] = "rejected"]
    BY <1>8 DEF Decode, Unresolved, Tell, Goto
  <2>2. "answered" \in Labels \ {"unsent"} /\ "rejected" \in Answers
    BY DEF Labels, Answers
  <2>3. held[r].cookie = NoCookie \/ held[r].cookie.key < barred \/ now - held[r].cookie.at > IdleTTL
    <3>1. held[r].cookie.at \in Int /\ now \in Int
      BY <1>2 DEF Held, Cookie, TypeOK
    <3> QED BY <1>2, <1>8, <3>1, NotVerified, TTLAssumption DEF Decoded, Fresh
  <2>4. pc'[r] = "answered" /\ answer'[r] = "rejected" /\ held'[r] = h =>
          Writes(r)' /\ Resolves(r)' /\ Heard(r)'
    BY <1>4, <1>5, <1>8, <2>3 DEF Writes, Resolves, Heard, NoProof, Outlived, keyVars
  <2> QED BY <1>1, <1>2, <1>4, <1>5, <2>1, <2>2, <2>4, Continues
<1> QED BY <1>1, <1>6, <1>7, <1>8

\* A read and a page: whatever is turned away lacks a proof, or its time is up.
LEMMA TurnedAway ==
  ASSUME SessionInv, NEW r \in Request, ~Decoded(r), UNCHANGED keyVars,
         pc[r] \in Handling \cup Responding,
         r.kind \in {"read", "page"},
         pc'[r] = "answered", answer'[r] = "rejected",
         held'[r].cookie = held[r].cookie, held'[r].at = now
  PROVE  Writes(r)' /\ Resolves(r)' /\ Heard(r)'
<1>1. TypeOK /\ KeysOrdered /\ held[r].cookie \in GoodCookies
  BY DEF SessionInv
<1>2. held[r].cookie = NoCookie \/ held[r].cookie.key < barred \/ now >= held[r].cookie.at + CookieTTL
  BY <1>1, NotVerified DEF Decoded
<1> QED BY <1>2 DEF Writes, Resolves, Heard, NoProof, Expired, keyVars

LEMMA DecodeReadKeeps ==
  ASSUME SessionInv, NEW r \in Request, DecodeRead(r)
  PROVE  SessionInv'
<1>1. pc[r] = "decode" /\ pc[r] \in Handling \cup Responding /\ r.kind = "read"
  BY DEF DecodeRead, Handling, At
<1>2. TypeOK /\ answer[r] = "none" /\ held[r] \in Held /\ held[r].cookie \in GoodCookies
  BY <1>1, NoneYet DEF SessionInv
<1>3. PICK h : h = Dated(held[r], now)
  OBVIOUS
<1>4. h \in Held /\ h.cookie = held[r].cookie /\ h.row = held[r].row /\ h.at = now
  BY <1>2, <1>3, HeldDated DEF TypeOK
<1>5. held' = [held EXCEPT ![r] = h] /\ UNCHANGED <<now, keyVars, sessionVars, jar, before>>
  BY <1>3 DEF DecodeRead, Keep, Dated
<1>6. CASE Decoded(r)
  <2>1. pc' = [pc EXCEPT ![r] = "load"] /\ answer' = [answer EXCEPT ![r] = "none"]
    BY <1>2, <1>6, ThenGoes DEF DecodeRead
  <2>2. "load" \in Labels \ {"unsent"} /\ "none" \in Answers
    BY DEF Labels, Answers, Handling
  <2>3. pc'[r] = "load" /\ answer'[r] = "none" /\ held'[r] = h => Writes(r)' /\ Resolves(r)' /\ Heard(r)'
    BY <1>1, <1>4, <1>6, DecodedIsCookie DEF Writes, Resolves, Heard
  <2> QED BY <1>1, <1>2, <1>4, <1>5, <2>1, <2>2, <2>3, Continues
<1>7. CASE ~Decoded(r)
  <2>1. pc' = [pc EXCEPT ![r] = "answered"] /\ answer' = [answer EXCEPT ![r] = "rejected"]
    BY <1>7 DEF DecodeRead, Tell, Goto
  <2>2. "answered" \in Labels \ {"unsent"} /\ "rejected" \in Answers
    BY DEF Labels, Answers
  <2>3. UNCHANGED keyVars
    BY <1>5
  <2>4. pc'[r] = "answered" /\ answer'[r] = "rejected" /\ held'[r] = h =>
          Writes(r)' /\ Resolves(r)' /\ Heard(r)'
    BY <1>1, <1>4, <1>7, <2>3, TurnedAway
  <2> QED BY <1>1, <1>2, <1>4, <1>5, <2>1, <2>2, <2>4, Continues
<1> QED BY <1>6, <1>7

LEMMA GuardKeeps ==
  ASSUME SessionInv, NEW r \in Request, Guard(r)
  PROVE  SessionInv'
<1>1. pc[r] = "decode" /\ pc[r] \in Handling \cup Responding /\ r.kind = "page"
  BY DEF Guard, Handling, At
<1>2. TypeOK /\ held[r] \in Held /\ held[r].cookie \in GoodCookies
  BY <1>1, NoneYet DEF SessionInv
<1>3. PICK h : h = Dated(held[r], now)
  OBVIOUS
<1>4. h \in Held /\ h.cookie = held[r].cookie /\ h.row = held[r].row /\ h.at = now
  BY <1>2, <1>3, HeldDated DEF TypeOK
<1>5. held' = [held EXCEPT ![r] = h] /\ UNCHANGED <<now, keyVars, sessionVars, jar, before>>
  BY <1>3 DEF Guard, Keep, Dated
<1>6. "answered" \in Labels \ {"unsent"} /\ {"in", "refused", "rejected"} \subseteq Answers
  BY DEF Labels, Answers
<1>7. CASE Decoded(r)
  <2>1. PICK what \in {"in", "refused"} :
          pc' = [pc EXCEPT ![r] = "answered"] /\ answer' = [answer EXCEPT ![r] = what]
    BY <1>7 DEF Guard, Tell, Goto
  <2>2. pc'[r] = "answered" /\ answer'[r] = what /\ held'[r] = h =>
          Writes(r)' /\ Resolves(r)' /\ Heard(r)'
    BY <1>1 DEF Writes, Resolves, Heard
  <2>3. what \in Answers /\ h.cookie \in GoodCookies
    BY <1>2, <1>4, <1>6
  <2> QED BY <1>1, <1>4, <1>5, <1>6, <2>1, <2>2, <2>3, Continues
<1>8. CASE ~Decoded(r)
  <2>1. pc' = [pc EXCEPT ![r] = "answered"] /\ answer' = [answer EXCEPT ![r] = "rejected"]
    BY <1>8 DEF Guard, Tell, Goto
  <2>2. UNCHANGED keyVars
    BY <1>5
  <2>3. pc'[r] = "answered" /\ answer'[r] = "rejected" /\ held'[r] = h =>
          Writes(r)' /\ Resolves(r)' /\ Heard(r)'
    BY <1>1, <1>4, <1>8, <2>2, TurnedAway
  <2> QED BY <1>1, <1>2, <1>4, <1>5, <1>6, <2>1, <2>3, Continues
<1> QED BY <1>7, <1>8

\* A session that was the latest and had run out was far behind the cookie's end.
LEMMA LatestOutlives ==
  ASSUME SessionInv, NEW r \in Request, held[r].cookie # NoCookie,
         NEW s \in sessions, held[r].cookie.row <= s.n, held[r].at >= s.expires
  PROVE  Outlived(r)
<1>1. TypeOK /\ LoginsOrdered /\ RowsAreLogins /\ held[r].cookie \in GoodCookies
  BY DEF SessionInv
<1>2. held \in [Request -> Held]
  BY <1>1, HeldType
<1>3. PICK p \in Request : Began(p) /\ held[r].cookie.row = held[p].row
                         /\ held[r].cookie.at <= held[p].at + 1
  BY <1>1 DEF GoodCookies, OfLogin
<1>4. PICK q \in Request : Began(q) /\ s.n = held[q].row /\ s.expires = held[q].at + RowTTL
  BY <1>1 DEF RowsAreLogins
<1>5. held[p].at <= held[q].at + 1
  BY <1>1, <1>3, <1>4 DEF LoginsOrdered
<1>6. held[r].at \in Nat /\ held[r].cookie.at \in Nat /\ held[p].at \in Nat /\ held[q].at \in Nat
  BY <1>2 DEF Held, Cookie
<1> QED BY <1>3, <1>4, <1>5, <1>6, TTLAssumption DEF Outlived

LEMMA LoadLatestKeeps ==
  ASSUME SessionInv, NEW r \in Request, LoadLatest(r)
  PROVE  SessionInv'
<1>1. pc[r] = "load" /\ pc[r] \in Handling \cup Responding
  BY DEF LoadLatest, Handling
<1>2. TypeOK /\ Bounded /\ Fits(r) /\ answer[r] = "none" /\ held[r] \in Held
      /\ held[r].cookie \in GoodCookies
  BY <1>1, NoneYet DEF SessionInv
<1>3. r.kind # "login" /\ held[r].cookie # NoCookie
  BY <1>1, <1>2 DEF Fits, Writes, Resolves
<1>4. held[r].cookie.row \in SessionRows
  BY <1>2, <1>3 DEF GoodCookies, OfLogin
<1>5. Latest # {}
  BY <1>2, <1>4, LatestIsThere
<1>6. PICK s \in Latest :
        Keep(r, [held[r] EXCEPT !.row = s.n, !.valid = s.n \notin revoked /\ held[r].at < s.expires])
  BY <1>5 DEF LoadLatest
<1>7. s \in sessions /\ s.n \in SessionRows /\ s.n \in Nat /\ \A n \in SessionRows : n <= s.n
  <2>1. s \in sessions /\ s.n \in SessionRows /\ \A n \in SessionRows : n <= s.n
    BY DEF Latest, SessionRows
  <2> QED BY <1>2, <2>1, RowsAreNumbers
<1>8. PICK b \in BOOLEAN : b <=> (s.n \notin revoked /\ held[r].at < s.expires)
  OBVIOUS
<1>9. PICK h : h = Judged(held[r], s.n, b)
  OBVIOUS
<1>10. /\ h \in Held /\ h.cookie = held[r].cookie /\ h.row = s.n /\ h.at = held[r].at
       /\ h.valid <=> b
  BY <1>2, <1>7, <1>9, HeldJudged
<1>11. held' = [held EXCEPT ![r] = h]
  <2>1. b = (s.n \notin revoked /\ held[r].at < s.expires)
    BY <1>8
  <2> QED BY <1>6, <1>9, <2>1 DEF Keep, Judged
<1>12. pc' = [pc EXCEPT ![r] = "check"] /\ answer' = [answer EXCEPT ![r] = "none"]
  BY <1>2, <1>5, ThenGoes DEF LoadLatest
<1>13. UNCHANGED <<now, keyVars, sessionVars, jar, before>>
  BY DEF LoadLatest
<1>14. "check" \in Labels \ {"unsent"} /\ "none" \in Answers
  BY DEF Labels, Answers, Handling
<1>15. b => \A n \in before[r] : n < s.n
  <2>1. before[r] \subseteq revoked /\ revoked \subseteq SessionRows /\ SessionRows \subseteq Nat
    BY <1>2, RowsAreNumbers DEF Fits, Places
  <2>2. b => s.n \notin revoked
    BY <1>8
  <2>3. ASSUME NEW n \in before[r], s.n \notin revoked PROVE n < s.n
    <3>1. n \in SessionRows /\ n \in Nat /\ n # s.n
      BY <2>1, <2>3
    <3>2. n <= s.n /\ s.n \in Nat
      BY <1>7, <3>1
    <3> QED BY <3>1, <3>2
  <2> QED BY <2>2, <2>3
<1>16. ~b => Outlived(r) \/ LaterRevoked(r)
  <2>1. CASE s.n \in revoked
    BY <1>4, <1>7, <2>1 DEF LaterRevoked
  <2>2. CASE ~(held[r].at < s.expires)
    <3>1. held[r].at \in Nat /\ s.expires \in Nat
      BY <1>2, <1>7 DEF Held, TypeOK, Row
    <3>2. held[r].at >= s.expires
      BY <2>2, <3>1
    <3> QED BY <1>3, <1>4, <1>7, <3>2, LatestOutlives
  <2> QED BY <1>8, <2>1, <2>2
<1>17. pc'[r] = "check" /\ answer'[r] = "none" /\ held'[r] = h =>
         Writes(r)' /\ Resolves(r)' /\ Heard(r)'
  <2> SUFFICES ASSUME pc'[r] = "check", answer'[r] = "none", held'[r] = h
               PROVE  Writes(r)' /\ Resolves(r)' /\ Heard(r)'
    OBVIOUS
  <2>1. SessionRows' = SessionRows /\ before' = before /\ revoked' = revoked
    BY <1>13 DEF sessionVars, SessionRows
  <2>2. b => \A n \in before'[r] : n < held'[r].row
    BY <1>10, <1>15, <2>1
  <2>3. ~b => Outlived(r)' \/ LaterRevoked(r)'
    BY <1>10, <1>16, <2>1 DEF Outlived, LaterRevoked
  <2>4. Resolves(r)'
    <3>1. held'[r].cookie # NoCookie /\ held'[r].row \in SessionRows'
      BY <1>3, <1>7, <1>10, <2>1
    <3>2. held'[r].valid <=> b
      BY <1>10
    <3> QED BY <2>2, <2>3, <3>1, <3>2, Zenon DEF Resolves
  <2> QED BY <1>3, <2>4 DEF Writes, Heard
<1>18. h.row \in SessionRows /\ r.kind # "login" /\ h.cookie \in GoodCookies
  BY <1>2, <1>3, <1>7, <1>10
<1>19. h \in Held /\ h.at = held[r].at
  BY <1>10
<1> QED BY <1>1, <1>11, <1>12, <1>13, <1>14, <1>17, <1>18, <1>19, Continues

\* Every row has the version that a login issues.
LEMMA VersionsAreOne ==
  ASSUME RowsAreLogins, NEW n \in SessionRows
  PROVE  /\ (CHOOSE s \in sessions : s.n = n).version = 1
         /\ Max({s.version : s \in sessions}) = 1
<1>1. \E s \in sessions : s.n = n
  BY DEF SessionRows
<1>2. {s.version : s \in sessions} = {1}
  BY <1>1 DEF RowsAreLogins
<1>3. (CHOOSE s \in sessions : s.n = n) \in sessions
  BY <1>1
<1>4. Max({1}) = 1
  BY DEF Max
<1> QED BY <1>2, <1>3, <1>4 DEF RowsAreLogins

LEMMA CheckVersionKeeps ==
  ASSUME SessionInv, NEW r \in Request, CheckVersion(r)
  PROVE  SessionInv'
<1>1. pc[r] = "check" /\ pc[r] \in Handling \cup Responding
  BY DEF CheckVersion, Handling
<1>2. TypeOK /\ RowsAreLogins /\ Fits(r) /\ answer[r] = "none" /\ held[r] \in Held
      /\ held[r].cookie \in GoodCookies
  BY <1>1, NoneYet DEF SessionInv
<1>3. held[r].row \in SessionRows
  BY <1>1, <1>2 DEF Fits, Resolves
<1>4. PICK h : h = held[r]
  OBVIOUS
<1>5. held' = [held EXCEPT ![r] = h] /\ h \in Held /\ h.cookie \in GoodCookies
  BY <1>2, <1>4, HeldStays DEF CheckVersion
<1>6. UNCHANGED <<now, keyVars, sessionVars, jar, before>>
  BY DEF CheckVersion
<1>7. \/ /\ ~held[r].valid /\ r.kind = "visit" /\ Tell(r, "rejected")
      \/ r.kind = "visit" /\ held[r].valid /\ Tell(r, "in")
      \/ \E label \in {"clear", "revoke"} : Then(r, label)
  <2>1. ~((CHOOSE s \in sessions : s.n = held[r].row).version < Max({s.version : s \in sessions}))
    BY <1>2, <1>3, VersionsAreOne
  <2>2. IF ~held[r].valid THEN Unresolved(r)
        ELSE IF r.kind = "visit" THEN Tell(r, "in") ELSE Then(r, "revoke")
    BY <2>1 DEF CheckVersion
  <2> QED BY <2>2 DEF Unresolved
<1>8. SessionRows' = SessionRows /\ before' = before /\ revoked' = revoked
  BY <1>6 DEF sessionVars, SessionRows
<1>9. CASE ~held[r].valid /\ r.kind = "visit" /\ Tell(r, "rejected")
  <2>1. pc' = [pc EXCEPT ![r] = "answered"] /\ answer' = [answer EXCEPT ![r] = "rejected"]
    BY <1>9 DEF Tell, Goto
  <2>2. Outlived(r) \/ LaterRevoked(r)
    BY <1>1, <1>2, <1>9 DEF Fits, Resolves
  <2>3. "answered" \in Labels \ {"unsent"} /\ "rejected" \in Answers
    BY DEF Labels, Answers
  <2>4. pc'[r] = "answered" /\ answer'[r] = "rejected" /\ held'[r] = h =>
          Writes(r)' /\ Resolves(r)' /\ Heard(r)'
    BY <1>4, <1>8, <1>9, <2>2 DEF Writes, Resolves, Heard, Outlived, LaterRevoked
  <2> QED BY <1>1, <1>4, <1>5, <1>6, <2>1, <2>3, <2>4, Continues
<1>10. CASE r.kind = "visit" /\ held[r].valid /\ Tell(r, "in")
  <2>1. pc' = [pc EXCEPT ![r] = "answered"] /\ answer' = [answer EXCEPT ![r] = "in"]
    BY <1>10 DEF Tell, Goto
  <2>2. \A n \in before[r] : n < held[r].row
    BY <1>1, <1>2, <1>10 DEF Fits, Resolves
  <2>3. "answered" \in Labels \ {"unsent"} /\ "in" \in Answers
    BY DEF Labels, Answers
  <2>4. pc'[r] = "answered" /\ answer'[r] = "in" /\ held'[r] = h =>
          Writes(r)' /\ Resolves(r)' /\ Heard(r)'
    BY <1>4, <1>8, <1>10, <2>2 DEF Writes, Resolves, Heard
  <2> QED BY <1>1, <1>4, <1>5, <1>6, <2>1, <2>3, <2>4, Continues
<1>11. CASE \E label \in {"clear", "revoke"} : Then(r, label)
  <2>1. PICK label \in {"clear", "revoke"} :
          pc' = [pc EXCEPT ![r] = label] /\ answer' = [answer EXCEPT ![r] = "none"]
    BY <1>2, <1>11, ThenGoes
  <2>2. label \in Labels \ {"unsent"} /\ "none" \in Answers
    BY DEF Labels, Answers, Handling, Responding
  <2>3. r.kind # "login"
    BY <1>1, <1>2 DEF Fits, Writes
  <2>4. pc'[r] = label /\ answer'[r] = "none" /\ held'[r] = h =>
          Writes(r)' /\ Resolves(r)' /\ Heard(r)'
    BY <1>3, <1>4, <1>8, <2>3 DEF Writes, Resolves, Heard
  <2> QED BY <1>1, <1>4, <1>5, <1>6, <2>1, <2>2, <2>4, Continues
<1> QED BY <1>7, <1>9, <1>10, <1>11

\* A session that has run out had its cookie run out before.
LEMMA OwnOutlives ==
  ASSUME SessionInv, NEW r \in Request, held[r].cookie # NoCookie,
         NEW s \in sessions, held[r].cookie.row = s.n, now >= s.expires, now <= held[r].at + 1
  PROVE  Expired(r)
<1>1. TypeOK /\ LoginsOrdered /\ RowsAreLogins /\ held[r].cookie \in GoodCookies
  BY DEF SessionInv
<1>2. held \in [Request -> Held]
  BY <1>1, HeldType
<1>3. PICK p \in Request : Began(p) /\ held[r].cookie.row = held[p].row
                         /\ held[r].cookie.at <= held[p].at + 1
  BY <1>1 DEF GoodCookies, OfLogin
<1>4. PICK q \in Request : Began(q) /\ s.n = held[q].row /\ s.expires = held[q].at + RowTTL
  BY <1>1 DEF RowsAreLogins
<1>5. p = q
  <2>1. held[p].row = held[q].row /\ held[p].row \in Nat
    BY <1>2, <1>3, <1>4 DEF Held
  <2> QED BY <1>1, <1>3, <1>4, <2>1 DEF LoginsOrdered
<1>6. held[r].at \in Nat /\ held[r].cookie.at \in Nat /\ held[p].at \in Nat /\ now \in Nat
  BY <1>1, <1>2 DEF Held, Cookie, TypeOK
<1> QED BY <1>3, <1>4, <1>5, <1>6, TTLAssumption DEF Expired

LEMMA LoadActiveKeeps ==
  ASSUME SessionInv, NEW r \in Request, LoadActive(r)
  PROVE  SessionInv'
<1>1. pc[r] = "load" /\ pc[r] \in Handling \cup Responding /\ r.kind = "read"
  BY DEF LoadActive, At, Handling
<1>2. TypeOK /\ Bounded /\ Fits(r) /\ held[r] \in Held /\ held[r].cookie \in GoodCookies
  BY <1>1, NoneYet DEF SessionInv
<1>3. held[r].cookie # NoCookie /\ held[r].cookie.row \in SessionRows /\ now <= held[r].at + 1
  BY <1>1, <1>2 DEF Fits, Resolves, Places, InFlight, GoodCookies, OfLogin
<1>4. UNCHANGED <<now, keyVars, sessionVars, jar, before>>
  BY DEF LoadActive
<1>5. before' = before /\ revoked' = revoked
  BY <1>4 DEF sessionVars
<1>6. "answered" \in Labels \ {"unsent"} /\ {"rejected", "in"} \subseteq Answers
  BY DEF Labels, Answers
<1>7. CASE ActiveByUser = {}
  <2>1. PICK h : h = held[r]
    OBVIOUS
  <2>2. held' = [held EXCEPT ![r] = h] /\ h \in Held /\ h.cookie \in GoodCookies
    BY <1>2, <1>7, <2>1, HeldStays DEF LoadActive
  <2>3. pc' = [pc EXCEPT ![r] = "answered"] /\ answer' = [answer EXCEPT ![r] = "rejected"]
    BY <1>7 DEF LoadActive, Tell, Goto
  <2>4. Expired(r) \/ held[r].cookie.row \in revoked
    <3>1. PICK s \in sessions : s.n = held[r].cookie.row
      BY <1>3 DEF SessionRows
    <3>2. s.n \in revoked \/ ~(now < s.expires)
      BY <1>7 DEF ActiveByUser
    <3>3. now \in Nat /\ s.expires \in Nat
      BY <1>2 DEF TypeOK, Row
    <3> QED BY <1>3, <3>1, <3>2, <3>3, OwnOutlives
  <2>5. pc'[r] = "answered" /\ answer'[r] = "rejected" /\ held'[r] = h =>
          Writes(r)' /\ Resolves(r)' /\ Heard(r)'
    BY <1>1, <1>5, <2>1, <2>4 DEF Writes, Resolves, Heard, Expired
  <2> QED BY <1>1, <1>4, <1>6, <2>1, <2>2, <2>3, <2>5, Continues
<1>8. CASE ActiveByUser # {}
  <2>1. PICK n : n = Max({s.n : s \in ActiveByUser})
    OBVIOUS
  <2>2. n \in SessionRows /\ n \in Nat /\ n \notin revoked
    <3>1. {s.n : s \in ActiveByUser} \subseteq SessionRows /\ {s.n : s \in ActiveByUser} # {}
      BY <1>8 DEF ActiveByUser, SessionRows
    <3>2. n \in {s.n : s \in ActiveByUser}
      BY <1>2, <2>1, <3>1, HighestOf
    <3> QED BY <1>2, <3>1, <3>2, RowsAreNumbers DEF ActiveByUser
  <2>3. PICK h : h = Numbered(held[r], n)
    OBVIOUS
  <2>4. h \in Held /\ h.cookie = held[r].cookie /\ h.row = n /\ h.at = held[r].at
    BY <1>2, <2>2, <2>3, HeldNumbered
  <2>5. held' = [held EXCEPT ![r] = h]
    BY <1>8, <2>1, <2>3 DEF LoadActive, Keep, Numbered
  <2>6. pc' = [pc EXCEPT ![r] = "answered"] /\ answer' = [answer EXCEPT ![r] = "in"]
    BY <1>8 DEF LoadActive, Tell, Goto
  <2>7. before[r] \subseteq revoked
    BY <1>2 DEF Fits, Places
  <2>8. pc'[r] = "answered" /\ answer'[r] = "in" /\ held'[r] = h =>
          Writes(r)' /\ Resolves(r)' /\ Heard(r)'
    BY <1>1, <1>5, <2>2, <2>4, <2>7 DEF Writes, Resolves, Heard
  <2> QED BY <1>1, <1>2, <1>4, <1>6, <2>2, <2>4, <2>5, <2>6, <2>8, Continues
<1> QED BY <1>7, <1>8

-----------------------------------------------------------------------------
(* Steps that touch a device, a revocation or a row.                       *)

LEMMA RevokeKeeps ==
  ASSUME SessionInv, NEW r \in Request, Revoke(r)
  PROVE  SessionInv'
<1>1. pc[r] = "revoke" /\ pc[r] \in Handling \cup Responding /\ r.kind = "logout"
  BY DEF Revoke, At, Handling
<1>2. TypeOK /\ Fits(r) /\ answer[r] = "none" /\ held[r] \in Held
      /\ held[r].cookie \in GoodCookies
  BY <1>1, NoneYet DEF SessionInv
<1>3. PICK h : h = held[r]
  OBVIOUS
<1>4. PICK b : b = before[r]
  OBVIOUS
<1>5. held' = [held EXCEPT ![r] = h] /\ h \in Held /\ h.cookie \in GoodCookies
  BY <1>2, <1>3, HeldStays DEF Revoke
<1>6. before' = [before EXCEPT ![r] = b] /\ b \in SUBSET Nat
  BY <1>2, <1>4 DEF Revoke, TypeOK
<1>7. pc' = [pc EXCEPT ![r] = "clear"] /\ answer' = [answer EXCEPT ![r] = "none"]
  BY <1>2, ThenGoes DEF Revoke
<1>8. "clear" \in Labels /\ "none" \in Answers
  BY DEF Labels, Answers, Responding
<1>9. revoked \subseteq revoked' /\ revoked' \subseteq SessionRows
  BY <1>1, <1>2, RowsAreNumbers DEF Revoke, Fits, Resolves
<1>10. UNCHANGED <<now, keyVars, sessions>> /\ jar' = jar /\ NoCookie \in GoodCookies
  BY DEF Revoke, GoodCookies
<1>11. pc'[r] = "clear" /\ answer'[r] = "none" /\ held'[r] = h /\ before'[r] = b => Fits(r)'
  <2> SUFFICES ASSUME pc'[r] = "clear", answer'[r] = "none", held'[r] = h, before'[r] = b
               PROVE  Fits(r)'
    OBVIOUS
  <2>1. Places(r)'
    BY <1>1, <1>2, <1>3, <1>4, <1>9, <1>10 DEF Fits, Places, InFlight
  <2>2. Writes(r)' /\ Resolves(r)' /\ Heard(r)'
    BY DEF Writes, Resolves, Heard
  <2> QED BY <2>1, <2>2 DEF Fits
<1> QED BY <1>3, <1>5, <1>6, <1>7, <1>8, <1>9, <1>10, <1>11, Turns

LEMMA RespondKeeps ==
  ASSUME SessionInv, NEW r \in Request, Receive(r) \/ Clear(r)
  PROVE  SessionInv'
<1>1. pc[r] \in Handling \cup Responding /\ UNCHANGED <<now, keyVars, sessionVars, held, before>>
  BY DEF Receive, Clear, Responding
<1>2. TypeOK /\ Fits(r) /\ held[r] \in Held /\ held[r].cookie \in GoodCookies
  BY <1>1, NoneYet DEF SessionInv
<1>3. PICK h : h = held[r]
  OBVIOUS
<1>4. PICK b : b = before[r]
  OBVIOUS
<1>5. held' = [held EXCEPT ![r] = h] /\ h \in Held /\ h.cookie \in GoodCookies
  BY <1>1, <1>2, <1>3, HeldStays
<1>6. before' = [before EXCEPT ![r] = b] /\ b \in SUBSET Nat
  BY <1>1, <1>2, <1>4 DEF TypeOK
<1>7. PICK what \in {"in", "out"}, c \in {NoCookie, h.cookie} :
        /\ pc' = [pc EXCEPT ![r] = "answered"] /\ answer' = [answer EXCEPT ![r] = what]
        /\ jar' = [jar EXCEPT ![r.device] = c]
        /\ what = "in" => pc[r] = "set"
  BY <1>3 DEF Receive, Clear, Tell, Goto
<1>8. "answered" \in Labels /\ what \in Answers /\ c \in GoodCookies
  BY <1>5 DEF Labels, Answers, GoodCookies
<1>9. revoked \subseteq revoked' /\ revoked' \subseteq SessionRows /\ UNCHANGED <<now, keyVars, sessions>>
  BY <1>1, <1>2, RowsAreNumbers DEF sessionVars
<1>10. pc'[r] = "answered" /\ answer'[r] = what /\ held'[r] = h /\ before'[r] = b => Fits(r)'
  <2> SUFFICES ASSUME pc'[r] = "answered", answer'[r] = what, held'[r] = h, before'[r] = b
               PROVE  Fits(r)'
    OBVIOUS
  <2>1. Places(r)'
    BY <1>2, <1>3, <1>4, <1>9 DEF Fits, Places, InFlight, Handling, Responding
  <2>2. what = "in" => r.kind = "login"
    BY <1>2, <1>7 DEF Fits, Writes
  <2>3. Writes(r)' /\ Resolves(r)' /\ Heard(r)'
    BY <2>2 DEF Writes, Resolves, Heard
  <2> QED BY <2>1, <2>3 DEF Fits
<1> QED BY <1>3, <1>5, <1>6, <1>7, <1>8, <1>9, <1>10, Turns

LEMMA SendKeeps ==
  ASSUME SessionInv, NEW r \in Request, Send(r)
  PROVE  SessionInv'
<1>1. pc[r] = "unsent" /\ UNCHANGED <<now, keyVars, sessionVars, jar>>
  BY DEF Send
<1>2. TypeOK /\ Fits(r) /\ answer[r] = "none" /\ held[r] = Nothing
  BY <1>1 DEF SessionInv, Fits, Places
<1>3. PICK c : c = jar[r.device]
  OBVIOUS
<1>4. c \in GoodCookies /\ c \in Cookie
  BY <1>2, <1>3, RequestAssumption DEF SessionInv, TypeOK
<1>5. PICK h : h = Starting(c, now)
  OBVIOUS
<1>6. h \in Held /\ h.cookie = c /\ h.at = now /\ h.row = 0
  BY <1>2, <1>4, <1>5, HeldStarting DEF TypeOK
<1>7. held' = [held EXCEPT ![r] = h]
  BY <1>3, <1>5 DEF Send, Keep, Starting
<1>8. PICK b : b = revoked
  OBVIOUS
<1>9. before' = [before EXCEPT ![r] = b] /\ b \in SUBSET Nat
  BY <1>2, <1>8, RowsAreNumbers DEF Send
<1>10. PICK label \in {"login", "decode"} : 
        /\ pc' = [pc EXCEPT ![r] = label] /\ answer' = [answer EXCEPT ![r] = "none"]
        /\ label = "login" => r.kind = "login"
  BY <1>2, ThenGoes DEF Send
<1>11. label \in Labels /\ "none" \in Answers
  BY DEF Labels, Answers, Handling
<1>12. revoked \subseteq revoked' /\ revoked' \subseteq SessionRows /\ UNCHANGED <<now, keyVars, sessions>>
  BY <1>1, <1>2, RowsAreNumbers DEF sessionVars
<1>13. h.row = held[r].row /\ ~Began(r)
  BY <1>2, <1>6 DEF Nothing, Began
<1>14. pc'[r] = label /\ answer'[r] = "none" /\ held'[r] = h /\ before'[r] = b => Fits(r)'
  <2> SUFFICES ASSUME pc'[r] = label, answer'[r] = "none", held'[r] = h, before'[r] = b
               PROVE  Fits(r)'
    OBVIOUS
  <2>1. Places(r)'
    <3>1. now' = now /\ now \in Int /\ revoked' = revoked
      BY <1>1, <1>2 DEF TypeOK, sessionVars
    <3> QED BY <1>6, <1>8, <3>1 DEF Places
  <2>2. Writes(r)' /\ Resolves(r)' /\ Heard(r)'
    BY <1>6, <1>10 DEF Writes, Resolves, Heard
  <2> QED BY <2>1, <2>2 DEF Fits
<1> QED BY <1>1, <1>4, <1>6, <1>7, <1>9, <1>10, <1>11, <1>12, <1>13, <1>14, Turns

\* The row of a login that starts its INSERT comes after all others.
LEMMA IssueKeeps ==
  ASSUME SessionInv, NEW r \in Request, Issue(r)
  PROVE  SessionInv'
<1>1. pc[r] = "login" /\ r.kind = "login" /\ pc[r] \in Handling
  BY DEF Issue, At, Handling
<1>2. TypeOK /\ Fits(r) /\ Bounded /\ LoginsOrdered /\ RowsAreLogins /\ answer[r] = "none"
      /\ held[r] \in Held /\ held[r].cookie \in GoodCookies
  BY <1>1, NoneYet DEF SessionInv
<1>3. held[r].row = 0 /\ ~Began(r) /\ now <= held[r].at + 1
  BY <1>1, <1>2 DEF Fits, Writes, Places, Began, InFlight
<1>4. UNCHANGED <<now, keyVars, sessionVars, jar, before>>
  BY DEF Issue
<1> DEFINE taken == {0} \cup {s.n : s \in sessions} \cup {held[q].row : q \in Request}
<1>5. PICK m : m = Max(taken)
  OBVIOUS
<1>6. m \in Nat /\ (\A x \in SessionRows : x <= m) /\ (\A q \in Request : held[q].row <= m)
  <2>1. taken = {0} \cup SessionRows \cup {held[q].row : q \in Request}
    BY DEF SessionRows
  <2>2. taken \in SUBSET Nat /\ taken # {}
    <3>1. SessionRows \subseteq Nat
      BY <1>2, RowsAreNumbers
    <3>2. \A q \in Request : held[q].row \in Nat
      BY <1>2, HeldType DEF Held
    <3>3. \A x \in taken : x \in Nat
      BY <2>1, <3>1, <3>2
    <3>4. 0 \in taken
      OBVIOUS
    <3> HIDE DEF taken
    <3> QED BY <3>3, <3>4
  <2>3. PICK k \in Nat : (\A x \in SessionRows : x <= k) /\ (\A q \in Request : held[q].row <= k)
    BY <1>2 DEF Bounded
  <2>4. \A x \in taken : x <= k
    BY <2>1, <2>3
  <2>5. Max(taken) \in taken /\ \A x \in taken : x <= Max(taken)
    <3> HIDE DEF taken
    <3> QED BY <2>2, <2>3, <2>4, MaxOfBounded
  <2> QED BY <1>5, <2>1, <2>2, <2>5
<1>7. PICK h : h = Numbered(held[r], m + 1)
  OBVIOUS
<1>8. h \in Held /\ h.row = m + 1 /\ h.cookie = held[r].cookie /\ h.at = held[r].at
  <2>1. m + 1 \in Nat
    BY <1>6
  <2>2. PICK n : n = m + 1
    OBVIOUS
  <2>3. n \in Nat /\ h = Numbered(held[r], n)
    BY <1>7, <2>1, <2>2
  <2> QED BY <1>2, <2>2, <2>3, HeldNumbered
<1>9. held' = [held EXCEPT ![r] = h]
  BY <1>5, <1>7 DEF Issue, Keep, Numbered
<1>10. pc' = [pc EXCEPT ![r] = "insert"] /\ answer' = [answer EXCEPT ![r] = "none"]
  BY <1>2, ThenGoes DEF Issue
<1>11. /\ held'[r] = h /\ pc'[r] = "insert" /\ answer'[r] = "none" /\ before'[r] = before[r]
       /\ \A s \in Request \ {r} : /\ pc'[s] = pc[s] /\ answer'[s] = answer[s]
                                 /\ held'[s] = held[s] /\ before'[s] = before[s]
  BY <1>2, <1>4, <1>9, <1>10, HeldType DEF TypeOK
<1>12. StepOf(r)
  BY <1>3, <1>4, <1>11 DEF StepOf, sessionVars
<1>13. SessionRows' = SessionRows
  BY <1>4 DEF sessionVars, SessionRows
<1>14. TypeOK'
  <2>1. held' \in [Request -> [cookie: Cookie, at: 0..TimeMax, row: Nat, valid: BOOLEAN]]
    BY <1>2, <1>8, <1>9, HeldType DEF Held
  <2>2. pc' \in [Request -> Labels] /\ answer' \in [Request -> Answers]
    BY <1>2, <1>10 DEF TypeOK, Labels, Answers, Handling
  <2> QED BY <1>2, <1>4, <2>1, <2>2 DEF TypeOK, keyVars, sessionVars
<1>15. Bounded'
  <2>1. \A q \in Request : held'[q].row <= m + 1
    <3>1. ASSUME NEW q \in Request \ {r} PROVE held'[q].row <= m + 1
      <4>1. held[q].row \in Nat /\ held[q].row <= m /\ held'[q].row = held[q].row
        BY <1>2, <1>6, <1>11, HeldType DEF Held
      <4> QED BY <1>6, <4>1
    <3> QED BY <1>6, <1>8, <1>11, <3>1
  <2>2. \A x \in SessionRows' : x <= m + 1
    BY <1>2, <1>6, <1>13, RowsAreNumbers
  <2> QED BY <1>6, <2>1, <2>2 DEF Bounded
<1>16. \A q \in Request \ {r} : Began(q)' = Began(q)
  BY <1>11 DEF Began
<1>17. LoginsOrdered'
  <2> SUFFICES ASSUME NEW p \in Request, NEW q \in Request, Began(p)', Began(q)',
                      held'[p].row <= held'[q].row
               PROVE  held'[p].at <= held'[q].at + 1 /\ (held'[p].row = held'[q].row => p = q)
    BY DEF LoginsOrdered
  <2>1. \A s \in Request : held[s].at \in Nat /\ held[s].row \in Nat
    BY <1>2, HeldType DEF Held
  <2>2. now \in Nat
    BY <1>2 DEF TypeOK
  <2>3. CASE p # r /\ q # r
    BY <1>2, <1>11, <1>16, <2>3 DEF LoginsOrdered
  <2>4. CASE p # r /\ q = r
    <3>1. held[p].at <= now /\ held'[p] = held[p]
      BY <1>11, <2>4 DEF SessionInv, Fits, Places
    <3>2. held'[p].row <= m /\ held'[q].row = m + 1 /\ held'[q].at = held[r].at
      BY <1>6, <1>8, <1>11, <2>4, <3>1
    <3> QED BY <1>3, <1>6, <2>1, <2>2, <3>1, <3>2
  <2>5. CASE p = r /\ q # r
    <3>1. held'[p].row = m + 1 /\ held'[q].row <= m /\ held'[q].row \in Nat
      BY <1>6, <1>8, <1>11, <2>1, <2>5
    <3> QED BY <1>6, <3>1
  <2>6. CASE p = r /\ q = r
    <3>1. held'[r].at \in Nat
      BY <1>8, <1>11, <2>1
    <3> QED BY <2>6, <3>1
  <2> QED BY <2>3, <2>4, <2>5, <2>6
<1>18. RowsAreLogins'
  <2> SUFFICES ASSUME NEW s \in sessions
               PROVE  /\ s.version = 1
                      /\ \E q \in Request : Began(q)' /\ s.n = held'[q].row
                                            /\ s.expires = held'[q].at + RowTTL
    BY <1>4 DEF RowsAreLogins, sessionVars
  <2>1. PICK q \in Request : Began(q) /\ s.n = held[q].row /\ s.expires = held[q].at + RowTTL
    BY <1>2 DEF RowsAreLogins
  <2>2. q # r
    BY <1>3, <2>1
  <2> QED BY <1>2, <1>11, <1>16, <2>1, <2>2 DEF RowsAreLogins
<1>19. held'[r].cookie \in GoodCookies'
  BY <1>2, <1>8, <1>11, <1>12, CookiesStay
<1>20. Fits(r)'
  <2>1. Places(r)'
    <3>1. held'[r].at = held[r].at /\ before' = before /\ now' = now /\ revoked' = revoked
      BY <1>4, <1>8, <1>11 DEF sessionVars
    <3> QED BY <1>1, <1>2, <1>3, <1>11, <3>1 DEF Fits, Places
  <2>2. Writes(r)' /\ Resolves(r)' /\ Heard(r)'
    BY <1>1, <1>6, <1>8, <1>11 DEF Writes, Resolves, Heard
  <2> QED BY <2>1, <2>2 DEF Fits
<1>21. \A d \in Device : jar'[d] = jar[d] \/ jar'[d] \in GoodCookies
  BY <1>4
<1> QED BY <1>12, <1>14, <1>15, <1>17, <1>18, <1>19, <1>20, <1>21, Moves

LEMMA CreateKeeps ==
  ASSUME SessionInv, NEW r \in Request, Create(r)
  PROVE  SessionInv'
<1>1. pc[r] = "insert" /\ r.kind = "login" /\ pc[r] \in Handling
  BY DEF Create, At, Handling
<1>2. TypeOK /\ Fits(r) /\ Bounded /\ LoginsOrdered /\ RowsAreLogins /\ answer[r] = "none"
      /\ held[r] \in Held /\ held[r].cookie \in GoodCookies
  BY <1>1, NoneYet DEF SessionInv
<1>3. held[r].row # 0 /\ Began(r)
  BY <1>1, <1>2 DEF Fits, Writes, Began
<1>4. UNCHANGED <<now, keyVars, revoked, jar, held, before>>
  BY DEF Create
<1>5. PICK row_ : row_ = [n |-> held[r].row, version |-> 1, expires |-> held[r].at + RowTTL]
  OBVIOUS
<1>6. row_ \in Row /\ row_.n = held[r].row /\ row_.version = 1 /\ row_.expires = held[r].at + RowTTL
  BY <1>2, <1>3, <1>5, TTLAssumption DEF Row, Held
<1>7. sessions' = sessions \cup {row_}
  BY <1>5 DEF Create
<1>8. SessionRows' = SessionRows \cup {held[r].row}
  BY <1>6, <1>7 DEF SessionRows
<1>9. pc' = [pc EXCEPT ![r] = "sign"] /\ answer' = [answer EXCEPT ![r] = "none"]
  BY <1>2, ThenGoes DEF Create
<1>10. /\ pc'[r] = "sign" /\ answer'[r] = "none"
       /\ \A s \in Request \ {r} : pc'[s] = pc[s] /\ answer'[s] = answer[s]
  BY <1>2, <1>9 DEF TypeOK
<1>11. StepOf(r)
  BY <1>4, <1>7, <1>10 DEF StepOf
<1>12. TypeOK'
  <2>1. pc' \in [Request -> Labels] /\ answer' \in [Request -> Answers]
    BY <1>2, <1>9 DEF TypeOK, Labels, Answers, Handling
  <2>2. revoked' \subseteq {s.n : s \in sessions'}
    BY <1>2, <1>4, <1>8, RowsAreNumbers DEF SessionRows
  <2> QED BY <1>2, <1>4, <1>6, <1>7, <2>1, <2>2 DEF TypeOK, keyVars
<1>13. Bounded'
  <2>1. PICK k \in Nat : (\A x \in SessionRows : x <= k) /\ (\A q \in Request : held[q].row <= k)
    BY <1>2 DEF Bounded
  <2> QED BY <1>4, <1>8, <2>1 DEF Bounded
<1>14. \A q \in Request : Began(q)' = Began(q)
  BY <1>4 DEF Began
<1>15. LoginsOrdered'
  BY <1>2, <1>4, <1>14 DEF LoginsOrdered
<1>16. RowsAreLogins'
  <2>1. ASSUME NEW s \in sessions
        PROVE  /\ s.version = 1
               /\ \E q \in Request : Began(q)' /\ s.n = held'[q].row /\ s.expires = held'[q].at + RowTTL
    BY <1>2, <1>4, <1>14 DEF RowsAreLogins
  <2>2. /\ row_.version = 1
        /\ \E q \in Request : Began(q)' /\ row_.n = held'[q].row /\ row_.expires = held'[q].at + RowTTL
    BY <1>3, <1>4, <1>6, <1>14
  <2> QED BY <1>7, <2>1, <2>2 DEF RowsAreLogins
<1>17. held'[r].cookie \in GoodCookies'
  BY <1>2, <1>4, <1>11, CookiesStay
<1>18. Fits(r)'
  <2>1. Places(r)'
    BY <1>1, <1>2, <1>4, <1>10 DEF Fits, Places, InFlight
  <2>2. Writes(r)' /\ Resolves(r)' /\ Heard(r)'
    BY <1>1, <1>3, <1>4, <1>8, <1>10 DEF Writes, Resolves, Heard
  <2> QED BY <2>1, <2>2 DEF Fits
<1>19. \A d \in Device : jar'[d] = jar[d] \/ jar'[d] \in GoodCookies
  BY <1>4
<1> QED BY <1>11, <1>12, <1>13, <1>15, <1>16, <1>17, <1>18, <1>19, Moves

-----------------------------------------------------------------------------
(* The operator and time.                                                  *)

\* A restart ends handlers; rows, cookies and responses stand.
LEMMA RestartKeeps ==
  ASSUME SessionInv, Restart, KeysOrdered', GoodCookies \subseteq GoodCookies',
         keys' \in [current: 1..KeyMax, previous: 0..KeyMax],
         rotatedAt' \in 0..TimeMax, barred' \in 1..KeyMax, barred <= barred'
  PROVE  SessionInv'
<1>1. TypeOK /\ Bounded /\ LoginsOrdered /\ RowsAreLogins
  BY DEF SessionInv
<1>2. /\ UNCHANGED <<now, sessions, revoked, jar, held, before>>
      /\ \A s \in Request :
           IF pc[s] \in Handling
           THEN pc'[s] = "answered" /\ answer'[s] = "error"
           ELSE pc'[s] = pc[s] /\ answer'[s] = answer[s]
      /\ pc' \in [Request -> Labels] /\ answer' \in [Request -> Answers]
  BY <1>1 DEF Restart, sessionVars, TypeOK, Labels, Answers
<1>3. TypeOK'
  BY <1>1, <1>2 DEF TypeOK
<1>4. SessionRows' = SessionRows /\ \A q \in Request : Began(q)' = Began(q)
  BY <1>2 DEF SessionRows, Began
<1>5. Bounded'
  BY <1>1, <1>2, <1>4 DEF Bounded
<1>6. LoginsOrdered'
  BY <1>1, <1>2, <1>4 DEF LoginsOrdered
<1>7. RowsAreLogins'
  BY <1>1, <1>2, <1>4 DEF RowsAreLogins
<1>8. ASSUME NEW s \in Request PROVE Fits(s)'
  <2>1. Fits(s)
    BY DEF SessionInv
  <2>2. CASE pc[s] \in Handling
    <3>1. pc'[s] = "answered" /\ answer'[s] = "error"
      BY <1>2, <2>2
    <3>2. Places(s)'
      BY <1>2, <2>1, <3>1 DEF Fits, Places, InFlight, Handling, Responding
    <3>3. Writes(s)' /\ Resolves(s)' /\ Heard(s)'
      BY <3>1, EndFits
    <3> QED BY <3>2, <3>3 DEF Fits
  <2>3. CASE pc[s] \notin Handling
    <3>1. /\ pc'[s] = pc[s] /\ answer'[s] = answer[s] /\ held'[s] = held[s]
          /\ before'[s] = before[s] /\ now' = now /\ revoked \subseteq revoked'
      BY <1>2, <2>3
    <3> QED BY <1>1, <1>3, <1>4, <2>1, <3>1, FitsStays
  <2> QED BY <2>2, <2>3
<1>9. \A d \in Device : jar'[d] \in GoodCookies'
  BY <1>2 DEF SessionInv
<1>10. \A r \in Request : held'[r].cookie \in GoodCookies'
  BY <1>2 DEF SessionInv
<1> QED BY <1>3, <1>5, <1>6, <1>7, <1>8, <1>9, <1>10 DEF SessionInv

\* Cookies are as good as they were if their keys are.
LEMMA CookiesKept ==
  ASSUME TypeOK, UNCHANGED <<sessions, held>>,
         \A c \in Cookie : InForce(c) => InForce(c)'
  PROVE  GoodCookies \subseteq GoodCookies'
<1>1. \A c \in Cookie : OfLogin(c) => OfLogin(c)'
  BY DEF OfLogin, SessionRows, Began
<1> QED BY <1>1 DEF GoodCookies

LEMMA OperateKeeps ==
  ASSUME SessionInv, Operate
  PROVE  SessionInv'
<1>1. TypeOK /\ KeysOrdered
  BY DEF SessionInv
<1>2. /\ now \in Nat /\ rotatedAt \in Nat /\ barred \in Nat /\ barred # 0
      /\ keys.current \in Nat /\ keys.previous \in Nat /\ keys.current # 0
      /\ keys \in [current: 1..KeyMax, previous: 0..KeyMax]
      /\ now \in 0..TimeMax /\ rotatedAt \in 0..TimeMax /\ barred \in 1..KeyMax
  BY <1>1 DEF TypeOK
<1>3. KeyMax \in Nat /\ CookieTTL \in Nat \ {0}
  BY TTLAssumption
<1>4. \A c \in Cookie : c.at \in Nat /\ c.key \in Nat
  BY TTLAssumption DEF Cookie
<1>5. Restart /\ UNCHANGED <<now, sessions, held>>
  BY DEF Operate, Rotate, Retire, EmergencyRotate, Restart, sessionVars
<1>6. CASE Rotate
  <2>1. /\ keys' \in [current: 1..KeyMax, previous: 0..KeyMax]
        /\ keys.previous = 0 /\ keys'.current = keys.current + 1 /\ keys'.previous = keys.current
        /\ rotatedAt' = now /\ barred' = barred
    BY <1>2, <1>3, <1>6 DEF Rotate, NoKey
  <2>2. KeysOrdered'
    BY <1>1, <1>2, <1>5, <2>1 DEF KeysOrdered, NoKey
  <2>3. \A c \in Cookie : InForce(c) => InForce(c)'
    <3> SUFFICES ASSUME NEW c \in Cookie, InForce(c) PROVE InForce(c)'
      OBVIOUS
    <3>1. c.key \in 1..keys'.current /\ c.at <= now'
      BY <1>2, <1>5, <2>1 DEF InForce
    <3>2. ASSUME c.key < keys'.current, barred' <= c.key
          PROVE  c.at <= rotatedAt' /\ (now' < c.at + CookieTTL => keys'.previous = c.key)
      <4>1. CASE c.key = keys.current
        BY <1>5, <2>1, <3>1, <4>1
      <4>2. CASE c.key # keys.current
        <5>1. c.key < keys.current /\ c.key # 0
          BY <1>2, <1>4, <3>2, <2>1, <4>2 DEF InForce
        <5>2. ~(now < c.at + CookieTTL)
          BY <2>1, <3>2, <5>1 DEF InForce
        <5> QED BY <1>5, <2>1, <3>1, <5>2
      <4> QED BY <4>1, <4>2
    <3> QED BY <3>1, <3>2 DEF InForce
  <2>4. GoodCookies \subseteq GoodCookies'
    BY <1>1, <1>5, <2>3, CookiesKept
  <2>5. rotatedAt' \in 0..TimeMax /\ barred' \in 1..KeyMax /\ barred <= barred'
    BY <1>2, <2>1
  <2> QED BY <1>5, <2>1, <2>2, <2>4, <2>5, RestartKeeps
<1>7. CASE Retire
  <2>1. /\ keys' \in [current: 1..KeyMax, previous: 0..KeyMax]
        /\ keys'.current = keys.current /\ keys'.previous = 0
        /\ now >= rotatedAt + CookieTTL /\ rotatedAt' = rotatedAt /\ barred' = barred
    BY <1>2, <1>3, <1>7 DEF Retire, NoKey
  <2>2. KeysOrdered'
    BY <1>1, <1>2, <1>5, <2>1 DEF KeysOrdered, NoKey
  <2>3. \A c \in Cookie : InForce(c) => InForce(c)'
    BY <1>2, <1>3, <1>4, <1>5, <2>1 DEF InForce
  <2>4. GoodCookies \subseteq GoodCookies'
    BY <1>1, <1>5, <2>3, CookiesKept
  <2>5. rotatedAt' \in 0..TimeMax /\ barred' \in 1..KeyMax /\ barred <= barred'
    BY <1>2, <2>1
  <2> QED BY <1>5, <2>1, <2>2, <2>4, <2>5, RestartKeeps
<1>8. CASE EmergencyRotate
  <2>1. /\ keys' \in [current: 1..KeyMax, previous: 0..KeyMax]
        /\ keys'.current = keys.current + 1 /\ keys'.previous = 0
        /\ rotatedAt' = rotatedAt /\ barred' = keys.current + 1
    BY <1>2, <1>3, <1>8 DEF EmergencyRotate, NoKey
  <2>2. KeysOrdered'
    BY <1>1, <1>2, <1>5, <2>1 DEF KeysOrdered, NoKey
  <2>3. \A c \in Cookie : InForce(c) => InForce(c)'
    BY <1>2, <1>3, <1>4, <1>5, <2>1 DEF InForce
  <2>4. GoodCookies \subseteq GoodCookies'
    BY <1>1, <1>5, <2>3, CookiesKept
  <2>5. rotatedAt' \in 0..TimeMax /\ barred' \in 1..KeyMax /\ barred <= barred'
    BY <1>1, <1>2, <1>3, <1>8, <2>1 DEF EmergencyRotate, KeysOrdered
  <2> QED BY <1>5, <2>1, <2>2, <2>4, <2>5, RestartKeeps
<1> QED BY <1>6, <1>7, <1>8 DEF Operate

LEMMA TickKeeps ==
  ASSUME SessionInv, Tick
  PROVE  SessionInv'
<1>1. TypeOK /\ KeysOrdered /\ Bounded /\ LoginsOrdered /\ RowsAreLogins
  BY DEF SessionInv
<1>2. /\ now' = now + 1 /\ now' \in 0..TimeMax /\ now \in Nat
      /\ UNCHANGED <<keys, rotatedAt, barred, sessions, revoked, jar, pc, held, answer, before>>
      /\ \A r \in Request : InFlight(r) => held[r].at = now
  BY <1>1, TTLAssumption DEF Tick, keyVars, sessionVars, TypeOK
<1>3. TypeOK'
  BY <1>1, <1>2 DEF TypeOK
<1>4. KeysOrdered'
  BY <1>1, <1>2 DEF KeysOrdered, TypeOK
<1>5. Bounded' /\ LoginsOrdered' /\ RowsAreLogins'
  <2>1. SessionRows' = SessionRows /\ \A q \in Request : Began(q)' = Began(q)
    BY <1>2 DEF SessionRows, Began
  <2>2. Bounded'
    BY <1>1, <1>2, <2>1 DEF Bounded
  <2>3. LoginsOrdered'
    BY <1>1, <1>2, <2>1 DEF LoginsOrdered
  <2>4. RowsAreLogins'
    BY <1>1, <1>2, <2>1 DEF RowsAreLogins
  <2> QED BY <2>2, <2>3, <2>4
<1>6. GoodCookies \subseteq GoodCookies'
  <2>1. \A c \in Cookie : InForce(c) => InForce(c)'
    <3>1. \A c \in Cookie : c.at \in Nat
      BY DEF Cookie
    <3> QED BY <1>2, <3>1, TTLAssumption DEF InForce
  <2>2. UNCHANGED <<sessions, held>>
    BY <1>2
  <2> QED BY <1>1, <2>1, <2>2, CookiesKept
<1>7. ASSUME NEW s \in Request PROVE Fits(s)'
  <2>1. Fits(s) /\ held[s].at \in Nat
    BY <1>1, HeldType DEF SessionInv, Held
  <2>2. Places(s)'
    BY <1>2, <2>1 DEF Fits, Places, InFlight
  <2>3. SessionRows' = SessionRows
    BY <1>2 DEF SessionRows
  <2>4. Writes(s)'
    BY <1>2, <2>1, <2>3 DEF Fits, Writes
  <2>5. /\ Outlived(s)' = Outlived(s) /\ LaterRevoked(s)' = LaterRevoked(s)
        /\ NoProof(s)' = NoProof(s) /\ Expired(s)' = Expired(s)
    BY <1>2 DEF Outlived, LaterRevoked, NoProof, Expired
  <2>6. Resolves(s)'
    BY <1>2, <2>1, <2>3, <2>5 DEF Fits, Resolves
  <2>7. Heard(s)'
    BY <1>2, <2>1, <2>5 DEF Fits, Heard
  <2> QED BY <2>2, <2>4, <2>6, <2>7 DEF Fits
<1>8. \A d \in Device : jar'[d] \in GoodCookies'
  BY <1>2, <1>6 DEF SessionInv
<1>9. \A r \in Request : held'[r].cookie \in GoodCookies'
  BY <1>2, <1>6 DEF SessionInv
<1> QED BY <1>3, <1>4, <1>5, <1>7, <1>8, <1>9 DEF SessionInv

-----------------------------------------------------------------------------
LEMMA InitSession == Init => SessionInv
<1> SUFFICES ASSUME Init PROVE SessionInv
  OBVIOUS
<1>1. Nothing \in Held /\ Nothing.row = 0 /\ Nothing.at = 0 /\ Nothing.cookie = NoCookie
  BY TTLAssumption DEF Held, Nothing, NoCookie, Cookie, NoKey
<1>2. TypeOK
  <2>1. held \in [Request -> [cookie: Cookie, at: 0..TimeMax, row: Nat, valid: BOOLEAN]]
    BY <1>1 DEF Init, Held
  <2>2. jar \in [Device -> Cookie]
    BY TTLAssumption DEF Init, NoCookie, Cookie, NoKey
  <2>3. /\ pc \in [Request -> Labels] /\ answer \in [Request -> Answers]
        /\ before \in [Request -> SUBSET Nat]
    BY DEF Init, Labels, Answers
  <2>4. /\ now \in 0..TimeMax /\ rotatedAt \in 0..TimeMax /\ barred \in 1..KeyMax
        /\ keys \in [current: 1..KeyMax, previous: 0..KeyMax]
    BY TTLAssumption DEF Init, NoKey
  <2> QED BY <2>1, <2>2, <2>3, <2>4 DEF TypeOK, Init
<1>3. KeysOrdered
  BY DEF Init, KeysOrdered, NoKey
<1>4. SessionRows = {} /\ \A q \in Request : held[q] = Nothing /\ ~Began(q)
  BY <1>1 DEF Init, SessionRows, Began
<1>5. Bounded
  <2>1. \A q \in Request : held[q].row <= 0
    BY <1>1, <1>4
  <2> QED BY <1>4, <2>1 DEF Bounded
<1>6. LoginsOrdered /\ RowsAreLogins
  BY <1>4 DEF Init, LoginsOrdered, RowsAreLogins
<1>7. \A d \in Device : jar[d] \in GoodCookies
  BY DEF Init, GoodCookies
<1>8. \A r \in Request : held[r].cookie \in GoodCookies
  BY <1>1, <1>4 DEF GoodCookies
<1>9. ASSUME NEW r \in Request PROVE Fits(r)
  <2>1. pc[r] = "unsent" /\ answer[r] = "none" /\ before[r] = {} /\ now = 0
    BY DEF Init
  <2>2. Places(r)
    BY <1>1, <1>4, <2>1 DEF Places, InFlight, Handling, Responding
  <2>3. Writes(r) /\ Resolves(r) /\ Heard(r)
    BY <2>1 DEF Writes, Resolves, Heard
  <2> QED BY <2>2, <2>3 DEF Fits
<1> QED BY <1>2, <1>3, <1>5, <1>6, <1>7, <1>8, <1>9 DEF SessionInv

LEMMA StepKeeps ==
  ASSUME SessionInv, NEW r \in Request, Step(r)
  PROVE  SessionInv'
<1>1. CASE Send(r)
  BY <1>1, SendKeeps
<1>2. CASE Refuse(r) \/ Fail(r)
  BY <1>2, EndKeeps
<1>3. CASE Issue(r)
  BY <1>3, IssueKeeps
<1>4. CASE Create(r)
  BY <1>4, CreateKeeps
<1>5. CASE Sign(r)
  BY <1>5, SignKeeps
<1>6. CASE Receive(r) \/ Clear(r)
  BY <1>6, RespondKeeps
<1>7. CASE Decode(r)
  BY <1>7, DecodeKeeps
<1>8. CASE LoadLatest(r)
  BY <1>8, LoadLatestKeeps
<1>9. CASE CheckVersion(r)
  BY <1>9, CheckVersionKeeps
<1>10. CASE DecodeRead(r)
  BY <1>10, DecodeReadKeeps
<1>11. CASE LoadActive(r)
  BY <1>11, LoadActiveKeeps
<1>12. CASE Guard(r)
  BY <1>12, GuardKeeps
<1>13. CASE Revoke(r)
  BY <1>13, RevokeKeeps
<1> QED BY <1>1, <1>2, <1>3, <1>4, <1>5, <1>6, <1>7, <1>8, <1>9, <1>10, <1>11, <1>12, <1>13 DEF Step

LEMMA UnchangedKeeps ==
  ASSUME SessionInv, UNCHANGED vars
  PROVE  SessionInv'
<1>1. /\ UNCHANGED <<now, keys, rotatedAt, barred, sessions, revoked>>
      /\ UNCHANGED <<jar, pc, held, answer, before>>
  BY DEF vars, keyVars, sessionVars
<1>2. (TypeOK /\ KeysOrdered /\ Bounded /\ LoginsOrdered /\ RowsAreLogins)'
  BY <1>1 DEF SessionInv, TypeOK, KeysOrdered, Bounded, LoginsOrdered, RowsAreLogins, SessionRows, Began
<1>3. \A r \in Request : Fits(r)'
  <2>1. ASSUME NEW r \in Request PROVE Fits(r)'
    <3>1. barred <= barred' /\ SessionRows \subseteq SessionRows' /\ Fits(r) /\ TypeOK
      BY <1>1 DEF SessionInv, TypeOK, SessionRows
    <3> QED BY <1>1, <1>2, <3>1, FitsStays
  <2> QED BY <2>1
<1>4. GoodCookies \subseteq GoodCookies'
  <2>1. \A c \in Cookie : InForce(c) => InForce(c)'
    BY <1>1 DEF InForce
  <2> QED BY <1>1, <2>1, CookiesKept DEF SessionInv
<1> QED BY <1>1, <1>2, <1>3, <1>4 DEF SessionInv

\* The inductive invariant of sessions, cookies and keys.
THEOREM SessionIsInvariant == Spec => []SessionInv
<1>1. SessionInv /\ [Next]_vars => SessionInv'
  <2> SUFFICES ASSUME SessionInv, [Next]_vars PROVE SessionInv'
    OBVIOUS
  <2>1. CASE \E r \in Request : Step(r)
    BY <2>1, StepKeeps
  <2>2. CASE Operate
    BY <2>2, OperateKeeps
  <2>3. CASE Tick
    BY <2>3, TickKeeps
  <2>4. CASE UNCHANGED vars
    BY <2>4, UnchangedKeeps
  <2> QED BY <2>1, <2>2, <2>3, <2>4 DEF Next
<1> QED BY <1>1, InitSession, PTL DEF Spec

\* Runbook section 7: nothing rests on a session that was revoked before it was sent,
\* whichever devices, logins and logouts meet.
THEOREM RevocationIsFinal == Spec => []LogoutIsObeyed
<1>1. SessionInv => LogoutIsObeyed
  BY DEF SessionInv, Fits, Heard, LogoutIsObeyed, Ended
<1> QED BY <1>1, SessionIsInvariant, PTL

\* Nobody is turned away without a reason, through any rotation and any restart.
THEOREM NobodyIsTurnedAwayForNothing == Spec => []RejectedForAReason
<1>1. SessionInv => RejectedForAReason
  <2> SUFFICES ASSUME SessionInv PROVE RejectedForAReason
    OBVIOUS
  <2>1. \A r \in Request : Heard(r)
    BY DEF SessionInv, Fits
  <2> QED BY <2>1 DEF Heard, RejectedForAReason, Ended, Outlived, LaterRevoked
<1> QED BY <1>1, SessionIsInvariant, PTL

\* Runbook section 8, the rotation contract, for any sequence of rotations.
THEOREM RotationContract == Spec => []KeysInForce
<1>1. SessionInv => KeysInForce
  <2> SUFFICES ASSUME SessionInv PROVE KeysInForce
    OBVIOUS
  <2>1. TypeOK /\ KeysOrdered
    BY DEF SessionInv
  <2>2. ASSUME NEW c \in Issued, now < c.at + CookieTTL PROVE Verifies(c) <=> barred <= c.key
    <3>1. c \in GoodCookies /\ c # NoCookie
      BY DEF Issued, SessionInv
    <3> QED BY <2>1, <2>2, <3>1, LivingVerify
  <2> QED BY <2>1, <2>2 DEF KeysInForce
<1> QED BY <1>1, SessionIsInvariant, PTL

(***************************************************************************)
(* Workspace.                                                              *)
(***************************************************************************)

Refusals == [kind: {"failure"}, status: {"error", "forbidden"}]
Told == [kind: {"ok"}, n: Nat]
Rows == UNION {[S -> [version: Nat, open: BOOLEAN]] : S \in SUBSET ListRow}
RowsReply == [kind: {"rows"}, rows: Rows]
Asked == Decision \cup {"CONFIRMED"}
LoadCall ==
  [kind: {"load"}, page: AllPages, gen: Nat, lost: {FALSE},
   reply: {Unanswered} \cup Refusals \cup RowsReply]
DecideCall ==
  [kind: {"decide"}, page: AllPages, gen: Nat, row: Subject, decision: Asked,
   input: [note: BOOLEAN, version: Int], checked: BOOLEAN, lost: BOOLEAN,
   reply: {Unanswered} \cup Refusals \cup Told]
SelectCall ==
  [kind: {"select"}, page: AllPages, gen: Nat, row: Client, lost: {FALSE},
   reply: {Unanswered} \cup Refusals \cup Told]
ShownStates == [status: {"loading", "error", "forbidden", "empty"}] \cup [status: {"success"}, rows: Rows]

PagesTyped ==
  /\ Page \in Meetings
  /\ nonce \in [Page -> Nat] /\ gen \in [Page -> Nat] /\ visit \in [Page -> Nat]
  /\ \A p \in Page : 1 <= visit[p] /\ visit[p] <= gen[p] /\ gen[p] <= nonce[p]
  /\ shown \in [Page -> ShownStates]
  /\ control \in [Page -> [ListRow -> States]]
  /\ \A p \in Page : ~HasRows(p) => control[p] = AllIdle
  /\ acting \in Client \cup {NoClient}
  /\ acked \in [Page -> [Subject -> Nat]]
  /\ decided \in [Subject -> Seq(Asked)]

\* A package is confirmed at most once over; who was told of a decision was told so truly.
Counted ==
  /\ \A k \in Package : Len(decided[k]) <= 1
  /\ \A p \in Page : \A x \in Subject : acked[p][x] <= Len(decided[x])

CallOK(c) ==
  /\ c \in LoadCall \cup DecideCall \cup SelectCall
  /\ c.page \in Page /\ 1 <= c.gen /\ c.gen <= gen[c.page]
  /\ c.kind = "decide" =>
       /\ c.checked => c.row \in Opportunity
       /\ c.reply.kind = "ok" => c.reply.n <= Len(decided[c.row])
       /\ c.page.kind # "clients"
  /\ c.kind = "select" => c.page.kind = "clients"
CallsOK == \A c \in calls : CallOK(c)

\* A load is asked for once, and while it is under way its page shows nothing.
LoadsInOrder ==
  /\ \A c, d \in calls :
       c.kind = "load" /\ d.kind = "load" /\ c.page = d.page /\ c.gen = d.gen => c = d
  /\ \A c \in calls : c.kind = "load" /\ Active(c) => shown[c.page] = Loading

\* A page that reloads only when it is left is never between a reload and its effect.
Straight == \A p \in Page : ~Hooked(p) => nonce[p] = gen[p] /\ gen[p] = visit[p]

WithinLoads ==
  \A p \in Page : IsFiniteSet(Reloading(p)) /\ nonce[p] + Cardinality(Reloading(p)) <= p.loads

PageInv == PagesTyped /\ Counted /\ CallsOK /\ LoadsInOrder /\ Straight /\ WithinLoads

-----------------------------------------------------------------------------

LEMMA LensAreNat ==
  ASSUME PagesTyped
  PROVE  \A x \in Subject : Len(decided[x]) \in Nat /\ decided[x] \in Seq(Asked)
BY DEF PagesTyped

\* e is the call c, further on.
Alike(c, e) ==
  /\ e.kind = c.kind /\ e.page = c.page /\ e.gen = c.gen
  /\ c.kind # "load" => e.row = c.row

Grown == \A x \in Subject : Len(decided[x]) <= Len(decided'[x])

LEMMA FewerCalls ==
  ASSUME NEW S, IsFiniteSet(S), NEW c, NEW e, NEW U, U \subseteq (S \ {c}) \cup {e},
         c \in S \/ e \notin U
  PROVE  IsFiniteSet(U) /\ Cardinality(U) <= Cardinality(S)
<1>1. CASE e \in U
  <2>1. IsFiniteSet(S \ {c}) /\ Cardinality(S \ {c}) = Cardinality(S) - 1
    BY <1>1, FS_RemoveElement
  <2>2. /\ IsFiniteSet((S \ {c}) \cup {e})
        /\ Cardinality((S \ {c}) \cup {e}) \in {Cardinality(S \ {c}), Cardinality(S \ {c}) + 1}
    BY <2>1, FS_AddElement
  <2>3. /\ IsFiniteSet(U) /\ Cardinality(U) <= Cardinality((S \ {c}) \cup {e})
    BY <2>2, FS_Subset
  <2>4. Cardinality(S) \in Nat /\ Cardinality(U) \in Nat
    BY <2>3, FS_CardinalityType
  <2> QED
    BY <2>1, <2>2, <2>3, <2>4
<1>2. CASE e \notin U
  BY <1>2, FS_Subset
<1> QED
  BY <1>1, <1>2

\* What the calls keep when one of them goes on or ends.
LEMMA AmendedCalls ==
  ASSUME PageInv, UNCHANGED <<nonce, gen>>, Grown, PagesTyped', NEW c \in calls, NEW e, Alike(c, e),
         CallOK(e)', calls' \subseteq (calls \ {c}) \cup {e}
  PROVE  /\ CallsOK' /\ WithinLoads'
         /\ \A d1, d2 \in calls' :
              d1.kind = "load" /\ d2.kind = "load" /\ d1.page = d2.page /\ d1.gen = d2.gen => d1 = d2
         /\ \A d \in calls' : \E b \in calls : Alike(b, d)
<1>1. Page' = Page
  BY DEF Page
<1>a. \A x \in Subject : Len(decided[x]) \in Nat /\ Len(decided'[x]) \in Nat
  <2>1. \A x \in Subject : decided[x] \in Seq(Asked)
    BY DEF PageInv, PagesTyped
  <2>2. \A x \in Subject : decided'[x] \in Seq(Asked)
    BY DEF PagesTyped
  <2> QED
    BY <2>1, <2>2
<1>2. ASSUME NEW d \in calls' PROVE CallOK(d)'
  <2>1. CASE d = e
    BY <2>1
  <2>2. CASE d \in calls
    <3>1. CallOK(d)
      BY <2>2 DEF PageInv, CallsOK
    <3>2. d.kind = "decide" => d.row \in Subject /\ (d.reply.kind = "ok" => d.reply.n \in Nat)
      <4>1. d \in LoadCall \cup DecideCall \cup SelectCall
        BY <3>1 DEF CallOK
      <4>2. d.kind = "decide" => d \in DecideCall
        BY <4>1 DEF LoadCall, SelectCall
      <4> QED
        BY <4>2 DEF DecideCall, Unanswered, Refusals, Told
    <3>3. d.kind = "decide" /\ d.reply.kind = "ok" => d.reply.n <= Len(decided'[d.row])
      <4>1. ASSUME d.kind = "decide", d.reply.kind = "ok" PROVE d.reply.n <= Len(decided'[d.row])
        <5>1. d.reply.n <= Len(decided[d.row]) /\ d.reply.n \in Nat /\ d.row \in Subject
          BY <3>1, <3>2, <4>1 DEF CallOK
        <5>2. /\ Len(decided[d.row]) \in Nat /\ Len(decided'[d.row]) \in Nat
              /\ Len(decided[d.row]) <= Len(decided'[d.row])
          BY <1>a, <5>1 DEF Grown
        <5> QED
          BY <5>1, <5>2
      <4> QED
        BY <4>1
    <3> QED
      BY <1>1, <3>1, <3>3 DEF CallOK
  <2> QED
    BY <2>1, <2>2
<1>3. ASSUME NEW p \in Page
      PROVE  IsFiniteSet(Reloading(p)') /\ nonce[p] + Cardinality(Reloading(p)') <= p.loads
  <2>1. /\ IsFiniteSet(Reloading(p)) /\ nonce[p] + Cardinality(Reloading(p)) <= p.loads
        /\ nonce[p] \in Nat /\ p.loads \in Nat
    BY WorkspaceAssumption DEF PageInv, WithinLoads, PagesTyped
  <2>2. Reloading(p)' \subseteq (Reloading(p) \ {c}) \cup {e}
    BY DEF Reloading
  <2>3. c \in Reloading(p) \/ e \notin Reloading(p)'
    BY DEF Reloading, Alike
  <2>4. PICK S, U : S = Reloading(p) /\ U = Reloading(p)'
    OBVIOUS
  <2>5. IsFiniteSet(U) /\ Cardinality(U) <= Cardinality(S)
    BY <2>1, <2>2, <2>3, <2>4, FewerCalls
  <2>6. Cardinality(U) \in Nat /\ Cardinality(S) \in Nat
    BY <2>1, <2>4, <2>5, FS_CardinalityType
  <2> QED
    BY <2>1, <2>4, <2>5, <2>6
<1>4. ASSUME NEW d1 \in calls', NEW d2 \in calls', d1.kind = "load", d2.kind = "load",
             d1.page = d2.page, d1.gen = d2.gen
      PROVE  d1 = d2
  BY <1>4 DEF PageInv, LoadsInOrder, Alike
<1>5. \A d \in calls' : \E b \in calls : Alike(b, d)
  BY DEF Alike
<1> QED
  BY <1>1, <1>2, <1>3, <1>4, <1>5 DEF CallsOK, WithinLoads

\* The kinds of calls, told apart by their kind.
LEMMA CallKinds ==
  ASSUME NEW c, CallOK(c)
  PROVE  /\ c.kind \in {"load", "decide", "select"}
         /\ c.kind = "load" => c \in LoadCall
         /\ c.kind = "decide" => c \in DecideCall
         /\ c.kind = "select" => c \in SelectCall
         /\ c.page \in Page /\ c.gen \in Nat
<1>1. c \in LoadCall \cup DecideCall \cup SelectCall
  BY DEF CallOK
<1>2. c.page \in Page
  BY DEF CallOK
<1> QED
  BY <1>1, <1>2 DEF LoadCall, DecideCall, SelectCall

\* The replies the server may make to c.
ReplyOK(c, r) ==
  \/ r \in Refusals
  \/ c.kind = "load" /\ r \in RowsReply
  \/ c.kind = "select" /\ r \in Told
  \/ c.kind = "decide" /\ r \in Told /\ r.n <= Len(decided'[c.row])

LEMMA RefusalsAreNoReceipts ==
  /\ \A r \in Refusals : r.kind = "failure" /\ r.status \in {"error", "forbidden"}
  /\ \A r \in Told : r.kind = "ok" /\ r.n \in Nat
  /\ \A r \in RowsReply : r.kind = "rows" /\ r.rows \in Rows
  /\ Unanswered.kind = "none"
BY DEF Refusals, Told, RowsReply, Unanswered

LEMMA Replied ==
  ASSUME PageInv, PagesTyped', UNCHANGED <<nonce, gen>>, Grown, NEW c \in calls, NEW r, ReplyOK(c, r),
         NEW e, e = [c EXCEPT !.reply = r]
  PROVE  CallOK(e)' /\ Alike(c, e)
<1>1. Page' = Page
  BY DEF Page
<1>2. CallOK(c)
  BY DEF PageInv, CallsOK
<1>3. /\ r \in Refusals => r.kind = "failure"
      /\ r \in RowsReply => r.kind = "rows"
  BY RefusalsAreNoReceipts
<1>4. CASE c.kind = "load"
  <2>1. c \in LoadCall
    BY <1>2, <1>4, CallKinds
  <2>2. r \in Refusals \cup RowsReply
    BY <1>4 DEF ReplyOK
  <2>3. e \in LoadCall /\ e.kind = "load" /\ e.page = c.page /\ e.gen = c.gen
    BY <2>1, <2>2 DEF LoadCall
  <2> QED
    BY <1>1, <1>2, <1>4, <2>3 DEF CallOK, Alike
<1>5. CASE c.kind = "select"
  <2>1. c \in SelectCall
    BY <1>2, <1>5, CallKinds
  <2>2. r \in Refusals \cup Told
    BY <1>5 DEF ReplyOK
  <2>3. e \in SelectCall /\ e.kind = "select" /\ e.page = c.page /\ e.gen = c.gen /\ e.row = c.row
    BY <2>1, <2>2 DEF SelectCall
  <2> QED
    BY <1>1, <1>2, <1>5, <2>3 DEF CallOK, Alike
<1>6. CASE c.kind = "decide"
  <2>1. c \in DecideCall
    BY <1>2, <1>6, CallKinds
  <2>2. r \in Refusals \cup Told
    BY <1>6 DEF ReplyOK
  <2>3. /\ e \in DecideCall /\ e.kind = "decide" /\ e.page = c.page /\ e.gen = c.gen /\ e.row = c.row
        /\ e.checked = c.checked /\ e.reply = r
    BY <2>1, <2>2 DEF DecideCall
  <2>4. r.kind = "ok" => r.n <= Len(decided'[c.row])
    BY <1>3, <1>6, <2>2 DEF ReplyOK
  <2>5. e.reply.kind = "ok" => e.reply.n <= Len(decided'[e.row])
    BY <2>3, <2>4
  <2>6. /\ e.kind = "decide" => (e.checked => e.row \in Opportunity)
        /\ e.page \in Page' /\ 1 <= e.gen /\ e.gen <= gen'[e.page] /\ e.page.kind # "clients"
    BY <1>1, <1>2, <1>6, <2>3 DEF CallOK
  <2> QED
    BY <2>3, <2>5, <2>6 DEF CallOK, Alike
<1> QED
  BY <1>2, <1>4, <1>5, <1>6, CallKinds

\* What a step of the server leaves alone, and what becomes of the call.
LEMMA ServerStep ==
  ASSUME PageInv, PagesTyped', Counted', Grown,
         UNCHANGED <<nonce, gen, visit, shown>>,
         NEW c \in calls, NEW e, Alike(c, e), CallOK(e)', calls' \subseteq (calls \ {c}) \cup {e}
  PROVE  PageInv'
<1>1. Page' = Page
  BY DEF Page
<1>2. /\ CallsOK' /\ WithinLoads'
      /\ \A d1, d2 \in calls' :
           d1.kind = "load" /\ d2.kind = "load" /\ d1.page = d2.page /\ d1.gen = d2.gen => d1 = d2
      /\ \A d \in calls' : \E b \in calls : Alike(b, d)
  BY AmendedCalls
<1>3. ASSUME NEW d \in calls', d.kind = "load", Active(d)' PROVE shown'[d.page] = Loading
  <2>1. PICK b \in calls : Alike(b, d)
    BY <1>2, <1>3
  <2>2. b.kind = "load" /\ b.page = d.page /\ Active(b)
    BY <1>3, <2>1 DEF Alike, Active
  <2>3. shown[b.page] = Loading
    BY <2>2 DEF PageInv, LoadsInOrder
  <2> QED
    BY <2>2, <2>3
<1>4. LoadsInOrder'
  BY <1>2, <1>3 DEF LoadsInOrder, Active, Loading
<1>5. Straight'
  BY <1>1 DEF PageInv, Straight, Hooked
<1> QED
  BY <1>2, <1>4, <1>5 DEF PageInv

\* Typing of what the server has decided on.
LEMMA DecidedKept ==
  ASSUME PageInv, ServerOnly, UNCHANGED decided
  PROVE  PagesTyped' /\ Counted' /\ Grown
<1>1. PagesTyped'
  BY DEF PageInv, PagesTyped, ServerOnly, Page, HasRows
<1>2. Counted'
  BY DEF PageInv, Counted, ServerOnly, Page
<1>3. Grown
  <2>1. ASSUME NEW x \in Subject PROVE Len(decided[x]) <= Len(decided'[x])
    BY LensAreNat DEF PageInv
  <2> QED
    BY <2>1 DEF Grown
<1> QED
  BY <1>1, <1>2, <1>3

\* What becomes of c in a step of the server's, and what it carries when it is a load.
Served(c, e) ==
  /\ Alike(c, e) /\ CallOK(e)' /\ calls' \subseteq (calls \ {c}) \cup {e}
  /\ e.kind = "load" =>
       e.reply \in {c.reply, [kind |-> "rows", rows |-> RowsFor(c.page.kind)]} \cup Refusals
ServerStepOK(c) ==
  /\ UNCHANGED <<nonce, gen, visit, shown, control, acting, acked, choice>>
  /\ PagesTyped' /\ Counted' /\ Grown
  /\ \E e : Served(c, e)

LEMMA ReplyStep ==
  ASSUME PageInv, PagesTyped', Counted', Grown, NEW c \in calls, NEW r, ReplyOK(c, r), Reply(c, r),
         c.kind = "load" => r \in {[kind |-> "rows", rows |-> RowsFor(c.page.kind)]} \cup Refusals,
         UNCHANGED <<nonce, gen, visit, shown, control, acting, acked, choice>>
  PROVE  ServerStepOK(c)
<1>1. PICK e : e = [c EXCEPT !.reply = r]
  OBVIOUS
<1>2. CallOK(e)' /\ Alike(c, e)
  BY <1>1, Replied
<1>3. calls' \subseteq (calls \ {c}) \cup {e}
  BY <1>1 DEF Reply
<1>4. c.kind = "load" => e.reply = r
  <2>1. c.kind = "load" => c \in LoadCall
    BY CallKinds DEF PageInv, CallsOK
  <2> QED
    BY <1>1, <2>1 DEF LoadCall
<1>5. Served(c, e)
  BY <1>2, <1>3, <1>4 DEF Served, Alike
<1> QED
  BY <1>5 DEF ServerStepOK

LEMMA RowsAreTyped ==
  ASSUME PagesTyped, NEW kind \in {"content", "package", "queue", "clients"}
  PROVE  RowsFor(kind) \in Rows
<1>1. \A x \in Subject : Len(decided[x]) \in Nat
  BY LensAreNat
<1> DEFINE F(S) == [S -> [version: Nat, open: BOOLEAN]]
<1>2. Opportunities \in F(Opportunity)
  <2>1. \A o \in Opportunity : Reviewable(o) \in BOOLEAN
    BY DEF Reviewable
  <2>2. \A o \in Opportunity :
          [version |-> Len(decided[o]), open |-> Reviewable(o)] \in [version: Nat, open: BOOLEAN]
    BY <1>1, <2>1 DEF Subject
  <2> QED
    BY <2>2 DEF Opportunities
<1>3. Readiness \in F(Package)
  <2>1. \A k \in Package :
          [version |-> Len(decided[k]), open |-> decided[k] = <<>>] \in [version: Nat, open: BOOLEAN]
    <3>1. \A k \in Package : (decided[k] = <<>>) \in BOOLEAN
      OBVIOUS
    <3> QED
      BY <1>1, <3>1 DEF Subject
  <2> QED
    BY <2>1 DEF Readiness
<1>4. ReviewQueue \in F({o \in Opportunity : decided[o] = <<>>})
  BY DEF ReviewQueue
<1>5. Portfolio \in F(Client)
  BY DEF Portfolio
<1>6. \A S \in SUBSET ListRow : \A f \in F(S) : f \in Rows
  BY DEF Rows
<1>7. /\ Opportunity \in SUBSET ListRow /\ Package \in SUBSET ListRow /\ Client \in SUBSET ListRow
      /\ {o \in Opportunity : decided[o] = <<>>} \in SUBSET ListRow
  BY DEF ListRow, Subject
<1> HIDE DEF F
<1>8. Opportunities \in Rows /\ Readiness \in Rows /\ ReviewQueue \in Rows /\ Portfolio \in Rows
  BY <1>2, <1>3, <1>4, <1>5, <1>6, <1>7
<1> QED
  BY <1>8 DEF RowsFor

LEMMA PageKinds ==
  ASSUME PagesTyped, NEW p \in Page
  PROVE  /\ p \in AllPages /\ p.kind \in {"content", "package", "queue", "clients"}
         /\ p.loads \in Nat /\ \A q \in Page : p.kind = "clients" /\ q.kind = "clients" => p = q
BY WorkspaceAssumption DEF PagesTyped, AllPages

LEMMA ReadStep ==
  ASSUME PageInv, NEW c \in calls, Read(c)
  PROVE  ServerStepOK(c)
<1>1. ServerOnly /\ UNCHANGED decided /\ c.kind = "load"
  BY DEF Read
<1>2. PagesTyped' /\ Counted' /\ Grown
  BY <1>1, DecidedKept
<1>3. CallOK(c)
  BY DEF PageInv, CallsOK
<1>4. c.page.kind \in {"content", "package", "queue", "clients"}
  BY <1>3, CallKinds, PageKinds DEF PageInv
<1>5. PICK r : r = [kind |-> "rows", rows |-> RowsFor(c.page.kind)]
  OBVIOUS
<1>6. r \in RowsReply
  BY <1>4, <1>5, RowsAreTyped DEF RowsReply, PageInv
<1>7. ReplyOK(c, r)
  BY <1>1, <1>6 DEF ReplyOK
<1>8. Reply(c, r)
  BY <1>5 DEF Read
<1>9. c.kind = "load" => r \in {[kind |-> "rows", rows |-> RowsFor(c.page.kind)]} \cup Refusals
  BY <1>5
<1>10. UNCHANGED <<nonce, gen, visit, shown, control, acting, acked, choice>>
  BY <1>1 DEF ServerOnly
<1> QED
  BY <1>2, <1>7, <1>8, <1>9, <1>10, ReplyStep

LEMMA RefusalReply ==
  ASSUME PageInv, PagesTyped', Counted', Grown, NEW c \in calls, NEW status \in {"error", "forbidden"},
         Reply(c, Failure(status)),
         UNCHANGED <<nonce, gen, visit, shown, control, acting, acked, choice>>
  PROVE  ServerStepOK(c)
<1>1. PICK r : r = Failure(status)
  OBVIOUS
<1>2. r \in Refusals
  BY <1>1 DEF Failure, Refusals
<1>3. ReplyOK(c, r) /\ Reply(c, r)
  BY <1>1, <1>2 DEF ReplyOK
<1>4. c.kind = "load" => r \in {[kind |-> "rows", rows |-> RowsFor(c.page.kind)]} \cup Refusals
  BY <1>2
<1> QED
  BY <1>3, <1>4, ReplyStep

LEMMA RefuseStep ==
  ASSUME PageInv, NEW c \in calls, RefuseCall(c)
  PROVE  ServerStepOK(c)
<1>1. UNCHANGED <<decided, nonce, gen, visit, shown, control, acting, acked, choice>>
  BY DEF RefuseCall
<1>2. PagesTyped' /\ Counted' /\ Grown
  <2>1. PagesTyped'
    BY <1>1 DEF PageInv, PagesTyped, Page, HasRows
  <2>2. Counted'
    BY <1>1 DEF PageInv, Counted, Page
  <2>3. Grown
    BY <1>1, LensAreNat DEF Grown, PageInv
  <2> QED
    BY <2>1, <2>2, <2>3
<1>3. PICK status \in {"error", "forbidden"} : Reply(c, Failure(status))
  BY DEF RefuseCall
<1> QED
  BY <1>1, <1>2, <1>3, RefusalReply

LEMMA CheckStep ==
  ASSUME PageInv, NEW c \in calls, CheckReview(c)
  PROVE  ServerStepOK(c)
<1>1. ServerOnly /\ UNCHANGED decided /\ c.kind = "decide" /\ c.row \in Opportunity
  BY DEF CheckReview
<1>2. PagesTyped' /\ Counted' /\ Grown
  BY <1>1, DecidedKept
<1>3. UNCHANGED <<nonce, gen, visit, shown, control, acting, acked, choice>>
  BY <1>1 DEF ServerOnly
<1>4. CASE Reply(c, Failure("error"))
  BY <1>2, <1>3, <1>4, RefusalReply
<1>5. CASE calls' = (calls \ {c}) \cup {[c EXCEPT !.checked = TRUE]}
  <2>1. PICK e : e = [c EXCEPT !.checked = TRUE]
    OBVIOUS
  <2>2. CallOK(c)
    BY DEF PageInv, CallsOK
  <2>3. c \in DecideCall
    BY <1>1, <2>2, CallKinds
  <2>4. /\ e \in DecideCall /\ e.kind = "decide" /\ e.page = c.page /\ e.gen = c.gen /\ e.row = c.row
        /\ e.reply = c.reply
    BY <2>1, <2>3 DEF DecideCall
  <2>5. Page' = Page /\ gen' = gen /\ decided' = decided
    BY <1>1, <1>3 DEF Page
  <2>6. CallOK(e)'
    BY <1>1, <2>2, <2>4, <2>5 DEF CallOK
  <2>7. Served(c, e)
    BY <1>1, <1>5, <2>1, <2>4, <2>6 DEF Served, Alike
  <2> QED
    BY <1>2, <1>3, <2>7 DEF ServerStepOK
<1> QED
  BY <1>4, <1>5 DEF CheckReview

LEMMA GrantStep ==
  ASSUME PageInv, NEW c \in calls, Grant(c)
  PROVE  ServerStepOK(c)
<1>1. ServerOnly /\ UNCHANGED decided /\ c.kind = "select"
  BY DEF Grant
<1>2. PagesTyped' /\ Counted' /\ Grown
  BY <1>1, DecidedKept
<1>3. PICK r : r = [kind |-> "ok", n |-> 0]
  OBVIOUS
<1>4. ReplyOK(c, r) /\ Reply(c, r)
  BY <1>1, <1>3 DEF ReplyOK, Told, Grant
<1>5. UNCHANGED <<nonce, gen, visit, shown, control, acting, acked, choice>>
  BY <1>1 DEF ServerOnly
<1>6. c.kind = "load" => r \in {[kind |-> "rows", rows |-> RowsFor(c.page.kind)]} \cup Refusals
  BY <1>1
<1> QED
  BY <1>2, <1>4, <1>5, <1>6, ReplyStep

\* A decision that is recorded: of one more, or of the one that a package has.
LEMMA DecidedMore ==
  ASSUME PageInv, ServerOnly, NEW x \in Subject, NEW s \in Seq(Asked), Len(decided[x]) <= Len(s),
         x \in Package => Len(s) <= 1, decided' = [decided EXCEPT ![x] = s]
  PROVE  PagesTyped' /\ Counted' /\ Grown
<1>1. decided \in [Subject -> Seq(Asked)]
  BY DEF PageInv, PagesTyped
<1>2. decided' \in [Subject -> Seq(Asked)]
  BY <1>1
<1>3. PagesTyped'
  <2>1. Page' = Page
    BY DEF Page, ServerOnly
  <2> QED
    BY <1>2, <2>1 DEF PageInv, PagesTyped, ServerOnly, HasRows
<1>4. \A y \in Subject : Len(decided[y]) \in Nat /\ Len(decided'[y]) \in Nat
  <2>1. \A y \in Subject : decided[y] \in Seq(Asked) /\ decided'[y] \in Seq(Asked)
    BY <1>1, <1>2
  <2> QED
    BY <2>1
<1>5. ASSUME NEW y \in Subject PROVE Len(decided[y]) <= Len(decided'[y])
  BY <1>1, <1>4, <1>5
<1>6. Grown
  BY <1>5 DEF Grown
<1>7. ASSUME NEW k \in Package PROVE Len(decided'[k]) <= 1
  <2>1. k \in Subject /\ Len(decided[k]) <= 1
    BY <1>7 DEF PageInv, Counted, Subject
  <2>2. decided'[k] = IF k = x THEN s ELSE decided[k]
    BY <1>1, <2>1
  <2> QED
    BY <1>7, <2>1, <2>2
<1>8. ASSUME NEW p \in Page', NEW y \in Subject PROVE acked'[p][y] <= Len(decided'[y])
  <2>1. p \in Page /\ acked' = acked
    BY <1>8 DEF ServerOnly, Page
  <2>2. acked[p][y] \in Nat /\ acked[p][y] <= Len(decided[y])
    BY <2>1 DEF PageInv, PagesTyped, Counted
  <2> QED
    BY <1>4, <1>5, <2>1, <2>2
<1> QED
  BY <1>3, <1>6, <1>7, <1>8 DEF Counted

LEMMA RecordStep ==
  ASSUME PageInv, NEW c \in calls, Record(c)
  PROVE  ServerStepOK(c)
<1>1. ServerOnly /\ c.kind = "decide" /\ c.checked
  BY DEF Record
<1>2. CallOK(c)
  BY DEF PageInv, CallsOK
<1>3. c \in DecideCall
  BY <1>1, <1>2, CallKinds
<1>4. PICK x, s : x = c.row /\ s = Append(decided[x], c.decision)
  OBVIOUS
<1>5. x \in Opportunity /\ x \in Subject /\ c.decision \in Asked
  BY <1>1, <1>2, <1>3, <1>4 DEF CallOK, DecideCall, Subject
<1>6. decided \in [Subject -> Seq(Asked)]
  BY DEF PageInv, PagesTyped
<1>7. s \in Seq(Asked) /\ Len(s) = Len(decided[x]) + 1 /\ Len(decided[x]) \in Nat
  BY <1>4, <1>5, <1>6
<1>8. decided' = [decided EXCEPT ![x] = s]
  BY <1>4 DEF Record
<1>9. x \in Package => Len(s) <= 1
  BY <1>5, WorkspaceAssumption
<1>a. Len(decided[x]) <= Len(s)
  BY <1>7
<1>10. PagesTyped' /\ Counted' /\ Grown
  BY <1>1, <1>5, <1>7, <1>a, <1>8, <1>9, DecidedMore
<1>11. decided'[x] = s
  BY <1>5, <1>6, <1>8
<1>12. PICK r : r = [kind |-> "ok", n |-> Len(decided'[c.row])]
  OBVIOUS
<1>13. r \in Told /\ r.n <= Len(decided'[c.row])
  BY <1>4, <1>7, <1>11, <1>12 DEF Told
<1>14. ReplyOK(c, r) /\ Reply(c, r)
  BY <1>1, <1>12, <1>13 DEF ReplyOK, Record
<1>15. UNCHANGED <<nonce, gen, visit, shown, control, acting, acked, choice>>
  BY <1>1 DEF ServerOnly
<1>16. c.kind = "load" => r \in {[kind |-> "rows", rows |-> RowsFor(c.page.kind)]} \cup Refusals
  BY <1>1
<1> QED
  BY <1>10, <1>14, <1>15, <1>16, ReplyStep

LEMMA ConfirmStep ==
  ASSUME PageInv, NEW c \in calls, ConfirmPackage(c)
  PROVE  ServerStepOK(c)
<1>1. ServerOnly /\ c.kind = "decide" /\ c.row \in Package
  BY DEF ConfirmPackage
<1>2. PICK x, s : x = c.row /\ s = <<"CONFIRMED">>
  OBVIOUS
<1>3. x \in Package /\ x \in Subject
  BY <1>1, <1>2 DEF Subject
<1>4. decided \in [Subject -> Seq(Asked)]
  BY DEF PageInv, PagesTyped
<1>5. s \in Seq(Asked) /\ Len(s) = 1
  BY <1>2 DEF Asked
<1>6. Len(decided[x]) <= Len(s)
  BY <1>3, <1>5 DEF PageInv, Counted
<1>7. decided' = [decided EXCEPT ![x] = s]
  BY <1>2 DEF ConfirmPackage
<1>8. Len(s) <= 1
  BY <1>5
<1>9. PagesTyped' /\ Counted' /\ Grown
  BY <1>1, <1>3, <1>5, <1>6, <1>7, <1>8, DecidedMore
<1>10. decided'[x] = s
  BY <1>3, <1>4, <1>7
<1>11. PICK r : r = [kind |-> "ok", n |-> 1]
  OBVIOUS
<1>12. r \in Told /\ r.n <= Len(decided'[c.row])
  BY <1>2, <1>5, <1>10, <1>11 DEF Told
<1>13. ReplyOK(c, r) /\ Reply(c, r)
  BY <1>1, <1>11, <1>12 DEF ReplyOK, ConfirmPackage
<1>14. UNCHANGED <<nonce, gen, visit, shown, control, acting, acked, choice>>
  BY <1>1 DEF ServerOnly
<1>15. c.kind = "load" => r \in {[kind |-> "rows", rows |-> RowsFor(c.page.kind)]} \cup Refusals
  BY <1>1
<1> QED
  BY <1>9, <1>13, <1>14, <1>15, ReplyStep

LEMMA ServeSteps ==
  ASSUME PageInv, NEW c \in calls, Serve(c) \/ RefuseCall(c)
  PROVE  ServerStepOK(c) /\ PageInv'
<1>1. ServerStepOK(c)
  BY ReadStep, CheckStep, RecordStep, ConfirmStep, GrantStep, RefuseStep DEF Serve
<1>2. PICK e : Served(c, e)
  BY <1>1 DEF ServerStepOK
<1>3. PageInv'
  BY <1>1, <1>2, ServerStep DEF ServerStepOK, Served
<1> QED
  BY <1>1, <1>3

\* The rows of a page that has any.
LEMMA ShownRows ==
  ASSUME PagesTyped, NEW p \in Page, HasRows(p), NEW x \in DOMAIN shown[p].rows
  PROVE  shown[p].rows \in Rows /\ x \in ListRow /\ shown[p].rows[x].version \in Nat
<1>1. shown[p] \in [status: {"success"}, rows: Rows]
  BY DEF PagesTyped, HasRows, ShownStates
<1>2. PICK S \in SUBSET ListRow : shown[p].rows \in [S -> [version: Nat, open: BOOLEAN]]
  BY <1>1 DEF Rows
<1>3. x \in S
  BY <1>2
<1>4. shown[p].rows[x] \in [version: Nat, open: BOOLEAN]
  BY <1>2, <1>3
<1> QED
  BY <1>1, <1>2, <1>3, <1>4

\* A page that loads shows nothing of its rows.
LEMMA NothingLoads ==
  /\ Loading \in ShownStates /\ Loading.status # "success"
  /\ AllIdle \in [ListRow -> States]
BY DEF Loading, ShownStates, AllIdle, States

LEMMA SettledTyped ==
  ASSUME NEW r \in Refusals \cup RowsReply
  PROVE  Settled(r) \in ShownStates
<1>1. CASE r \in Refusals
  BY <1>1, RefusalsAreNoReceipts DEF Settled, ShownStates
<1>2. CASE r \in RowsReply
  BY <1>2, RefusalsAreNoReceipts DEF Settled, ShownStates, Success
<1> QED
  BY <1>1, <1>2

\* A call ends, or goes on without its page, and only what a row's control or the banner
\* shows may change.
LEMMA ControlStep ==
  ASSUME PageInv, UNCHANGED <<decided, nonce, gen, visit, shown>>, NEW c \in calls, NEW e, Alike(c, e),
         CallOK(e)', calls' \subseteq (calls \ {c}) \cup {e},
         control' \in [Page -> [ListRow -> States]],
         \A p \in Page : ~HasRows(p) => control'[p] = AllIdle,
         acting' \in Client \cup {NoClient}, UNCHANGED acked
  PROVE  PageInv'
<1>1. Page' = Page
  BY DEF Page
<1>2. PagesTyped'
  <2>1. PagesTyped
    BY DEF PageInv
  <2>2. \A p \in Page' : ~HasRows(p)' => control'[p] = AllIdle'
    BY <1>1 DEF HasRows, AllIdle
  <2>3. /\ nonce' \in [Page' -> Nat] /\ gen' \in [Page' -> Nat] /\ visit' \in [Page' -> Nat]
        /\ shown' \in [Page' -> ShownStates] /\ acked' \in [Page' -> [Subject -> Nat]]
        /\ decided' \in [Subject -> Seq(Asked)] /\ Page' \in Meetings
        /\ \A p \in Page' : 1 <= visit'[p] /\ visit'[p] <= gen'[p] /\ gen'[p] <= nonce'[p]
    BY <1>1, <2>1 DEF PagesTyped
  <2> QED
    BY <1>1, <2>2, <2>3 DEF PagesTyped
<1>3. Counted'
  BY <1>1 DEF PageInv, Counted
<1>4. Grown
  BY LensAreNat DEF PageInv, Grown
<1> QED
  BY <1>2, <1>3, <1>4, ServerStep

\* What becomes of a control is one of its states.
LEMMA ControlTyped ==
  ASSUME PageInv, NEW c \in calls, c.kind # "load", NEW state \in States, SetControl(c, state)
  PROVE  /\ control' \in [Page -> [ListRow -> States]]
         /\ \A p \in Page : ~HasRows(p) => control'[p] = AllIdle
         /\ \A p \in Page : p # c.page => control'[p] = control[p]
         /\ \A p \in Page, y \in ListRow : control'[p][y] # control[p][y] => p = c.page /\ y = c.row
<1>1. control \in [Page -> [ListRow -> States]] /\ \A p \in Page : ~HasRows(p) => control[p] = AllIdle
  BY DEF PageInv, PagesTyped
<1>2. CallOK(c)
  BY DEF PageInv, CallsOK
<1>3. c.page \in Page /\ c.row \in ListRow
  <2>1. c.page \in Page /\ (c \in DecideCall \/ c \in SelectCall)
    BY <1>2, CallKinds
  <2>2. c \in DecideCall => c.row \in Subject
    BY DEF DecideCall
  <2>3. c \in SelectCall => c.row \in Client
    BY DEF SelectCall
  <2> QED
    BY <2>1, <2>2, <2>3 DEF ListRow
<1>4. CASE Alive(c)
  <2>1. PICK q, x : q = c.page /\ x = c.row
    OBVIOUS
  <2>2. control' = [control EXCEPT ![q][x] = state]
    BY <1>4, <2>1 DEF SetControl
  <2>3. HasRows(q)
    BY <1>4, <2>1 DEF Alive
  <2>4. q \in Page /\ x \in ListRow
    BY <1>3, <2>1
  <2>5. control' = [control EXCEPT ![q] = [control[q] EXCEPT ![x] = state]]
    BY <1>1, <2>2, <2>4
  <2>6. [control[q] EXCEPT ![x] = state] \in [ListRow -> States]
    BY <1>1, <2>4
  <2>7. control' \in [Page -> [ListRow -> States]]
    BY <1>1, <2>5, <2>6
  <2>8. \A p \in Page : p # q => control'[p] = control[p]
    BY <1>1, <2>5
  <2>9. \A y \in ListRow : y # x => control'[q][y] = control[q][y]
    BY <1>1, <2>4, <2>5
  <2> QED
    BY <1>1, <2>1, <2>3, <2>7, <2>8, <2>9
<1>5. CASE ~Alive(c)
  BY <1>1, <1>5 DEF SetControl
<1> QED
  BY <1>4, <1>5

LEMMA SettleStep ==
  ASSUME PageInv, NEW c \in calls, c.kind = "load", NEW r \in Refusals \cup RowsReply, Settle(c, r),
         calls' = calls \ {c}, UNCHANGED <<decided, gen, visit>>
  PROVE  PageInv'
<1>1. UNCHANGED <<decided, nonce, gen, visit, control, acting, acked>> /\ Page' = Page
  BY DEF Settle, Page
<1>2. PICK q : q = c.page
  OBVIOUS
<1>3. CallOK(c) /\ q \in Page
  BY <1>2, CallKinds DEF PageInv, CallsOK
<1>4. PagesTyped
  BY DEF PageInv
<1>5. CASE ~Active(c)
  <2>1. shown' = shown
    BY <1>5 DEF Settle
  <2>2. Alike(c, c)
    BY DEF Alike
  <2>3. CallOK(c)'
    BY <1>1, <1>3 DEF CallOK
  <2>4. control' \in [Page -> [ListRow -> States]] /\ acting' \in Client \cup {NoClient}
        /\ \A p \in Page : ~HasRows(p) => control'[p] = AllIdle
    BY <1>1, <1>4 DEF PagesTyped
  <2>5. calls' \subseteq (calls \ {c}) \cup {c}
    OBVIOUS
  <2> QED
    BY <1>1, <2>1, <2>2, <2>3, <2>4, <2>5, ControlStep
<1>6. CASE Active(c)
  <2>1. shown[q] = Loading
    BY <1>2, <1>6 DEF PageInv, LoadsInOrder
  <2>2. PICK s : s = Settled(r)
    OBVIOUS
  <2>3. s \in ShownStates /\ shown' = [shown EXCEPT ![q] = s]
    BY <1>2, <1>6, <2>2, SettledTyped DEF Settle
  <2>4. shown \in [Page -> ShownStates]
    BY <1>4 DEF PagesTyped
  <2>5. shown' \in [Page -> ShownStates] /\ \A p \in Page : p # q => shown'[p] = shown[p]
    BY <2>3, <2>4
  <2>6. control[q] = AllIdle
    BY <1>3, <1>4, <2>1, NothingLoads DEF PagesTyped, HasRows
  <2>7. PagesTyped'
    <3>1. \A p \in Page' : ~HasRows(p)' => control'[p] = AllIdle
      BY <1>1, <1>4, <2>5, <2>6 DEF PagesTyped, HasRows
    <3>2. \A p \in Page' : ~(shown'[p].status = "success") => control'[p] = AllIdle
      BY <3>1 DEF HasRows
    <3> QED
      BY <1>1, <1>4, <2>5, <3>2 DEF PagesTyped, HasRows, AllIdle
  <2>8. Counted'
    BY <1>1 DEF PageInv, Counted
  <2>9. Grown
    BY <1>1, <1>4, LensAreNat DEF Grown
  <2>10. Alike(c, c) /\ CallOK(c)'
    BY <1>1, <1>3 DEF Alike, CallOK
  <2>11. calls' \subseteq (calls \ {c}) \cup {c}
    OBVIOUS
  <2>12. CallsOK' /\ WithinLoads'
    BY <1>1, <2>7, <2>9, <2>10, <2>11, AmendedCalls
  <2>13. LoadsInOrder'
    <3>1. ASSUME NEW d \in calls', d.kind = "load", Active(d)' PROVE shown'[d.page] = Loading
      <4>1. d \in calls /\ d # c /\ Active(d)
        BY <1>1, <3>1 DEF Active
      <4>2. d.page # q
        BY <1>2, <1>6, <3>1, <4>1 DEF PageInv, LoadsInOrder, Active
      <4>3. d.page \in Page
        BY <4>1, CallKinds DEF PageInv, CallsOK
      <4>4. shown[d.page] = Loading
        BY <3>1, <4>1 DEF PageInv, LoadsInOrder
      <4> QED
        BY <2>5, <4>2, <4>3, <4>4
    <3>2. ASSUME NEW d1 \in calls', NEW d2 \in calls', d1.kind = "load", d2.kind = "load",
                 d1.page = d2.page, d1.gen = d2.gen
          PROVE  d1 = d2
      BY <3>2 DEF PageInv, LoadsInOrder
    <3> QED
      BY <3>1, <3>2 DEF LoadsInOrder, Active, Loading
  <2>14. Straight'
    BY <1>1 DEF PageInv, Straight, Hooked
  <2> QED
    BY <2>7, <2>8, <2>12, <2>13, <2>14 DEF PageInv
<1> QED
  BY <1>5, <1>6

LEMMA MaxOfTwo ==
  ASSUME NEW a \in Nat, NEW b \in Nat
  PROVE  Max({a, b}) \in {a, b} /\ Max({a, b}) >= a /\ Max({a, b}) >= b
<1> DEFINE m == CHOOSE x \in {a, b} : \A y \in {a, b} : x >= y
<1>1. m \in {a, b} /\ \A y \in {a, b} : m >= y
  <2>1. \E x \in {a, b} : \A y \in {a, b} : x >= y
    <3>1. CASE a >= b
      BY <3>1
    <3>2. CASE b >= a
      BY <3>2
    <3> QED
      BY <3>1, <3>2
  <2> QED
    BY <2>1
<1>2. Max({a, b}) = m
  BY DEF Max
<1> QED
  BY <1>1, <1>2

\* The typing of the pages after one of them has been cleared.
LEMMA ClearedTyped ==
  ASSUME PagesTyped, NEW p \in Page,
         nonce' \in [Page -> Nat], gen' \in [Page -> Nat], visit' \in [Page -> Nat],
         \A q \in Page : 1 <= visit'[q] /\ visit'[q] <= gen'[q] /\ gen'[q] <= nonce'[q],
         shown' = [shown EXCEPT ![p] = Loading], control' = [control EXCEPT ![p] = AllIdle],
         acked' \in [Page -> [Subject -> Nat]], UNCHANGED <<decided, acting>>
  PROVE  PagesTyped' /\ Page' = Page /\ shown'[p] = Loading
         /\ \A q \in Page : q # p => shown'[q] = shown[q] /\ control'[q] = control[q]
<1>1. Page' = Page
  BY DEF Page
<1>2. /\ shown \in [Page -> ShownStates] /\ control \in [Page -> [ListRow -> States]]
      /\ \A q \in Page : ~HasRows(q) => control[q] = AllIdle
      /\ Page \in Meetings /\ acting \in Client \cup {NoClient} /\ decided \in [Subject -> Seq(Asked)]
  BY DEF PagesTyped
<1>3. /\ shown' \in [Page -> ShownStates] /\ control' \in [Page -> [ListRow -> States]]
      /\ shown'[p] = Loading /\ control'[p] = AllIdle
      /\ \A q \in Page : q # p => shown'[q] = shown[q] /\ control'[q] = control[q]
  BY <1>2, NothingLoads
<1>4. \A q \in Page : ~HasRows(q)' => control'[q] = AllIdle
  BY <1>2, <1>3 DEF HasRows
<1> QED
  BY <1>1, <1>2, <1>3, <1>4 DEF PagesTyped, HasRows, AllIdle

\* One load more, of a page whose calls stay or end.
LEMMA ReloadStep ==
  ASSUME PageInv, NEW p \in Page, Reload(p), Hooked(p), nonce[p] + 1 + Cardinality(Reloading(p)') <= p.loads,
         calls' \subseteq calls, IsFiniteSet(Reloading(p)'),
         acked' \in [Page -> [Subject -> Nat]], Counted', UNCHANGED <<decided, gen, visit, acting>>
  PROVE  PageInv'
<1>1. PagesTyped /\ nonce \in [Page -> Nat] /\ gen \in [Page -> Nat] /\ visit \in [Page -> Nat]
      /\ \A q \in Page : 1 <= visit[q] /\ visit[q] <= gen[q] /\ gen[q] <= nonce[q]
  BY DEF PageInv, PagesTyped
<1>2. nonce' \in [Page -> Nat] /\ nonce'[p] = nonce[p] + 1 /\ \A q \in Page : q # p => nonce'[q] = nonce[q]
  BY <1>1 DEF Reload
<1>3. \A q \in Page : 1 <= visit'[q] /\ visit'[q] <= gen'[q] /\ gen'[q] <= nonce'[q]
  BY <1>1, <1>2
<1>4. shown' = [shown EXCEPT ![p] = Loading] /\ control' = [control EXCEPT ![p] = AllIdle]
  BY DEF Reload
<1>5. PagesTyped' /\ Page' = Page /\ shown'[p] = Loading
      /\ \A q \in Page : q # p => shown'[q] = shown[q] /\ control'[q] = control[q]
  BY <1>1, <1>2, <1>3, <1>4, ClearedTyped
<1>6. \A d \in calls : CallOK(d)
  BY DEF PageInv, CallsOK
<1>7. CallsOK'
  BY <1>5, <1>6 DEF CallsOK, CallOK
<1>8. LoadsInOrder'
  <2>1. ASSUME NEW d \in calls', d.kind = "load", Active(d)' PROVE shown'[d.page] = Loading
    <3>1. d \in calls /\ Active(d) /\ d.page \in Page
      BY <1>6, <2>1 DEF Active, CallOK
    <3>2. shown[d.page] = Loading
      BY <2>1, <3>1 DEF PageInv, LoadsInOrder
    <3> QED
      BY <1>5, <3>1, <3>2
  <2> QED
    BY <2>1 DEF PageInv, LoadsInOrder, Active, Loading
<1>9. Straight'
  <2>1. ASSUME NEW q \in Page, ~Hooked(q) PROVE nonce'[q] = gen'[q] /\ gen'[q] = visit'[q]
    BY <1>2, <2>1 DEF PageInv, Straight
  <2> QED
    BY <1>5, <2>1 DEF Straight, Hooked
<1>10. WithinLoads'
  <2>1. ASSUME NEW q \in Page, q # p
        PROVE  IsFiniteSet(Reloading(q)') /\ nonce'[q] + Cardinality(Reloading(q)') <= q.loads
    <3>1. Reloading(q)' \subseteq Reloading(q)
      BY DEF Reloading
    <3>2. IsFiniteSet(Reloading(q)) /\ nonce[q] + Cardinality(Reloading(q)) <= q.loads
      BY DEF PageInv, WithinLoads
    <3>3. PICK S, U : S = Reloading(q) /\ U = Reloading(q)'
      OBVIOUS
    <3>4. IsFiniteSet(U) /\ Cardinality(U) <= Cardinality(S) /\ Cardinality(U) \in Nat
          /\ Cardinality(S) \in Nat
      BY <3>1, <3>2, <3>3, FS_Subset, FS_CardinalityType
    <3>5. nonce'[q] = nonce[q] /\ nonce[q] \in Nat /\ q.loads \in Nat
      BY <1>1, <1>2, <2>1, PageKinds
    <3> QED
      BY <3>2, <3>3, <3>4, <3>5
  <2> QED
    BY <1>2, <1>5, <2>1 DEF WithinLoads
<1> QED
  BY <1>5, <1>7, <1>8, <1>9, <1>10 DEF PageInv

LEMMA RetryStep ==
  ASSUME PageInv, NEW p \in Page, Retry(p)
  PROVE  PageInv'
<1>1. /\ Hooked(p) /\ Budget(p) /\ Reload(p)
      /\ UNCHANGED <<decided, calls, gen, visit, acting, acked>>
  BY DEF Retry
<1>2. Reloading(p)' = Reloading(p)
  BY <1>1 DEF Reloading
<1>3. IsFiniteSet(Reloading(p))
  BY DEF PageInv, WithinLoads
<1>4. nonce[p] + 1 + Cardinality(Reloading(p)') <= p.loads
  <2>1. PICK n : n = Cardinality(Reloading(p))
    OBVIOUS
  <2>2. n \in Nat /\ nonce[p] + n < p.loads
    BY <1>1, <1>3, <2>1, FS_CardinalityType DEF Budget
  <2>3. nonce[p] \in Nat /\ p.loads \in Nat
    BY PageKinds DEF PageInv, PagesTyped
  <2> QED
    BY <1>2, <2>1, <2>2, <2>3
<1>6. acked' \in [Page -> [Subject -> Nat]]
  BY <1>1 DEF PageInv, PagesTyped
<1>7. Counted'
  <2>1. Page' = Page
    <3>1. nonce \in [Page -> Nat]
      BY DEF PageInv, PagesTyped
    <3> QED
      BY <1>1, <3>1 DEF Reload, Page
  <2> QED
    BY <1>1, <2>1 DEF PageInv, Counted
<1>8. calls' \subseteq calls
  BY <1>1
<1> QED
  BY <1>1, <1>2, <1>3, <1>4, <1>6, <1>7, <1>8, ReloadStep

\* An answer that reloads its page.
LEMMA ReceiptStep ==
  ASSUME PageInv, NEW c \in calls, c.kind = "decide", c.reply.kind = "ok", Hooked(c.page),
         Reload(c.page), acked' = Acknowledge(c, c.reply),
         calls' = calls \ {c}, UNCHANGED <<decided, gen, visit, acting>>
  PROVE  PageInv'
<1>1. CallOK(c)
  BY DEF PageInv, CallsOK
<1>2. PICK p, x, n : p = c.page /\ x = c.row /\ n = c.reply.n
  OBVIOUS
<1>3. p \in Page /\ x \in Subject /\ n \in Nat /\ n <= Len(decided[x])
  <2>1. c \in DecideCall /\ c.page \in Page
    BY <1>1, CallKinds
  <2>2. c.row \in Subject /\ c.reply \in {Unanswered} \cup Refusals \cup Told
    BY <2>1 DEF DecideCall
  <2>3. c.reply \in Told
    BY <2>2, RefusalsAreNoReceipts
  <2> QED
    BY <1>1, <1>2, <2>1, <2>2, <2>3, RefusalsAreNoReceipts DEF CallOK
<1>4. acked \in [Page -> [Subject -> Nat]]
  BY DEF PageInv, PagesTyped
<1>5. acked' = [acked EXCEPT ![p][x] = Max({@, n})]
  BY <1>2 DEF Acknowledge
<1>6. PICK m : m = Max({acked[p][x], n})
  OBVIOUS
<1>7. acked[p][x] \in Nat
  BY <1>3, <1>4
<1>8. m \in {acked[p][x], n}
  BY <1>3, <1>6, <1>7, MaxOfTwo
<1>9. acked' = [acked EXCEPT ![p] = [acked[p] EXCEPT ![x] = m]]
  BY <1>3, <1>4, <1>5, <1>6
<1>10. m \in Nat /\ m <= Len(decided[x])
  BY <1>3, <1>7, <1>8 DEF PageInv, Counted
<1>11. [acked[p] EXCEPT ![x] = m] \in [Subject -> Nat]
  BY <1>3, <1>4, <1>10
<1>12. acked' \in [Page -> [Subject -> Nat]]
  BY <1>4, <1>9, <1>11
<1>13. Page' = Page
  <2>1. nonce \in [Page -> Nat]
    BY DEF PageInv, PagesTyped
  <2> QED
    BY <2>1 DEF Reload, Page
<1>14. Counted'
  <2>1. ASSUME NEW q \in Page, NEW y \in Subject PROVE acked'[q][y] <= Len(decided[y])
    <3>1. acked'[q][y] \in {acked[q][y], m} /\ (acked'[q][y] # acked[q][y] => y = x)
      BY <1>3, <1>4, <1>9
    <3>2. acked[q][y] <= Len(decided[y])
      BY DEF PageInv, Counted
    <3> QED
      BY <1>10, <3>1, <3>2
  <2> QED
    BY <1>13, <2>1 DEF PageInv, Counted
<1>15. /\ IsFiniteSet(Reloading(p)')
       /\ nonce[p] + 1 + Cardinality(Reloading(p)') <= p.loads
  <2>1. c \in Reloading(p)
    BY <1>2 DEF Reloading
  <2>2. Reloading(p)' = Reloading(p) \ {c}
    BY DEF Reloading
  <2>3. PICK S, U : S = Reloading(p) /\ U = Reloading(p)'
    OBVIOUS
  <2>4. IsFiniteSet(S) /\ nonce[p] + Cardinality(S) <= p.loads
    BY <1>3, <2>3 DEF PageInv, WithinLoads
  <2>5. IsFiniteSet(U) /\ Cardinality(U) = Cardinality(S) - 1
    BY <2>1, <2>2, <2>3, <2>4, FS_RemoveElement
  <2>6. Cardinality(S) \in Nat /\ nonce[p] \in Nat /\ p.loads \in Nat
    BY <1>3, <2>4, FS_CardinalityType, PageKinds DEF PageInv, PagesTyped
  <2> QED
    BY <2>3, <2>4, <2>5, <2>6
<1>16. calls' \subseteq calls
  OBVIOUS
<1>17. Reload(p) /\ Hooked(p)
  BY <1>2
<1> QED
  BY <1>3, <1>12, <1>14, <1>15, <1>16, <1>17, ReloadStep

\* A load that starts, with the page it clears.
LEMMA NewLoad ==
  ASSUME PageInv, NEW p \in Page, NEW n \in Nat, gen[p] < n,
         nonce' = [nonce EXCEPT ![p] = n], gen' = [gen EXCEPT ![p] = n],
         (visit' = visit /\ Hooked(p)) \/ visit' = [visit EXCEPT ![p] = n],
         nonce[p] <= n, n + Cardinality(Reloading(p)) <= p.loads,
         shown' = [shown EXCEPT ![p] = Loading], control' = [control EXCEPT ![p] = AllIdle],
         calls' = calls \cup {Load(p, n)}, UNCHANGED <<decided, acting, acked>>
  PROVE  PageInv'
<1>1. PagesTyped /\ nonce \in [Page -> Nat] /\ gen \in [Page -> Nat] /\ visit \in [Page -> Nat]
      /\ \A q \in Page : 1 <= visit[q] /\ visit[q] <= gen[q] /\ gen[q] <= nonce[q]
  BY DEF PageInv, PagesTyped
<1>2. /\ nonce' \in [Page -> Nat] /\ nonce'[p] = n /\ \A q \in Page : q # p => nonce'[q] = nonce[q]
      /\ gen' \in [Page -> Nat] /\ gen'[p] = n /\ \A q \in Page : q # p => gen'[q] = gen[q]
  BY <1>1
<1>3. visit' \in [Page -> Nat] /\ visit'[p] \in {visit[p], n} /\ \A q \in Page : q # p => visit'[q] = visit[q]
      /\ (~Hooked(p) => visit'[p] = n)
  BY <1>1
<1>4. \A q \in Page : 1 <= visit'[q] /\ visit'[q] <= gen'[q] /\ gen'[q] <= nonce'[q]
  BY <1>1, <1>2, <1>3
<1>5. acked' \in [Page -> [Subject -> Nat]]
  BY <1>1 DEF PagesTyped
<1>6. PagesTyped' /\ Page' = Page /\ shown'[p] = Loading
      /\ \A q \in Page : q # p => shown'[q] = shown[q] /\ control'[q] = control[q]
  BY <1>1, <1>2, <1>3, <1>4, <1>5, ClearedTyped
<1>7. Counted'
  BY <1>6 DEF PageInv, Counted
<1>8. \A d \in calls : CallOK(d) /\ d.page \in Page /\ d.gen \in Nat
  BY CallKinds DEF PageInv, CallsOK
<1>9. PICK e : e = Load(p, n)
  OBVIOUS
<1>10. e.kind = "load" /\ e.page = p /\ e.gen = n
  BY <1>9 DEF Load
<1>11. e \in LoadCall
  BY <1>1, <1>9, PageKinds DEF LoadCall, Load
<1>12. CallOK(e)'
  <2>1. e.page \in Page' /\ 1 <= e.gen /\ e.gen <= gen'[e.page]
    BY <1>1, <1>2, <1>6, <1>10
  <2> QED
    BY <1>10, <1>11, <2>1 DEF CallOK
<1>13. ASSUME NEW d \in calls PROVE CallOK(d)'
  <2>1. CallOK(d) /\ d.page \in Page /\ d.gen \in Nat /\ d.gen <= gen[d.page]
    BY <1>8 DEF CallOK
  <2>2. d.gen <= gen'[d.page]
    BY <1>1, <1>2, <2>1
  <2> QED
    BY <1>6, <2>1, <2>2 DEF CallOK
<1>14. CallsOK'
  BY <1>9, <1>12, <1>13 DEF CallsOK
<1>15. \A d \in calls : d.page = p => d.gen < n
  BY <1>1, <1>8 DEF CallOK
<1>16. LoadsInOrder'
  <2>1. ASSUME NEW d \in calls', d.kind = "load", Active(d)' PROVE shown'[d.page] = Loading
    <3>1. CASE d.page = p
      BY <1>6, <3>1
    <3>2. CASE d.page # p
      <4>1. d \in calls
        BY <1>9, <1>10, <3>2
      <4>2. Active(d) /\ d.page \in Page
        BY <1>2, <1>8, <2>1, <3>2, <4>1 DEF Active
      <4>3. shown[d.page] = Loading
        BY <2>1, <4>1, <4>2 DEF PageInv, LoadsInOrder
      <4> QED
        BY <1>6, <3>2, <4>2, <4>3
    <3> QED
      BY <3>1, <3>2
  <2>2. ASSUME NEW d1 \in calls', NEW d2 \in calls', d1.kind = "load", d2.kind = "load",
               d1.page = d2.page, d1.gen = d2.gen
        PROVE  d1 = d2
    <3>1. CASE d1 \in calls /\ d2 \in calls
      BY <2>2, <3>1 DEF PageInv, LoadsInOrder
    <3>2. CASE d1 = e \/ d2 = e
      <4>1. d1.page = p /\ d1.gen = n /\ d2.page = p /\ d2.gen = n
        BY <1>10, <2>2, <3>2
      <4>2. d1 \notin calls /\ d2 \notin calls
        BY <1>15, <4>1
      <4> QED
        BY <1>9, <4>2
    <3> QED
      BY <1>9, <3>1, <3>2
  <2> QED
    BY <2>1, <2>2 DEF LoadsInOrder, Active, Loading
<1>17. Straight'
  <2>1. ASSUME NEW q \in Page, ~Hooked(q) PROVE nonce'[q] = gen'[q] /\ gen'[q] = visit'[q]
    BY <1>2, <1>3, <2>1 DEF PageInv, Straight
  <2> QED
    BY <1>6, <2>1 DEF Straight, Hooked
<1>18. WithinLoads'
  <2>1. \A q \in Page : Reloading(q)' = Reloading(q)
    BY <1>9, <1>10 DEF Reloading
  <2>2. \A q \in Page : IsFiniteSet(Reloading(q)) /\ nonce[q] + Cardinality(Reloading(q)) <= q.loads
    BY DEF PageInv, WithinLoads
  <2> QED
    BY <1>2, <1>6, <2>1, <2>2 DEF WithinLoads
<1> QED
  BY <1>6, <1>7, <1>14, <1>16, <1>17, <1>18 DEF PageInv

LEMMA StartStep ==
  ASSUME PageInv, NEW p \in Page, StartLoad(p)
  PROVE  PageInv'
<1>1. nonce \in [Page -> Nat] /\ gen \in [Page -> Nat] /\ gen[p] <= nonce[p] /\ gen[p] # nonce[p]
  BY DEF PageInv, PagesTyped, StartLoad
<1>2. PICK n : n = nonce[p]
  OBVIOUS
<1>3. n \in Nat /\ gen[p] < n /\ nonce[p] <= n
  BY <1>1, <1>2
<1>4. nonce' = [nonce EXCEPT ![p] = n] /\ gen' = [gen EXCEPT ![p] = n]
  BY <1>1, <1>2 DEF StartLoad
<1>5. Hooked(p)
  BY <1>1 DEF PageInv, Straight
<1>6. n + Cardinality(Reloading(p)) <= p.loads
  BY <1>2 DEF PageInv, WithinLoads
<1>7. /\ shown' = [shown EXCEPT ![p] = Loading] /\ control' = [control EXCEPT ![p] = AllIdle]
      /\ calls' = calls \cup {Load(p, n)} /\ UNCHANGED <<decided, acting, acked>>
      /\ visit' = visit
  BY <1>2 DEF StartLoad
<1> QED
  BY <1>3, <1>4, <1>5, <1>6, <1>7, NewLoad

LEMMA RevisitStep ==
  ASSUME PageInv, NEW p \in Page, Revisit(p)
  PROVE  PageInv'
<1>1. nonce \in [Page -> Nat] /\ gen \in [Page -> Nat] /\ gen[p] <= nonce[p]
  BY DEF PageInv, PagesTyped
<1>2. PICK n : n = nonce[p] + 1
  OBVIOUS
<1>3. n \in Nat /\ gen[p] < n /\ nonce[p] <= n
  BY <1>1, <1>2
<1>4. nonce' = [nonce EXCEPT ![p] = n] /\ nonce'[p] = n
  BY <1>1, <1>2 DEF Revisit
<1>5. n + Cardinality(Reloading(p)) <= p.loads
  <2>1. PICK m : m = Cardinality(Reloading(p))
    OBVIOUS
  <2>2. m \in Nat /\ nonce[p] + m < p.loads
    BY <2>1, FS_CardinalityType DEF Revisit, Budget, PageInv, WithinLoads
  <2>3. p.loads \in Nat
    BY PageKinds DEF PageInv
  <2> QED
    BY <1>1, <1>2, <2>1, <2>2, <2>3
<1>6. /\ gen' = [gen EXCEPT ![p] = n] /\ visit' = [visit EXCEPT ![p] = n]
      /\ shown' = [shown EXCEPT ![p] = Loading] /\ control' = [control EXCEPT ![p] = AllIdle]
      /\ calls' = calls \cup {Load(p, n)} /\ UNCHANGED <<decided, acting, acked>>
  BY <1>4 DEF Revisit
<1> QED
  BY <1>3, <1>4, <1>5, <1>6, NewLoad

\* A call that a row's control makes.
LEMMA NewCall ==
  ASSUME PageInv, NEW p \in Page, HasRows(p), NEW x \in ListRow, NEW e, e.kind # "load", e.page = p,
         e.kind = "decide" /\ Hooked(p) => Budget(p), CallOK(e)', calls' = calls \cup {e},
         control' = [control EXCEPT ![p][x] = "submitting"],
         UNCHANGED <<decided, nonce, gen, visit, shown, acting, acked>>
  PROVE  PageInv'
<1>1. PagesTyped /\ Page' = Page
  BY DEF PageInv, Page
<1>2. control \in [Page -> [ListRow -> States]]
  BY <1>1 DEF PagesTyped
<1>3. control' = [control EXCEPT ![p] = [control[p] EXCEPT ![x] = "submitting"]]
  BY <1>2
<1>4. [control[p] EXCEPT ![x] = "submitting"] \in [ListRow -> States]
  BY <1>2 DEF States
<1>5. control' \in [Page -> [ListRow -> States]] /\ \A q \in Page : q # p => control'[q] = control[q]
  BY <1>2, <1>3, <1>4
<1>6. PagesTyped'
  <2>1. \A q \in Page : ~HasRows(q)' => control'[q] = AllIdle
    BY <1>1, <1>5 DEF PagesTyped, HasRows
  <2>2. \A q \in Page' : ~(shown'[q].status = "success") => control'[q] = AllIdle
    BY <1>1, <2>1 DEF HasRows
  <2> QED
    BY <1>1, <1>5, <2>2 DEF PagesTyped, HasRows, AllIdle
<1>7. Counted'
  BY <1>1 DEF PageInv, Counted
<1>8. \A d \in calls : CallOK(d)'
  BY <1>1 DEF PageInv, CallsOK, CallOK
<1>9. CallsOK'
  BY <1>8 DEF CallsOK
<1>10. LoadsInOrder'
  BY DEF PageInv, LoadsInOrder, Active, Loading
<1>11. Straight'
  BY <1>1 DEF PageInv, Straight, Hooked
<1>12. WithinLoads'
  <2>1. ASSUME NEW q \in Page
        PROVE  IsFiniteSet(Reloading(q)') /\ nonce[q] + Cardinality(Reloading(q)') <= q.loads
    <3>1. PICK S, U : S = Reloading(q) /\ U = Reloading(q)'
      OBVIOUS
    <3>2. IsFiniteSet(S) /\ nonce[q] + Cardinality(S) <= q.loads /\ nonce[q] \in Nat /\ q.loads \in Nat
      BY <1>1, <3>1, PageKinds DEF PageInv, WithinLoads, PagesTyped
    <3>3. CASE e \in U
      <4>1. q = p /\ e.kind = "decide" /\ Hooked(p)
        BY <3>1, <3>3 DEF Reloading
      <4>2. nonce[q] + Cardinality(S) < q.loads
        BY <3>1, <4>1 DEF Budget
      <4>3. U = S \cup {e}
        BY <3>1, <3>3 DEF Reloading
      <4>4. IsFiniteSet(U) /\ Cardinality(U) \in {Cardinality(S), Cardinality(S) + 1}
        BY <3>2, <4>3, FS_AddElement
      <4>5. Cardinality(S) \in Nat
        BY <3>2, FS_CardinalityType
      <4> QED
        BY <3>1, <3>2, <4>2, <4>4, <4>5
    <3>4. CASE e \notin U
      <4>1. U = S
        BY <3>1, <3>4 DEF Reloading
      <4> QED
        BY <3>1, <3>2, <4>1
    <3> QED
      BY <3>3, <3>4
  <2> QED
    BY <1>1, <2>1 DEF WithinLoads
<1> QED
  BY <1>6, <1>7, <1>9, <1>10, <1>11, <1>12 DEF PageInv

LEMMA SubmitStep ==
  ASSUME PageInv, NEW p \in Page, NEW x \in Subject, NEW d \in Decision \cup {"CONFIRMED"}, Submit(p, x, d)
  PROVE  PageInv'
<1>1. /\ p.kind # "clients" /\ HasRows(p) /\ x \in DOMAIN shown[p].rows /\ (Hooked(p) => Budget(p))
      /\ control' = [control EXCEPT ![p][x] = "submitting"] /\ calls' = calls \cup {Post(p, x, d)}
      /\ UNCHANGED <<decided, nonce, gen, visit, shown, acting, acked>>
  BY DEF Submit
<1>2. PICK e : e = Post(p, x, d)
  OBVIOUS
<1>3. e.kind = "decide" /\ e.page = p /\ e.gen = gen[p] /\ e.reply = Unanswered /\ e.checked = FALSE
  BY <1>2 DEF Post
<1>4. p \in AllPages /\ gen[p] \in Nat /\ 1 <= gen[p] /\ d \in Asked /\ x \in ListRow
  <2>1. PagesTyped
    BY DEF PageInv
  <2>2. p \in AllPages
    BY <2>1, PageKinds
  <2>3. gen[p] \in Nat /\ 1 <= gen[p]
    BY <2>1 DEF PagesTyped
  <2> QED
    BY <2>2, <2>3 DEF Asked, ListRow
<1>5. (IF p.kind = "queue" THEN QueueInput ELSE ReviewInput(p, x)) \in [note: BOOLEAN, version: Int]
  <2>1. shown[p].rows[x].version \in Nat
    BY <1>1, ShownRows DEF PageInv
  <2> QED
    BY <2>1 DEF QueueInput, ReviewInput, NoVersion
<1>6. e \in DecideCall
  BY <1>2, <1>4, <1>5 DEF Post, DecideCall
<1>7. CallOK(e)'
  <2>1. Page' = Page /\ gen' = gen
    BY <1>1 DEF Page
  <2>2. e.page \in Page' /\ 1 <= e.gen /\ e.gen <= gen'[e.page]
    BY <1>3, <1>4, <2>1
  <2>3. e.reply.kind # "ok"
    BY <1>3 DEF Unanswered
  <2> QED
    BY <1>1, <1>3, <1>6, <2>2, <2>3 DEF CallOK
<1>8. calls' = calls \cup {e} /\ e.kind # "load" /\ (e.kind = "decide" /\ Hooked(p) => Budget(p))
  BY <1>1, <1>2, <1>3
<1> QED
  BY <1>1, <1>3, <1>4, <1>7, <1>8, NewCall

LEMMA SelectStep ==
  ASSUME PageInv, NEW p \in Page, NEW x \in Client, Select(p, x)
  PROVE  PageInv'
<1>1. PICK e : e = [kind |-> "select", page |-> p, gen |-> gen[p], row |-> x,
                    lost |-> FALSE, reply |-> Unanswered]
  OBVIOUS
<1>2. /\ p.kind = "clients" /\ HasRows(p)
      /\ control' = [control EXCEPT ![p][x] = "submitting"] /\ calls' = calls \cup {e}
      /\ UNCHANGED <<decided, nonce, gen, visit, shown, acting, acked>>
  BY <1>1 DEF Select
<1>3. e.kind = "select" /\ e.page = p /\ e.gen = gen[p]
  BY <1>1
<1>4. p \in AllPages /\ gen[p] \in Nat /\ 1 <= gen[p] /\ x \in ListRow
  <2>1. PagesTyped
    BY DEF PageInv
  <2>2. p \in AllPages
    BY <2>1, PageKinds
  <2>3. gen[p] \in Nat /\ 1 <= gen[p]
    BY <2>1 DEF PagesTyped
  <2> QED
    BY <2>2, <2>3 DEF ListRow
<1>5. e \in SelectCall
  BY <1>1, <1>4 DEF SelectCall
<1>6. CallOK(e)'
  <2>1. Page' = Page /\ gen' = gen
    BY <1>2 DEF Page
  <2>2. e.page \in Page' /\ 1 <= e.gen /\ e.gen <= gen'[e.page]
    BY <1>3, <1>4, <2>1
  <2> QED
    BY <1>2, <1>3, <1>5, <2>2 DEF CallOK
<1>7. e.kind # "load" /\ (e.kind = "decide" /\ Hooked(p) => Budget(p))
  BY <1>3
<1> QED
  BY <1>2, <1>3, <1>4, <1>6, <1>7, NewCall

\* A row's control hears of its call, which ends.
LEMMA HeardStep ==
  ASSUME PageInv, NEW c \in calls, c.kind # "load", NEW state \in States, SetControl(c, state),
         calls' = calls \ {c}, acting' \in Client \cup {NoClient},
         UNCHANGED <<decided, nonce, gen, visit, shown, acked>>
  PROVE  PageInv'
<1>1. CallOK(c) /\ Page' = Page
  BY DEF PageInv, CallsOK, Page
<1>2. CallOK(c)' /\ Alike(c, c) /\ calls' \subseteq (calls \ {c}) \cup {c}
  BY <1>1 DEF CallOK, Alike
<1>3. /\ control' \in [Page -> [ListRow -> States]]
      /\ \A p \in Page : ~HasRows(p) => control'[p] = AllIdle
  BY ControlTyped
<1> QED
  BY <1>2, <1>3, ControlStep

LEMMA DeliverStep ==
  ASSUME PageInv, NEW c \in calls, Deliver(c)
  PROVE  PageInv'
<1>1. calls' = calls \ {c} /\ UNCHANGED <<decided, gen, visit>> /\ c.reply # Unanswered
  BY DEF Deliver, Waiting
<1>2. CallOK(c)
  BY DEF PageInv, CallsOK
<1>3. acting \in Client \cup {NoClient}
  BY DEF PageInv, PagesTyped
<1>4. "idle" \in States /\ "done" \in States /\ "error" \in States
  BY DEF States
<1>5. CASE c.kind = "load" /\ Settle(c, c.reply)
  <2>1. c \in LoadCall
    BY <1>2, <1>5, CallKinds
  <2>2. c.reply \in Refusals \cup RowsReply
    BY <1>1, <2>1 DEF LoadCall
  <2> QED
    BY <1>1, <1>5, <2>2, SettleStep
<1>6. CASE c.kind = "decide" /\ Answered(c, c.reply)
  <2>1. CASE c.reply.kind = "ok" /\ Mounted(c)
    BY <1>1, <1>6, <2>1, ReceiptStep DEF Answered
  <2>2. CASE ~(c.reply.kind = "ok" /\ Mounted(c))
    <3>1. SetControl(c, "error") /\ UNCHANGED <<nonce, shown, acked, acting>>
      BY <1>6, <2>2 DEF Answered
    <3>2. acting' \in Client \cup {NoClient} /\ c.kind # "load"
      BY <1>3, <1>6, <3>1
    <3> QED
      BY <1>1, <1>4, <3>1, <3>2, HeardStep
  <2> QED
    BY <2>1, <2>2
<1>7. CASE c.kind = "decide" /\ QueueAnswered(c, c.reply)
  <2>1. PICK state : state = IF c.reply.kind = "ok" THEN "done" ELSE "error"
    OBVIOUS
  <2>2. SetControl(c, state) /\ UNCHANGED <<nonce, shown, acked, acting>> /\ state \in States
    BY <1>4, <1>7, <2>1 DEF QueueAnswered
  <2>3. acting' \in Client \cup {NoClient} /\ c.kind # "load"
    BY <1>3, <1>7, <2>2
  <2> QED
    BY <1>1, <2>2, <2>3, HeardStep
<1>8. CASE c.kind = "select" /\ Selected(c, c.reply)
  <2>1. SetControl(c, "idle") /\ UNCHANGED <<nonce, shown, acked>>
    BY <1>8 DEF Selected
  <2>2. c \in SelectCall
    BY <1>2, <1>8, CallKinds
  <2>3. acting' \in Client \cup {NoClient} /\ c.kind # "load"
    BY <1>8, <2>2 DEF Selected, SelectCall
  <2> QED
    BY <1>1, <1>4, <2>1, <2>3, HeardStep
<1> QED
  BY <1>5, <1>6, <1>7, <1>8 DEF Deliver

LEMMA LoseStep ==
  ASSUME PageInv, NEW c \in calls, Lose(c)
  PROVE  PageInv'
<1>1. UNCHANGED <<decided, gen, visit>>
  BY DEF Lose
<1>2. CallOK(c)
  BY DEF PageInv, CallsOK
<1>3. PICK r : r = Failure("error")
  OBVIOUS
<1>4. r \in Refusals /\ r.kind = "failure"
  BY <1>3 DEF Failure, Refusals
<1>5. CASE c.kind = "load" /\ Settle(c, r)
  <2>1. calls' = calls \ {c}
    BY <1>5 DEF Lose
  <2> QED
    BY <1>1, <1>4, <1>5, <2>1, SettleStep
<1>6. ASSUME c.kind # "load", UNCHANGED <<nonce, shown, acting, acked>>,
             control' \in [Page -> [ListRow -> States]],
             \A p \in Page : ~HasRows(p) => control'[p] = AllIdle
      PROVE  PageInv'
  <2>1. Page' = Page
    BY <1>6 DEF Page
  <2>2. acting' \in Client \cup {NoClient}
    BY <1>6 DEF PageInv, PagesTyped
  <2>3. CASE c.kind = "decide"
    <3>1. PICK e : e = [c EXCEPT !.lost = TRUE]
      OBVIOUS
    <3>2. c \in DecideCall
      BY <1>2, <2>3, CallKinds
    <3>3. /\ e \in DecideCall /\ e.kind = "decide" /\ e.page = c.page /\ e.gen = c.gen
          /\ e.row = c.row /\ e.checked = c.checked /\ e.reply = c.reply
      BY <3>1, <3>2 DEF DecideCall
    <3>4. CallOK(e)' /\ Alike(c, e)
      BY <1>1, <1>2, <2>1, <2>3, <3>3 DEF CallOK, Alike
    <3>5. calls' \subseteq (calls \ {c}) \cup {e}
      BY <3>1 DEF Lose
    <3> QED
      BY <1>1, <1>6, <2>2, <3>4, <3>5, ControlStep
  <2>4. CASE c.kind # "decide"
    <3>1. calls' \subseteq (calls \ {c}) \cup {c}
      BY <2>4 DEF Lose
    <3>2. CallOK(c)' /\ Alike(c, c)
      BY <1>1, <1>2, <2>1, <2>4 DEF CallOK, Alike
    <3> QED
      BY <1>1, <1>6, <2>2, <3>1, <3>2, ControlStep
  <2> QED
    BY <2>3, <2>4
<1>7. CASE c.kind = "decide" /\ Answered(c, r)
  <2>1. SetControl(c, "error") /\ UNCHANGED <<nonce, shown, acked, acting>>
    BY <1>4, <1>7 DEF Answered
  <2>2. "error" \in States /\ c.kind # "load"
    BY <1>7 DEF States
  <2>3. /\ control' \in [Page -> [ListRow -> States]]
        /\ \A p \in Page : ~HasRows(p) => control'[p] = AllIdle
    BY <2>1, <2>2, ControlTyped
  <2> QED
    BY <1>6, <2>1, <2>2, <2>3
<1>8. CASE c.kind # "load" /\ UNCHANGED <<nonce, shown, control, acting, acked, choice>>
  <2>1. /\ control' \in [Page -> [ListRow -> States]]
        /\ \A p \in Page : ~HasRows(p) => control'[p] = AllIdle
    BY <1>8 DEF PageInv, PagesTyped
  <2> QED
    BY <1>6, <1>8, <2>1
<1> QED
  BY <1>3, <1>5, <1>7, <1>8 DEF Lose, Thrown

\* The rows that a load has brought, or that a page shows, are no older than what the page
\* was told of, until the page reloads.
Covers(p, rows) == \A x \in DOMAIN rows : acked[p][x] <= rows[x].version
FreshLoad(c) ==
  c.kind = "load" /\ c.reply.kind = "rows" /\ Hooked(c.page) /\ c.gen = nonce[c.page] =>
    Covers(c.page, c.reply.rows)
FreshPage(p) == Hooked(p) /\ HasRows(p) /\ gen[p] = nonce[p] => Covers(p, shown[p].rows)
FreshInv == (\A c \in calls : FreshLoad(c)) /\ (\A p \in Page : FreshPage(p))

\* What the server answers is what it has recorded, which is what every page was told of.
LEMMA RowsCover ==
  ASSUME PageInv, NEW p \in Page, Hooked(p)
  PROVE  Covers(p, RowsFor(p.kind))
<1>1. ASSUME NEW x \in Opportunity PROVE acked[p][x] <= Opportunities[x].version
  BY DEF PageInv, Counted, Opportunities, Subject
<1>2. ASSUME NEW x \in Package PROVE acked[p][x] <= Readiness[x].version
  BY DEF PageInv, Counted, Readiness, Subject
<1>3. DOMAIN Opportunities = Opportunity /\ DOMAIN Readiness = Package
  BY DEF Opportunities, Readiness
<1>4. RowsFor(p.kind) \in {Opportunities, Readiness}
  BY DEF RowsFor, Hooked
<1> QED
  BY <1>1, <1>2, <1>3, <1>4 DEF Covers

LEMMA FreshServed ==
  ASSUME PageInv, FreshInv, NEW c \in calls, ServerStepOK(c)
  PROVE  FreshInv'
<1>1. UNCHANGED <<nonce, gen, shown, acked>> /\ Page' = Page
  BY DEF ServerStepOK, Page
<1>2. PICK e : Served(c, e)
  BY DEF ServerStepOK
<1>3. ASSUME NEW d \in calls PROVE FreshLoad(d)'
  <2>1. FreshLoad(d)
    BY DEF FreshInv
  <2> QED
    BY <1>1, <2>1 DEF FreshLoad, Covers, Hooked
<1>4. FreshLoad(e)'
  <2> SUFFICES ASSUME e.kind = "load", e.reply.kind = "rows", Hooked(e.page), e.gen = nonce[e.page]
               PROVE  Covers(e.page, e.reply.rows)
    BY <1>1 DEF FreshLoad, Covers, Hooked
  <2>1. c.kind = "load" /\ c.page = e.page /\ c.gen = e.gen
    BY <1>2 DEF Served, Alike
  <2>2. e.reply \in {c.reply, [kind |-> "rows", rows |-> RowsFor(c.page.kind)]} \cup Refusals
    BY <1>2 DEF Served
  <2>3. e.reply \notin Refusals
    BY RefusalsAreNoReceipts
  <2>4. CASE e.reply = c.reply
    BY <2>1, <2>4 DEF FreshInv, FreshLoad
  <2>5. CASE e.reply = [kind |-> "rows", rows |-> RowsFor(c.page.kind)]
    <3>1. c.page \in Page
      BY CallKinds DEF PageInv, CallsOK
    <3>2. Covers(c.page, RowsFor(c.page.kind))
      BY <2>1, <3>1, RowsCover
    <3> QED
      BY <2>1, <2>5, <3>2
  <2> QED
    BY <2>2, <2>3, <2>4, <2>5
<1>5. \A d \in calls' : FreshLoad(d)'
  BY <1>2, <1>3, <1>4 DEF Served
<1>6. ASSUME NEW p \in Page PROVE FreshPage(p)'
  <2>1. FreshPage(p)
    BY DEF FreshInv
  <2> QED
    BY <1>1, <2>1 DEF FreshPage, Covers, Hooked, HasRows
<1> QED
  BY <1>1, <1>5, <1>6 DEF FreshInv

\* What a step leaves of it that shows no other rows and lets no load go further.
LEMMA FreshStays ==
  ASSUME PageInv, FreshInv, UNCHANGED <<nonce, gen, shown, acked>>,
         \A d \in calls' : d.kind = "load" => d \in calls
  PROVE  FreshInv'
<1>1. Page' = Page
  BY DEF Page
<1>2. ASSUME NEW d \in calls' PROVE FreshLoad(d)'
  <2>1. d.kind = "load" => FreshLoad(d)
    BY DEF FreshInv
  <2> QED
    BY <2>1 DEF FreshLoad, Covers, Hooked
<1>3. ASSUME NEW p \in Page PROVE FreshPage(p)'
  <2>1. FreshPage(p)
    BY DEF FreshInv
  <2> QED
    BY <2>1 DEF FreshPage, Covers, Hooked, HasRows
<1> QED
  BY <1>1, <1>2, <1>3 DEF FreshInv

\* A page that is cleared, for a load that no call has been asked for yet.
LEMMA FreshCleared ==
  ASSUME PageInv, FreshInv, NEW p \in Page, shown' = [shown EXCEPT ![p] = Loading],
         \A q \in Page : q # p => nonce'[q] = nonce[q] /\ gen'[q] = gen[q] /\ acked'[q] = acked[q],
         \A d \in calls' : d.kind = "load" => d \in calls \/ d.reply = Unanswered,
         gen[p] < nonce'[p], nonce'[p] \in Nat, Page' = Page
  PROVE  FreshInv'
<1>1. shown \in [Page -> ShownStates]
  BY DEF PageInv, PagesTyped
<1>2. shown'[p] = Loading /\ \A q \in Page : q # p => shown'[q] = shown[q]
  BY <1>1
<1>3. ASSUME NEW d \in calls' PROVE FreshLoad(d)'
  <2> SUFFICES ASSUME d.kind = "load", d.reply.kind = "rows", Hooked(d.page), d.gen = nonce'[d.page]
               PROVE  Covers(d.page, d.reply.rows)'
    BY DEF FreshLoad, Covers, Hooked
  <2>1. d \in calls
    BY DEF Unanswered
  <2>2. d.page \in Page /\ d.gen \in Nat /\ d.gen <= gen[d.page]
    BY <2>1, CallKinds DEF PageInv, CallsOK, CallOK
  <2>3. gen[p] \in Nat
    BY DEF PageInv, PagesTyped
  <2>4. d.page # p
    BY <2>2, <2>3
  <2>5. Covers(d.page, d.reply.rows)
    BY <2>1, <2>2, <2>4 DEF FreshInv, FreshLoad
  <2> QED
    BY <2>2, <2>4, <2>5 DEF Covers
<1>4. ASSUME NEW q \in Page PROVE FreshPage(q)'
  <2>1. CASE q = p
    BY <1>2, <2>1, NothingLoads DEF FreshPage, HasRows
  <2>2. CASE q # p
    <3>1. FreshPage(q)
      BY DEF FreshInv
    <3> QED
      BY <1>2, <2>2, <3>1 DEF FreshPage, Covers, Hooked, HasRows
  <2> QED
    BY <2>1, <2>2
<1> QED
  BY <1>3, <1>4 DEF FreshInv

LEMMA FreshSettled ==
  ASSUME PageInv, FreshInv, NEW c \in calls, c.kind = "load", NEW r, Settle(c, r),
         calls' = calls \ {c}, UNCHANGED gen, r \in Refusals \/ (r = c.reply /\ r \in RowsReply)
  PROVE  FreshInv'
<1>1. UNCHANGED <<nonce, acked>> /\ Page' = Page
  BY DEF Settle, Page
<1>2. PICK q : q = c.page
  OBVIOUS
<1>3. q \in Page
  BY <1>2, CallKinds DEF PageInv, CallsOK
<1>4. CASE ~Active(c)
  <2>1. shown' = shown
    BY <1>4 DEF Settle
  <2> QED
    BY <1>1, <2>1, FreshStays
<1>5. CASE Active(c)
  <2>1. shown \in [Page -> ShownStates]
    BY DEF PageInv, PagesTyped
  <2>2. shown'[q] = Settled(r) /\ \A p \in Page : p # q => shown'[p] = shown[p]
    BY <1>2, <1>3, <1>5, <2>1 DEF Settle
  <2>3. ASSUME NEW d \in calls' PROVE FreshLoad(d)'
    <3>1. FreshLoad(d)
      BY DEF FreshInv
    <3> QED
      BY <1>1, <3>1 DEF FreshLoad, Covers, Hooked
  <2>4. FreshPage(q)'
    <3> SUFFICES ASSUME Hooked(q), HasRows(q)', gen[q] = nonce[q]
                 PROVE  Covers(q, shown'[q].rows)
      BY <1>1 DEF FreshPage, Covers, Hooked
    <3>1. Settled(r).status = "success"
      BY <2>2 DEF HasRows
    <3>2. r \notin Refusals
      BY <3>1, RefusalsAreNoReceipts DEF Settled
    <3>3. r = c.reply /\ r.kind = "rows"
      BY <3>2, RefusalsAreNoReceipts
    <3>4. Settled(r).rows = r.rows
      BY <3>1, <3>3 DEF Settled, Success
    <3>5. c.gen = nonce[q]
      BY <1>2, <1>5 DEF Active
    <3>6. Covers(q, c.reply.rows)
      BY <1>2, <3>3, <3>5 DEF FreshInv, FreshLoad
    <3> QED
      BY <2>2, <3>3, <3>4, <3>6
  <2>5. ASSUME NEW p \in Page, p # q PROVE FreshPage(p)'
    <3>1. FreshPage(p)
      BY DEF FreshInv
    <3> QED
      BY <1>1, <2>2, <2>5, <3>1 DEF FreshPage, Covers, Hooked, HasRows
  <2> QED
    BY <1>1, <2>3, <2>4, <2>5 DEF FreshInv
<1> QED
  BY <1>4, <1>5

\* What is told of a decision is the page's alone.
LEMMA ReceiptIsOwn ==
  ASSUME PageInv, NEW c \in calls, c.kind = "decide", NEW r, acked' = Acknowledge(c, r)
  PROVE  \A q \in Page : q # c.page => acked'[q] = acked[q]
<1>1. acked \in [Page -> [Subject -> Nat]]
  BY DEF PageInv, PagesTyped
<1> QED
  BY <1>1 DEF Acknowledge

LEMMA FreshDelivered ==
  ASSUME PageInv, FreshInv, NEW c \in calls, Deliver(c)
  PROVE  FreshInv'
<1>1. calls' = calls \ {c} /\ UNCHANGED gen /\ c.reply # Unanswered
  BY DEF Deliver, Waiting
<1>2. CallOK(c)
  BY DEF PageInv, CallsOK
<1>3. \A d \in calls' : d.kind = "load" => d \in calls
  BY <1>1
<1>4. CASE c.kind = "load" /\ Settle(c, c.reply)
  <2>1. c \in LoadCall
    BY <1>2, <1>4, CallKinds
  <2>2. c.reply \in Refusals \/ c.reply \in RowsReply
    BY <1>1, <2>1 DEF LoadCall
  <2>3. c.reply \in Refusals \/ (c.reply = c.reply /\ c.reply \in RowsReply)
    BY <2>2
  <2> QED
    BY <1>1, <1>4, <2>3, FreshSettled
<1>5. CASE c.kind = "decide" /\ Answered(c, c.reply)
  <2>1. CASE c.reply.kind = "ok" /\ Mounted(c)
    <3>1. Reload(c.page) /\ acked' = Acknowledge(c, c.reply)
      BY <1>5, <2>1 DEF Answered
    <3>2. PICK p : p = c.page
      OBVIOUS
    <3>3. p \in Page
      BY <1>2, <3>2, CallKinds
    <3>4. nonce \in [Page -> Nat] /\ gen[p] \in Nat /\ gen[p] <= nonce[p]
      BY <3>3 DEF PageInv, PagesTyped
    <3>5. nonce' = [nonce EXCEPT ![p] = @ + 1] /\ shown' = [shown EXCEPT ![p] = Loading]
      BY <3>1, <3>2 DEF Reload
    <3>6. /\ Page' = Page /\ gen[p] < nonce'[p] /\ nonce'[p] \in Nat
          /\ \A q \in Page : q # p => nonce'[q] = nonce[q]
      BY <3>3, <3>4, <3>5 DEF Page
    <3>7. \A q \in Page : q # p => acked'[q] = acked[q]
      BY <1>5, <3>1, <3>2, ReceiptIsOwn
    <3>8. /\ \A q \in Page : q # p => nonce'[q] = nonce[q] /\ gen'[q] = gen[q] /\ acked'[q] = acked[q]
          /\ \A d \in calls' : d.kind = "load" => d \in calls \/ d.reply = Unanswered
      BY <1>1, <3>6, <3>7
    <3> QED
      BY <3>3, <3>5, <3>6, <3>8, FreshCleared
  <2>2. CASE ~(c.reply.kind = "ok" /\ Mounted(c))
    BY <1>1, <1>3, <1>5, <2>2, FreshStays DEF Answered
  <2> QED
    BY <2>1, <2>2
<1>6. CASE QueueAnswered(c, c.reply)
  BY <1>1, <1>3, <1>6, FreshStays DEF QueueAnswered
<1>7. CASE Selected(c, c.reply)
  BY <1>1, <1>3, <1>7, FreshStays DEF Selected
<1> QED
  BY <1>4, <1>5, <1>6, <1>7 DEF Deliver

LEMMA FreshLost ==
  ASSUME PageInv, FreshInv, NEW c \in calls, Lose(c)
  PROVE  FreshInv'
<1>1. PICK r : r = Failure("error")
  OBVIOUS
<1>2. r \in Refusals /\ r.kind = "failure"
  BY <1>1 DEF Failure, Refusals
<1>3. UNCHANGED gen
  BY DEF Lose
<1>4. CASE c.kind = "load" /\ Settle(c, r)
  <2>1. calls' = calls \ {c}
    BY <1>4 DEF Lose
  <2> QED
    BY <1>2, <1>3, <1>4, <2>1, FreshSettled
<1>5. ASSUME c.kind # "load", UNCHANGED <<nonce, shown, acked>> PROVE FreshInv'
  <2>1. ASSUME NEW d \in calls', d.kind = "load" PROVE d \in calls
    <3>1. PICK e : e = [c EXCEPT !.lost = TRUE]
      OBVIOUS
    <3>2. d \in calls \/ (c.kind = "decide" /\ d = e)
      BY <3>1 DEF Lose
    <3>3. c.kind = "decide" => e.kind = "decide"
      <4>1. c.kind = "decide" => c \in DecideCall
        BY CallKinds DEF PageInv, CallsOK
      <4> QED
        BY <3>1, <4>1 DEF DecideCall
    <3> QED
      BY <2>1, <3>2, <3>3
  <2> QED
    BY <1>3, <1>5, <2>1, FreshStays
<1>6. CASE c.kind = "decide" /\ Answered(c, r)
  BY <1>2, <1>5, <1>6 DEF Answered
<1>7. CASE c.kind # "load" /\ UNCHANGED <<nonce, shown, control, acting, acked, choice>>
  BY <1>5, <1>7
<1> QED
  BY <1>1, <1>4, <1>6, <1>7 DEF Lose, Thrown

\* The steps of a page: a load it asks for, or a call one of its rows makes.
LEMMA FreshAsked ==
  ASSUME PageInv, FreshInv, NEW p \in Page, StartLoad(p) \/ Retry(p) \/ Revisit(p)
  PROVE  FreshInv'
<1>1. nonce \in [Page -> Nat] /\ gen \in [Page -> Nat] /\ gen[p] <= nonce[p]
  BY DEF PageInv, PagesTyped
<1>2. shown' = [shown EXCEPT ![p] = Loading] /\ UNCHANGED acked
  BY DEF StartLoad, Retry, Revisit, Reload
<1>3. /\ Page' = Page /\ nonce'[p] \in Nat /\ gen[p] < nonce'[p]
      /\ \A q \in Page : q # p => nonce'[q] = nonce[q] /\ gen'[q] = gen[q]
  <2>1. CASE StartLoad(p)
    BY <1>1, <2>1 DEF StartLoad, Page
  <2>2. CASE Retry(p)
    BY <1>1, <2>2 DEF Retry, Reload, Page
  <2>3. CASE Revisit(p)
    BY <1>1, <2>3 DEF Revisit, Page
  <2> QED
    BY <2>1, <2>2, <2>3
<1>4. \A d \in calls' : d.kind = "load" => d \in calls \/ d.reply = Unanswered
  <2>1. CASE StartLoad(p)
    BY <2>1 DEF StartLoad, Load
  <2>2. CASE Retry(p)
    BY <2>2 DEF Retry
  <2>3. CASE Revisit(p)
    BY <2>3 DEF Revisit, Load
  <2> QED
    BY <2>1, <2>2, <2>3
<1>5. \A q \in Page : q # p => nonce'[q] = nonce[q] /\ gen'[q] = gen[q] /\ acked'[q] = acked[q]
  BY <1>2, <1>3
<1> QED
  BY <1>2, <1>3, <1>4, <1>5, FreshCleared

LEMMA FreshClicked ==
  ASSUME PageInv, FreshInv, NEW p \in Page,
         (\E x \in Subject, d \in Decision \cup {"CONFIRMED"} : Submit(p, x, d))
           \/ (\E x \in Client : Select(p, x))
  PROVE  FreshInv'
<1>1. UNCHANGED <<nonce, gen, shown, acked>>
  BY DEF Submit, Select
<1>2. \A d \in calls' : d.kind = "load" => d \in calls
  BY DEF Submit, Select, Post
<1> QED
  BY <1>1, <1>2, FreshStays

Selects == {c \in calls : c.kind = "select"}
Current(c) == c.gen = gen[c.page]
\* A choice under way from the page as it is mounted is the only one, and its row waits.
SelectsShown ==
  /\ \A c \in Selects : Current(c) => HasRows(c.page) /\ control[c.page][c.row] = "submitting"
  /\ \A c, d \in Selects : Current(c) /\ Current(d) => c = d
ChoiceTyped ==
  choice \in [client: Client \cup {NoClient}, outcome: {"none", "pending", "granted", "refused"},
              alone: BOOLEAN]
\* A choice made alone is the only one until it ends.
ChoiceIs ==
  choice.alone =>
    /\ \A c \in Selects : choice.outcome = "pending" /\ c.row = choice.client
    /\ \A c, d \in Selects : c = d
    /\ choice.outcome = "granted" => acting = choice.client
    /\ choice.outcome = "refused" => acting = NoClient
ChoiceInv == SelectsShown /\ ChoiceTyped /\ ChoiceIs

LEMMA SelectTyping ==
  ASSUME PageInv, NEW c \in Selects
  PROVE  /\ c \in calls /\ c.kind = "select" /\ c.page \in Page /\ c.page.kind = "clients"
         /\ c.row \in Client /\ c.row \in ListRow /\ c.gen \in Nat /\ c.gen <= gen[c.page]
         /\ gen[c.page] \in Nat /\ visit[c.page] = gen[c.page] /\ ~Hooked(c.page)
<1>1. c \in calls /\ c.kind = "select"
  BY DEF Selects
<1>2. CallOK(c)
  BY <1>1 DEF PageInv, CallsOK
<1>3. c \in SelectCall /\ c.page \in Page /\ c.gen \in Nat
  BY <1>1, <1>2, CallKinds
<1>4. c.page.kind = "clients" /\ c.gen <= gen[c.page]
  BY <1>1, <1>2 DEF CallOK
<1>5. c.row \in Client
  BY <1>3 DEF SelectCall
<1>6. ~Hooked(c.page)
  BY <1>4 DEF Hooked
<1>7. gen[c.page] \in Nat /\ visit[c.page] = gen[c.page]
  BY <1>3, <1>6 DEF PageInv, PagesTyped, Straight
<1> QED
  BY <1>1, <1>3, <1>4, <1>5, <1>6, <1>7 DEF ListRow

\* The choices that a step leaves, of the pages that it leaves as they are.
LEMMA ChoiceStays ==
  ASSUME PageInv, ChoiceInv, Selects' \subseteq Selects, UNCHANGED <<acting, choice>>,
         \A c \in Selects' : Current(c)' =>
           Current(c) /\ HasRows(c.page)' /\ control'[c.page][c.row] = control[c.page][c.row]
  PROVE  ChoiceInv'
<1>1. SelectsShown'
  <2>1. ASSUME NEW c \in Selects', Current(c)'
        PROVE  HasRows(c.page)' /\ control'[c.page][c.row] = "submitting"
    BY <2>1 DEF ChoiceInv, SelectsShown
  <2>2. ASSUME NEW c \in Selects', NEW d \in Selects', Current(c)', Current(d)' PROVE c = d
    <3>1. c \in Selects /\ d \in Selects /\ Current(c) /\ Current(d)
      BY <2>2
    <3> QED
      BY <3>1 DEF ChoiceInv, SelectsShown
  <2> QED
    BY <2>1, <2>2 DEF SelectsShown, Current, HasRows
<1>2. ChoiceTyped'
  BY DEF ChoiceInv, ChoiceTyped
<1>3. ChoiceIs'
  <2>1. ChoiceIs /\ choice' = choice /\ acting' = acting
    BY DEF ChoiceInv
  <2>2. ASSUME choice.alone, NEW c \in Selects' PROVE choice.outcome = "pending" /\ c.row = choice.client
    BY <2>1, <2>2 DEF ChoiceIs
  <2>3. ASSUME choice.alone, NEW c \in Selects', NEW d \in Selects' PROVE c = d
    BY <2>1, <2>3 DEF ChoiceIs
  <2>4. choice.alone => /\ choice.outcome = "granted" => acting = choice.client
                        /\ choice.outcome = "refused" => acting = NoClient
    BY <2>1 DEF ChoiceIs
  <2> QED
    BY <2>1, <2>2, <2>3, <2>4 DEF ChoiceIs
<1> QED
  BY <1>1, <1>2, <1>3 DEF ChoiceInv

LEMMA ChoiceServed ==
  ASSUME PageInv, ChoiceInv, NEW c \in calls, ServerStepOK(c)
  PROVE  ChoiceInv'
<1>1. UNCHANGED <<gen, shown, control, acting, choice>>
  BY DEF ServerStepOK
<1>2. PICK e : Served(c, e)
  BY DEF ServerStepOK
<1>3. /\ e.kind = c.kind /\ e.page = c.page /\ e.gen = c.gen
      /\ c.kind # "load" => e.row = c.row
  BY <1>2 DEF Served, Alike
<1>4. calls' \subseteq (calls \ {c}) \cup {e}
  BY <1>2 DEF Served
<1>5. ASSUME NEW d \in Selects'
      PROVE  \E b \in Selects : /\ b.page = d.page /\ b.gen = d.gen /\ b.row = d.row
                                /\ (d = e /\ b = c) \/ (b = d /\ b # c)
  <2>1. d \in calls' /\ d.kind = "select"
    BY DEF Selects
  <2>2. CASE d = e
    BY <1>3, <2>1, <2>2 DEF Selects
  <2>3. CASE d \in calls /\ d # c
    BY <2>1, <2>3 DEF Selects
  <2> QED
    BY <1>4, <2>1, <2>2, <2>3
<1>6. SelectsShown'
  <2>1. ASSUME NEW d \in Selects', Current(d)'
        PROVE  HasRows(d.page)' /\ control'[d.page][d.row] = "submitting"
    BY <1>1, <1>5, <2>1 DEF ChoiceInv, SelectsShown, Current, HasRows
  <2>2. ASSUME NEW d1 \in Selects', NEW d2 \in Selects', Current(d1)', Current(d2)' PROVE d1 = d2
    BY <1>1, <1>5, <2>2 DEF ChoiceInv, SelectsShown, Current
  <2> QED
    BY <2>1, <2>2 DEF SelectsShown, Current, HasRows
<1>7. ChoiceTyped'
  BY <1>1 DEF ChoiceInv, ChoiceTyped
<1>8. ChoiceIs'
  <2>1. ChoiceIs
    BY DEF ChoiceInv
  <2>2. ASSUME choice.alone, NEW d \in Selects' PROVE choice.outcome = "pending" /\ d.row = choice.client
    BY <1>5, <2>1, <2>2 DEF ChoiceIs
  <2>3. ASSUME choice.alone, NEW d1 \in Selects', NEW d2 \in Selects' PROVE d1 = d2
    BY <1>5, <2>1, <2>3 DEF ChoiceIs
  <2>4. choice.alone => /\ choice.outcome = "granted" => acting = choice.client
                        /\ choice.outcome = "refused" => acting = NoClient
    BY <2>1 DEF ChoiceIs
  <2> QED
    BY <1>1, <2>2, <2>3, <2>4 DEF ChoiceIs
<1> QED
  BY <1>6, <1>7, <1>8 DEF ChoiceInv

\* A page that is cleared for a new load.
LEMMA ChoiceCleared ==
  ASSUME PageInv, ChoiceInv, NEW p \in Page, UNCHANGED <<acting, choice>>,
         \A d \in calls' : d.kind = "select" => d \in calls,
         shown' = [shown EXCEPT ![p] = Loading], control' = [control EXCEPT ![p] = AllIdle],
         (gen' = gen /\ Hooked(p)) \/ (gen' = [gen EXCEPT ![p] = nonce'[p]] /\ gen[p] < nonce'[p]),
         nonce'[p] \in Nat
  PROVE  ChoiceInv'
<1>1. Selects' \subseteq Selects
  BY DEF Selects
<1>2. /\ shown \in [Page -> ShownStates] /\ control \in [Page -> [ListRow -> States]]
      /\ gen \in [Page -> Nat]
  BY DEF PageInv, PagesTyped
<1>3. \A q \in Page : q # p => shown'[q] = shown[q] /\ control'[q] = control[q] /\ gen'[q] = gen[q]
  BY <1>2
<1>4. ASSUME NEW c \in Selects', Current(c)'
      PROVE  Current(c) /\ HasRows(c.page)' /\ control'[c.page][c.row] = control[c.page][c.row]
  <2>1. c \in Selects
    BY <1>1
  <2>2. /\ c.page \in Page /\ c.gen \in Nat /\ c.gen <= gen[c.page] /\ gen[c.page] \in Nat
        /\ ~Hooked(c.page)
    BY <2>1, SelectTyping
  <2>3. c.page # p
    <3>1. CASE gen' = gen /\ Hooked(p)
      BY <2>2, <3>1
    <3>2. CASE gen' = [gen EXCEPT ![p] = nonce'[p]] /\ gen[p] < nonce'[p]
      BY <1>2, <1>4, <2>2, <3>2 DEF Current
    <3> QED
      BY <3>1, <3>2
  <2>4. Current(c)
    BY <1>3, <1>4, <2>2, <2>3 DEF Current
  <2>5. HasRows(c.page)
    BY <2>1, <2>4 DEF ChoiceInv, SelectsShown
  <2> QED
    BY <1>3, <2>2, <2>3, <2>4, <2>5 DEF HasRows
<1> QED
  BY <1>1, <1>4, ChoiceStays

LEMMA ChoiceAsked ==
  ASSUME PageInv, ChoiceInv, NEW p \in Page, StartLoad(p) \/ Retry(p) \/ Revisit(p)
  PROVE  ChoiceInv'
<1>1. nonce \in [Page -> Nat] /\ gen \in [Page -> Nat] /\ gen[p] <= nonce[p]
  BY DEF PageInv, PagesTyped
<1>2. /\ shown' = [shown EXCEPT ![p] = Loading] /\ control' = [control EXCEPT ![p] = AllIdle]
      /\ UNCHANGED <<acting, choice>>
  BY DEF StartLoad, Retry, Revisit, Reload
<1>3. /\ nonce'[p] \in Nat
      /\ (gen' = gen /\ Hooked(p)) \/ (gen' = [gen EXCEPT ![p] = nonce'[p]] /\ gen[p] < nonce'[p])
  <2>1. CASE StartLoad(p)
    BY <1>1, <2>1 DEF StartLoad
  <2>2. CASE Retry(p)
    BY <1>1, <2>2 DEF Retry, Reload
  <2>3. CASE Revisit(p)
    BY <1>1, <2>3 DEF Revisit
  <2> QED
    BY <2>1, <2>2, <2>3
<1>4. \A d \in calls' : d.kind = "select" => d \in calls
  <2>1. CASE StartLoad(p)
    BY <2>1 DEF StartLoad, Load
  <2>2. CASE Retry(p)
    BY <2>2 DEF Retry
  <2>3. CASE Revisit(p)
    BY <2>3 DEF Revisit, Load
  <2> QED
    BY <2>1, <2>2, <2>3
<1> QED
  BY <1>2, <1>3, <1>4, ChoiceCleared

LEMMA ChoiceSettled ==
  ASSUME PageInv, ChoiceInv, NEW c \in calls, c.kind = "load", NEW r, Settle(c, r),
         calls' = calls \ {c}, UNCHANGED gen
  PROVE  ChoiceInv'
<1>1. UNCHANGED <<control, acting, choice>>
  BY DEF Settle
<1>2. Selects' \subseteq Selects
  BY DEF Selects
<1>3. ASSUME NEW d \in Selects', Current(d)'
      PROVE  Current(d) /\ HasRows(d.page)' /\ control'[d.page][d.row] = control[d.page][d.row]
  <2>1. d \in Selects /\ Current(d)
    BY <1>2, <1>3 DEF Current
  <2>2. HasRows(d.page) /\ d.page \in Page
    BY <2>1, SelectTyping DEF ChoiceInv, SelectsShown
  <2>3. shown \in [Page -> ShownStates]
    BY DEF PageInv, PagesTyped
  <2>4. shown'[d.page] = shown[d.page]
    <3>1. CASE Active(c)
      <4>1. shown[c.page] = Loading
        BY <3>1 DEF PageInv, LoadsInOrder
      <4>2. c.page # d.page
        BY <2>2, <4>1, NothingLoads DEF HasRows
      <4> QED
        BY <2>2, <2>3, <3>1, <4>2 DEF Settle
    <3>2. CASE ~Active(c)
      BY <3>2 DEF Settle
    <3> QED
      BY <3>1, <3>2
  <2> QED
    BY <1>1, <2>1, <2>2, <2>4 DEF HasRows
<1> QED
  BY <1>1, <1>2, <1>3, ChoiceStays

\* A row of another page hears of its call, or nobody does.
LEMMA ChoiceUnheard ==
  ASSUME PageInv, ChoiceInv, NEW c \in calls, UNCHANGED <<gen, shown, acting, choice>>,
         \A d \in calls' : d.kind = "select" => d \in calls,
         \/ c.kind = "decide" /\ (\E state \in States : SetControl(c, state))
         \/ UNCHANGED control
  PROVE  ChoiceInv'
<1>1. Selects' \subseteq Selects
  BY DEF Selects
<1>2. ASSUME NEW d \in Selects', Current(d)'
      PROVE  Current(d) /\ HasRows(d.page)' /\ control'[d.page][d.row] = control[d.page][d.row]
  <2>1. d \in Selects /\ Current(d)
    BY <1>1, <1>2 DEF Current
  <2>2. HasRows(d.page) /\ d.page \in Page /\ d.page.kind = "clients"
    BY <2>1, SelectTyping DEF ChoiceInv, SelectsShown
  <2>3. control'[d.page] = control[d.page]
    <3>1. CASE UNCHANGED control
      BY <3>1
    <3>2. CASE c.kind = "decide" /\ \E state \in States : SetControl(c, state)
      <4>1. CallOK(c)
        BY DEF PageInv, CallsOK
      <4>2. c.page # d.page
        BY <2>2, <3>2, <4>1 DEF CallOK
      <4>3. \A p \in Page : p # c.page => control'[p] = control[p]
        BY <3>2, ControlTyped
      <4> QED
        BY <2>2, <4>2, <4>3
    <3> QED
      BY <3>1, <3>2
  <2> QED
    BY <2>1, <2>2, <2>3 DEF HasRows
<1> QED
  BY <1>1, <1>2, ChoiceStays

\* The choice is made: of any before it, none is under way from this visit to the page.
LEMMA ChoiceMade ==
  ASSUME PageInv, ChoiceInv, NEW p \in Page, NEW x \in Client, Select(p, x)
  PROVE  ChoiceInv'
<1>1. PICK e : e = [kind |-> "select", page |-> p, gen |-> gen[p], row |-> x,
                    lost |-> FALSE, reply |-> Unanswered]
  OBVIOUS
<1>2. e.kind = "select" /\ e.page = p /\ e.gen = gen[p] /\ e.row = x
  BY <1>1
<1>3. /\ p.kind = "clients" /\ HasRows(p) /\ ~Pending(p)
      /\ control' = [control EXCEPT ![p][x] = "submitting"] /\ calls' = calls \cup {e}
      /\ UNCHANGED <<gen, shown, acting>>
  BY <1>1 DEF Select, ReadyToSelect
<1>4. choice' = [client |-> x, outcome |-> "pending",
                 alone |-> \A c \in calls : c.kind = "select" => Mounted(c)]
  BY DEF Select
<1>5. ASSUME NEW c \in Selects PROVE c.page = p /\ ~Current(c) /\ ~Mounted(c)
  <2>1. /\ c.page \in Page /\ c.page.kind = "clients" /\ c.row \in Client /\ c.gen \in Nat
        /\ c.gen <= gen[c.page] /\ gen[c.page] \in Nat /\ visit[c.page] = gen[c.page]
    BY <1>5, SelectTyping
  <2>2. c.page = p
    BY <1>3, <2>1, PageKinds DEF PageInv
  <2>3. ~Current(c)
    <3>1. Current(c) => control[p][c.row] = "submitting"
      BY <2>2 DEF ChoiceInv, SelectsShown
    <3> QED
      BY <1>3, <2>1, <3>1 DEF Pending
  <2>4. ~Mounted(c)
    BY <2>1, <2>3 DEF Mounted, Current
  <2> QED
    BY <2>2, <2>3, <2>4
<1>6. Selects' = Selects \cup {e}
  BY <1>2, <1>3 DEF Selects
<1>7. control'[p][x] = "submitting"
  <2>1. control \in [Page -> [ListRow -> States]] /\ x \in ListRow
    BY DEF PageInv, PagesTyped, ListRow
  <2> QED
    BY <1>3, <2>1
<1>8. SelectsShown'
  <2>1. \A c \in Selects' : Current(c)' => c = e
    BY <1>3, <1>5, <1>6 DEF Current
  <2>2. HasRows(p)' /\ control'[e.page][e.row] = "submitting" /\ e.page = p
    BY <1>2, <1>3, <1>7 DEF HasRows
  <2> QED
    BY <2>1, <2>2 DEF SelectsShown, Current, HasRows
<1>9. ChoiceTyped'
  <2>1. (\A c \in calls : c.kind = "select" => Mounted(c)) \in BOOLEAN
    OBVIOUS
  <2> QED
    BY <1>4, <2>1 DEF ChoiceTyped
<1>10. ChoiceIs'
  <2> SUFFICES ASSUME choice'.alone
               PROVE  /\ \A c \in Selects' : choice'.outcome = "pending" /\ c.row = choice'.client
                      /\ \A c, d \in Selects' : c = d
                      /\ choice'.outcome = "granted" => acting' = choice'.client
                      /\ choice'.outcome = "refused" => acting' = NoClient
    BY DEF ChoiceIs
  <2>1. \A c \in calls : c.kind = "select" => Mounted(c)
    BY <1>4
  <2>2. Selects = {}
    BY <1>5, <2>1 DEF Selects
  <2>3. choice'.outcome = "pending" /\ choice'.client = x
    BY <1>4
  <2> QED
    BY <1>2, <1>6, <2>2, <2>3
<1> QED
  BY <1>8, <1>9, <1>10 DEF ChoiceInv

\* The choice is answered: the banner follows it.
LEMMA ChoiceAnswered ==
  ASSUME PageInv, ChoiceInv, NEW c \in calls, c.kind = "select", Selected(c, c.reply),
         calls' = calls \ {c}, UNCHANGED gen
  PROVE  ChoiceInv'
<1>1. c \in Selects
  BY DEF Selects
<1>2. Selects' = Selects \ {c}
  BY DEF Selects
<1>3. shown' = shown /\ SetControl(c, "idle")
  BY DEF Selected
<1>4. SelectsShown'
  <2>1. ASSUME NEW d \in Selects', Current(d)'
        PROVE  HasRows(d.page)' /\ control'[d.page][d.row] = "submitting"
    <3>1. d \in Selects /\ d # c /\ Current(d)
      BY <1>2, <2>1 DEF Current
    <3>2. HasRows(d.page) /\ control[d.page][d.row] = "submitting" /\ ~Current(c)
      BY <1>1, <3>1 DEF ChoiceInv, SelectsShown
    <3>3. control' = control
      BY <1>3, <3>2 DEF SetControl, Alive, Current
    <3> QED
      BY <1>3, <3>2, <3>3 DEF HasRows
  <2>2. ASSUME NEW d1 \in Selects', NEW d2 \in Selects', Current(d1)', Current(d2)' PROVE d1 = d2
    <3>1. d1 \in Selects /\ d2 \in Selects /\ Current(d1) /\ Current(d2)
      BY <1>2, <2>2 DEF Current
    <3> QED
      BY <3>1 DEF ChoiceInv, SelectsShown
  <2> QED
    BY <2>1, <2>2 DEF SelectsShown, Current, HasRows
<1>5. PICK o : o = IF c.reply.kind = "ok" THEN "granted" ELSE "refused"
  OBVIOUS
<1>6. choice' = IF c.row = choice.client THEN [choice EXCEPT !.outcome = o] ELSE choice
  BY <1>5 DEF Selected
<1>7. choice \in [client: Client \cup {NoClient}, outcome: {"none", "pending", "granted", "refused"},
                  alone: BOOLEAN]
  BY DEF ChoiceInv, ChoiceTyped
<1>8. o \in {"none", "pending", "granted", "refused"}
  BY <1>5
<1>9. ChoiceTyped'
  BY <1>6, <1>7, <1>8 DEF ChoiceTyped
<1>10. choice'.alone = choice.alone /\ choice'.client = choice.client
  BY <1>6, <1>7
<1>11. ChoiceIs'
  <2> SUFFICES ASSUME choice.alone
               PROVE  /\ \A d \in Selects' : choice'.outcome = "pending" /\ d.row = choice'.client
                      /\ \A b, d \in Selects' : b = d
                      /\ choice'.outcome = "granted" => acting' = choice'.client
                      /\ choice'.outcome = "refused" => acting' = NoClient
    BY <1>10 DEF ChoiceIs
  <2>1. c.row = choice.client /\ \A d \in Selects : d = c
    BY <1>1 DEF ChoiceInv, ChoiceIs
  <2>2. Selects' = {}
    BY <1>2, <2>1
  <2>3. choice'.outcome = o
    BY <1>6, <1>7, <2>1
  <2>4. acting' = IF c.reply.kind = "ok" THEN c.row ELSE NoClient
    BY DEF Selected
  <2> QED
    BY <1>5, <1>10, <2>1, <2>2, <2>3, <2>4
<1> QED
  BY <1>4, <1>9, <1>11 DEF ChoiceInv

LEMMA ChoiceDelivered ==
  ASSUME PageInv, ChoiceInv, NEW c \in calls, Deliver(c)
  PROVE  ChoiceInv'
<1>1. calls' = calls \ {c} /\ UNCHANGED gen
  BY DEF Deliver
<1>2. \A d \in calls' : d.kind = "select" => d \in calls
  BY <1>1
<1>3. "done" \in States /\ "error" \in States
  BY DEF States
<1>4. CASE c.kind = "load" /\ Settle(c, c.reply)
  BY <1>1, <1>4, ChoiceSettled
<1>5. CASE c.kind = "decide" /\ Answered(c, c.reply)
  <2>1. CASE c.reply.kind = "ok" /\ Mounted(c)
    <3>1. PICK p : p = c.page
      OBVIOUS
    <3>2. p \in Page
      BY <3>1, CallKinds DEF PageInv, CallsOK
    <3>3. nonce \in [Page -> Nat]
      BY DEF PageInv, PagesTyped
    <3>4. Reload(p) /\ Hooked(p) /\ UNCHANGED <<acting, choice>>
      BY <1>5, <2>1, <3>1 DEF Answered
    <3>5. nonce'[p] \in Nat
      BY <3>2, <3>3, <3>4 DEF Reload
    <3>6. shown' = [shown EXCEPT ![p] = Loading] /\ control' = [control EXCEPT ![p] = AllIdle]
      BY <3>4 DEF Reload
    <3> QED
      BY <1>1, <1>2, <3>2, <3>4, <3>5, <3>6, ChoiceCleared
  <2>2. CASE ~(c.reply.kind = "ok" /\ Mounted(c))
    <3>1. SetControl(c, "error") /\ UNCHANGED <<shown, acting, choice>>
      BY <1>5, <2>2 DEF Answered
    <3> QED
      BY <1>1, <1>2, <1>3, <1>5, <3>1, ChoiceUnheard
  <2> QED
    BY <2>1, <2>2
<1>6. CASE c.kind = "decide" /\ QueueAnswered(c, c.reply)
  <2>1. UNCHANGED <<shown, acting, choice>> /\ \E state \in States : SetControl(c, state)
    BY <1>3, <1>6 DEF QueueAnswered
  <2> QED
    BY <1>1, <1>2, <1>6, <2>1, ChoiceUnheard
<1>7. CASE c.kind = "select" /\ Selected(c, c.reply)
  BY <1>1, <1>7, ChoiceAnswered
<1> QED
  BY <1>4, <1>5, <1>6, <1>7 DEF Deliver

LEMMA ChoiceLost ==
  ASSUME PageInv, ChoiceInv, NEW c \in calls, Lose(c)
  PROVE  ChoiceInv'
<1>1. PICK r : r = Failure("error")
  OBVIOUS
<1>2. r.kind = "failure"
  BY <1>1 DEF Failure
<1>3. UNCHANGED gen
  BY DEF Lose
<1>4. CASE c.kind = "load" /\ Settle(c, r)
  <2>1. calls' = calls \ {c}
    BY <1>4 DEF Lose
  <2> QED
    BY <1>3, <1>4, <2>1, ChoiceSettled
<1>5. ASSUME NEW d \in calls', d.kind = "select" PROVE d \in calls
  <2>1. PICK e : e = [c EXCEPT !.lost = TRUE]
    OBVIOUS
  <2>2. d \in calls \/ (c.kind = "decide" /\ d = e)
    BY <2>1 DEF Lose
  <2>3. c.kind = "decide" => e.kind = "decide"
    <3>1. c.kind = "decide" => c \in DecideCall
      BY CallKinds DEF PageInv, CallsOK
    <3> QED
      BY <2>1, <3>1 DEF DecideCall
  <2> QED
    BY <1>5, <2>2, <2>3
<1>6. CASE c.kind = "decide" /\ Answered(c, r)
  <2>1. SetControl(c, "error") /\ UNCHANGED <<shown, acting, choice>>
    BY <1>2, <1>6 DEF Answered
  <2>2. \E state \in States : SetControl(c, state)
    BY <2>1 DEF States
  <2> QED
    BY <1>3, <1>5, <1>6, <2>1, <2>2, ChoiceUnheard
<1>7. CASE c.kind # "load" /\ UNCHANGED <<nonce, shown, control, acting, acked, choice>>
  BY <1>3, <1>5, <1>7, ChoiceUnheard
<1> QED
  BY <1>1, <1>4, <1>6, <1>7 DEF Lose, Thrown

LEMMA ChoiceElsewhere ==
  ASSUME PageInv, ChoiceInv, NEW p \in Page, NEW x \in Subject, NEW d \in Decision \cup {"CONFIRMED"},
         Submit(p, x, d)
  PROVE  ChoiceInv'
<1>1. /\ p.kind # "clients" /\ UNCHANGED <<gen, shown, acting, choice>>
      /\ control' = [control EXCEPT ![p][x] = "submitting"]
  BY DEF Submit
<1>2. Selects' \subseteq Selects
  BY DEF Selects, Submit, Post
<1>3. ASSUME NEW c \in Selects', Current(c)'
      PROVE  Current(c) /\ HasRows(c.page)' /\ control'[c.page][c.row] = control[c.page][c.row]
  <2>1. c \in Selects /\ Current(c)
    BY <1>1, <1>2, <1>3 DEF Current
  <2>2. HasRows(c.page) /\ c.page \in Page /\ c.page # p
    BY <1>1, <2>1, SelectTyping DEF ChoiceInv, SelectsShown
  <2>3. control \in [Page -> [ListRow -> States]]
    BY DEF PageInv, PagesTyped
  <2>4. control'[c.page] = control[c.page]
    BY <1>1, <2>2, <2>3
  <2> QED
    BY <1>1, <2>1, <2>2, <2>4 DEF HasRows
<1> QED
  BY <1>1, <1>2, <1>3, ChoiceStays

-----------------------------------------------------------------------------
PagesInv == PageInv /\ FreshInv /\ ChoiceInv

LEMMA PagesBegin ==
  ASSUME PagesInit
  PROVE  PagesInv
<1>1. PICK M \in Meetings :
        /\ decided = [o \in Subject |-> <<>>]
        /\ nonce = [p \in M |-> 1]
        /\ gen = nonce /\ visit = nonce
        /\ calls = {Load(p, 1) : p \in M}
        /\ shown = [p \in M |-> Loading]
        /\ control = [p \in M |-> AllIdle]
        /\ acting = NoClient
        /\ acked = [p \in M |-> [o \in Subject |-> 0]]
        /\ choice = [client |-> NoClient, outcome |-> "none", alone |-> TRUE]
  BY DEF PagesInit
<1>2. Page = M
  BY <1>1 DEF Page
<1>3. PagesTyped
  <2>1. /\ nonce \in [Page -> Nat] /\ gen \in [Page -> Nat] /\ visit \in [Page -> Nat]
        /\ \A p \in Page : 1 <= visit[p] /\ visit[p] <= gen[p] /\ gen[p] <= nonce[p]
    BY <1>1, <1>2
  <2>2. /\ shown \in [Page -> ShownStates] /\ control \in [Page -> [ListRow -> States]]
        /\ \A p \in Page : ~HasRows(p) => control[p] = AllIdle
    BY <1>1, <1>2, NothingLoads
  <2>3. <<>> \in Seq(Asked)
    OBVIOUS
  <2>4. decided \in [Subject -> Seq(Asked)] /\ acked \in [Page -> [Subject -> Nat]]
        /\ acting \in Client \cup {NoClient}
    BY <1>1, <1>2, <2>3
  <2> QED
    BY <1>2, <2>1, <2>2, <2>4 DEF PagesTyped
<1>4. Counted
  <2>1. \A x \in Subject : Len(decided[x]) = 0
    BY <1>1
  <2> QED
    BY <1>1, <1>2, <2>1 DEF Counted, Subject
<1>5. ASSUME NEW c \in calls
      PROVE  /\ c.kind = "load" /\ c.page \in Page /\ c.gen = 1 /\ c.reply = Unanswered
             /\ c = Load(c.page, 1) /\ CallOK(c)
  <2>1. PICK p \in M : c = Load(p, 1)
    BY <1>1
  <2>2. c.kind = "load" /\ c.page = p /\ c.gen = 1 /\ c.reply = Unanswered
    BY <2>1 DEF Load
  <2>3. c \in LoadCall
    BY <1>2, <1>3, <2>1, PageKinds DEF Load, LoadCall
  <2>4. CallOK(c)
    BY <1>1, <1>2, <2>2, <2>3 DEF CallOK
  <2> QED
    BY <1>2, <2>1, <2>2, <2>4
<1>6. CallsOK
  BY <1>5 DEF CallsOK
<1>7. LoadsInOrder
  <2>1. ASSUME NEW c \in calls, NEW d \in calls, c.page = d.page PROVE c = d
    BY <1>5, <2>1
  <2>2. \A c \in calls : shown[c.page] = Loading
    BY <1>1, <1>2, <1>5
  <2> QED
    BY <2>1, <2>2 DEF LoadsInOrder
<1>8. Straight
  BY <1>1 DEF Straight
<1>9. WithinLoads
  <2>1. \A p \in Page : Reloading(p) = {}
    BY <1>5 DEF Reloading
  <2>2. ASSUME NEW p \in Page PROVE 1 + 0 <= p.loads
    BY <1>2, <2>2, WorkspaceAssumption
  <2> QED
    BY <1>1, <1>2, <2>1, <2>2, FS_EmptySet DEF WithinLoads
<1>10. PageInv
  BY <1>3, <1>4, <1>6, <1>7, <1>8, <1>9 DEF PageInv
<1>11. FreshInv
  <2>1. \A c \in calls : FreshLoad(c)
    BY <1>5 DEF FreshLoad, Unanswered
  <2>2. \A p \in Page : FreshPage(p)
    BY <1>1, <1>2, NothingLoads DEF FreshPage, HasRows
  <2> QED
    BY <2>1, <2>2 DEF FreshInv
<1>12. ChoiceInv
  <2>1. Selects = {}
    BY <1>5 DEF Selects
  <2>2. ChoiceTyped
    BY <1>1 DEF ChoiceTyped
  <2>3. ChoiceIs
    BY <1>1, <2>1 DEF ChoiceIs
  <2> QED
    BY <2>1, <2>2, <2>3 DEF ChoiceInv, SelectsShown
<1> QED
  BY <1>10, <1>11, <1>12 DEF PagesInv

LEMMA PagesStay ==
  ASSUME PagesInv, UNCHANGED pagesVars
  PROVE  PagesInv'
<1>1. PageInv'
  <2>1. /\ Page' = Page /\ PageInv
        /\ UNCHANGED <<decided, calls, nonce, gen, visit, shown, control, acting, acked>>
    BY DEF PagesInv, pagesVars, Page
  <2>2. PagesTyped'
    BY <2>1 DEF PageInv, PagesTyped, HasRows
  <2>3. Counted' /\ CallsOK'
    BY <2>1 DEF PageInv, Counted, CallsOK, CallOK
  <2>4. LoadsInOrder' /\ Straight' /\ WithinLoads'
    BY <2>1 DEF PageInv, LoadsInOrder, Straight, WithinLoads, Active, Hooked, Reloading, Loading
  <2> QED
    BY <2>2, <2>3, <2>4 DEF PageInv
<1>2. FreshInv'
  BY FreshStays DEF PagesInv, pagesVars
<1>3. ChoiceInv'
  <2>1. Selects' = Selects /\ UNCHANGED <<acting, choice>>
    BY DEF Selects, pagesVars
  <2>2. ASSUME NEW c \in Selects', Current(c)'
        PROVE  Current(c) /\ HasRows(c.page)' /\ control'[c.page][c.row] = control[c.page][c.row]
    <3>1. c \in Selects /\ Current(c)
      BY <2>1, <2>2 DEF Current, pagesVars
    <3>2. HasRows(c.page)
      BY <3>1 DEF PagesInv, ChoiceInv, SelectsShown
    <3> QED
      BY <3>1, <3>2 DEF HasRows, pagesVars
  <2>3. Selects' \subseteq Selects
    BY <2>1
  <2> QED
    BY <2>1, <2>2, <2>3, ChoiceStays DEF PagesInv
<1> QED
  BY <1>1, <1>2, <1>3 DEF PagesInv

LEMMA PagesGoOn ==
  ASSUME PagesInv, [PagesNext]_pagesVars
  PROVE  PagesInv'
<1>1. PageInv /\ FreshInv /\ ChoiceInv
  BY DEF PagesInv
<1>2. ASSUME NEW c \in calls, Serve(c) \/ RefuseCall(c) PROVE PagesInv'
  <2>1. ServerStepOK(c) /\ PageInv'
    BY <1>1, <1>2, ServeSteps
  <2> QED
    BY <1>1, <2>1, FreshServed, ChoiceServed DEF PagesInv
<1>3. ASSUME NEW c \in calls, Deliver(c) PROVE PagesInv'
  BY <1>1, <1>3, DeliverStep, FreshDelivered, ChoiceDelivered DEF PagesInv
<1>4. ASSUME NEW c \in calls, Lose(c) PROVE PagesInv'
  BY <1>1, <1>4, LoseStep, FreshLost, ChoiceLost DEF PagesInv
<1>5. ASSUME NEW p \in Page, StartLoad(p) \/ Retry(p) \/ Revisit(p) PROVE PagesInv'
  <2>1. PageInv'
    BY <1>1, <1>5, StartStep, RetryStep, RevisitStep
  <2> QED
    BY <1>1, <1>5, <2>1, FreshAsked, ChoiceAsked DEF PagesInv
<1>6. ASSUME NEW p \in Page, NEW x \in Subject, NEW d \in Decision \cup {"CONFIRMED"}, Submit(p, x, d)
      PROVE  PagesInv'
  BY <1>1, <1>6, SubmitStep, FreshClicked, ChoiceElsewhere DEF PagesInv
<1>7. ASSUME NEW p \in Page, NEW x \in Client, Select(p, x) PROVE PagesInv'
  BY <1>1, <1>7, SelectStep, FreshClicked, ChoiceMade DEF PagesInv
<1>8. CASE UNCHANGED pagesVars
  BY <1>8, PagesStay
<1> QED
  BY <1>2, <1>3, <1>4, <1>5, <1>6, <1>7, <1>8 DEF PagesNext

LEMMA PagesTypesFollow ==
  ASSUME PageInv
  PROVE  PagesTypeOK
<1>1. decided \in [Subject -> Seq(Decision \cup {"CONFIRMED"})]
  BY DEF PageInv, PagesTyped, Asked
<1>2. ASSUME NEW c \in calls PROVE c.page \in Page /\ c.gen \in 1..gen[c.page]
  <2>1. CallOK(c)
    BY DEF PageInv, CallsOK
  <2>2. c.page \in Page /\ c.gen \in Nat
    BY <2>1, CallKinds
  <2>3. gen[c.page] \in Nat
    BY <2>2 DEF PageInv, PagesTyped
  <2> QED
    BY <2>1, <2>2, <2>3 DEF CallOK
<1>3. ASSUME NEW p \in Page PROVE nonce[p] \in 1..p.loads
  <2>1. PICK n : n = Cardinality(Reloading(p))
    OBVIOUS
  <2>2. n \in Nat /\ nonce[p] + n <= p.loads
    BY <2>1, FS_CardinalityType DEF PageInv, WithinLoads
  <2>3. PagesTyped
    BY DEF PageInv
  <2>4. p.loads \in Nat
    BY <2>3, PageKinds
  <2>5. nonce[p] \in Nat /\ 1 <= nonce[p]
    <3>1. nonce[p] \in Nat /\ gen[p] \in Nat /\ visit[p] \in Nat
          /\ 1 <= visit[p] /\ visit[p] <= gen[p] /\ gen[p] <= nonce[p]
      BY <2>3 DEF PagesTyped
    <3> QED
      BY <3>1
  <2> QED
    BY <2>2, <2>4, <2>5
<1>4. \A p \in Page : shown[p].status \in {"loading", "error", "forbidden", "empty", "success"}
  BY DEF PageInv, PagesTyped, ShownStates
<1>5. /\ \A p \in Page : visit[p] <= gen[p] /\ gen[p] <= nonce[p]
      /\ control \in [Page -> [ListRow -> States]]
      /\ \A p \in Page : ~HasRows(p) => control[p] = AllIdle
      /\ acting \in Client \cup {NoClient}
      /\ acked \in [Page -> [Subject -> Nat]]
  BY DEF PageInv, PagesTyped
<1> QED
  BY <1>1, <1>2, <1>3, <1>4, <1>5 DEF PagesTypeOK

LEMMA PagesHold == PagesSpec => []PagesInv
<1>1. PagesInit => PagesInv
  BY PagesBegin
<1>2. PagesInv /\ [PagesNext]_pagesVars => PagesInv'
  BY PagesGoOn
<1>3. PagesSpec => Safety
  BY PTL DEF PagesSpec
<1> QED
  BY <1>1, <1>2, <1>3, PTL DEF Safety

\* Once a reload's effect has run, the client's rows are never older than a decision that
\* the page was told of (OpportunityReviewControl, useAsyncData, AsyncBoundary), whatever
\* the pages, the rows and the mishaps.
THEOREM ListsAreFresh == PagesSpec => []AcknowledgedIsShown
<1>1. PagesInv => AcknowledgedIsShown
  <2> SUFFICES ASSUME PagesInv PROVE AcknowledgedIsShown
    OBVIOUS
  <2>1. PagesTypeOK
    BY PagesTypesFollow DEF PagesInv
  <2>2. \A p \in Page : FreshPage(p)
    BY DEF PagesInv, FreshInv
  <2> QED
    BY <2>1, <2>2 DEF AcknowledgedIsShown, FreshPage, Covers
<1> QED
  BY <1>1, PagesHold, PTL

\* The agency's banner follows the client that was chosen last, when nothing of an earlier
\* visit to the page was under way (AgencyActingBannerMount, selectClient).
THEOREM BannersFollow == PagesSpec => []BannerFollowsTheChoice
<1>1. PagesInv => BannerFollowsTheChoice
  BY DEF PagesInv, ChoiceInv, ChoiceIs, BannerFollowsTheChoice
<1> QED
  BY <1>1, PagesHold, PTL
==============================================================================

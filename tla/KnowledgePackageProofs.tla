----------------------- MODULE KnowledgePackageProofs -----------------------
(***************************************************************************)
(* Safety of KnowledgePackage, for any number of requests, documents,      *)
(* texts, issues and users.                                                *)
(***************************************************************************)
EXTENDS KnowledgePackage, FiniteSetTheorems, TLAPS

Height(t) == IF head[t] = Absent THEN 0 ELSE head[t]
Total == Cardinality(snapshots)

Local == [n: Nat, target: SUBSET (Title \cup Nat), parts: [Title -> Int], start: [Title -> Int]]
Writes == [old: SUBSET Nat, new: SUBSET Snapshot]
Typed ==
  /\ pc \in [Request -> Labels]
  /\ answer \in [Request -> Answers]
  /\ head \in [Title -> Nat \cup {Absent}]
  /\ versions \subseteq Version
  /\ content \subseteq Title \X Text
  /\ snapshots \subseteq Snapshot
  /\ confirmed \in User \cup {NoOne}
  /\ resolved \in [Issue -> User \cup {NoOne}]
  /\ audit \subseteq Request
  /\ read \in [Request -> Local]
  /\ tx \in [Request -> Writes]

\* The versions of a document are 1..n, n its counter, and their texts are stored.
Numbered ==
  /\ \A v \in versions : v.n \in 1..Height(v.doc) /\ <<v.doc, v.text>> \in content
  /\ \A t \in Title : \A k \in 1..Height(t) : \E v \in versions : v.doc = t /\ v.n = k
  /\ \A v, w \in versions : v.doc = w.doc /\ v.n = w.n => v = w

\* What an ingestion has behind it: the document is there, its text is stored, and
\* the number it has computed is one that is taken or the next.
Ingests(r) ==
  /\ pc[r] \in {"create", "put", "number", "add"} => Parse(r) # Unsupported
  /\ pc[r] \in {"put", "number", "add"} => head[r.title] # Absent
  /\ pc[r] \in {"number", "add"} => <<r.title, r.text>> \in content
  /\ pc[r] = "add" => read[r].n \in 1..(Height(r.title) + 1)

\* What a sealing has read of a document is no less than was there when it arrived.
Seals(r) ==
  /\ pc[r] = "list" => \A t \in Title : read[r].parts[t] = Absent
  /\ pc[r] = "latest" =>
       /\ read[r].target \subseteq Title
       /\ \A t \in Title \ read[r].target : read[r].start[t] <= read[r].parts[t]
  /\ pc[r] \in {"supersede", "insert", "commit"} =>
       \A t \in Title : read[r].start[t] <= read[r].parts[t]

Knows(r) ==
  /\ pc[r] = "audit" => r.kind \in {"ingest", "seal"}
  /\ pc[r] = "commit" => r.kind = "seal"
  /\ \A t \in Title : read[r].start[t] <= head[t] /\ read[r].parts[t] <= Height(t)
  /\ r.kind = "ingest" => Ingests(r)
  /\ r.kind = "seal" => Seals(r)

NextSnapshot(r) == [number |-> Total + 1, parts |-> read[r].parts, by |-> r]
\* A snapshot is what its request has read; the last is the current one, and who is
\* about to commit the next supersedes it and is alone.
Sealed ==
  /\ IsFiniteSet(snapshots)
  /\ \A s \in snapshots :
       /\ s.number \in 1..Total
       /\ pc[s.by] \in {"audit", "answered"}
       /\ s.parts = read[s.by].parts
       /\ \A t \in Title : read[s.by].start[t] <= s.parts[t]
  /\ \A k \in 1..Total : \E s \in snapshots : s.number = k
  /\ current = IF Total = 0 THEN {} ELSE {Total}
  /\ \A r \in Request : pc[r] = "commit" =>
       tx[r].new = {NextSnapshot(r)} /\ current \subseteq tx[r].old
  /\ \A r, s \in Request : pc[r] = "commit" /\ pc[s] = "commit" => r = s

Done(i) == {r \in audit : r.kind = "resolve" /\ r.issue = i}
Resolutions ==
  \A i \in Issue :
    /\ resolved[i] = NoOne => Done(i) = {}
    /\ resolved[i] # NoOne => \E r \in Request : Done(i) = {r} /\ resolved[i] = r.user

PackageInv == Typed /\ Numbered /\ (\A r \in Request : Knows(r)) /\ Sealed /\ Resolutions

-----------------------------------------------------------------------------
(* Highest numbers.                                                        *)

LEMMA MaxOfInterval ==
  ASSUME NEW S, NEW k \in Nat, S \cup {0} = 0..k
  PROVE  Max(S \cup {0}) = k
<1>1. k \in 0..k /\ \A y \in 0..k : k >= y
  OBVIOUS
<1>2. \A x \in 0..k : (\A y \in 0..k : x >= y) => x = k
  OBVIOUS
<1> QED BY <1>1, <1>2 DEF Max

LEMMA LatestIsHeight ==
  ASSUME Typed, Numbered, NEW t \in Title
  PROVE  Latest(t) = Height(t) /\ Height(t) \in Nat
<1>1. Height(t) \in Nat
  BY DEF Typed, Height, Absent
<1>2. {v.n : v \in Of(t)} \cup {0} = 0..Height(t)
  <2>1. ASSUME NEW v \in Of(t) PROVE v.n \in 0..Height(t)
    <3>1. v \in versions /\ v.doc = t
      BY DEF Of
    <3>2. v.n \in 1..Height(t)
      BY <3>1 DEF Numbered
    <3> QED BY <1>1, <3>2
  <2>2. \A k \in 0..Height(t) : k # 0 => \E v \in Of(t) : v.n = k
    BY <1>1 DEF Of, Numbered
  <2> QED BY <1>1, <2>1, <2>2
<1> QED BY <1>1, <1>2, MaxOfInterval DEF Latest

LEMMA LastIsTotal ==
  ASSUME Typed, Sealed
  PROVE  Max({s.number : s \in snapshots} \cup {0}) = Total /\ Total \in Nat
<1>1. Total \in Nat
  BY FS_CardinalityType DEF Sealed, Total
<1>2. {s.number : s \in snapshots} \cup {0} = 0..Total
  <2>1. \A s \in snapshots : s.number \in 0..Total
    BY <1>1 DEF Sealed
  <2>2. \A k \in 0..Total : k # 0 => \E s \in snapshots : s.number = k
    BY <1>1 DEF Sealed
  <2> QED BY <1>1, <2>1, <2>2
<1> QED BY <1>1, <1>2, MaxOfInterval

-----------------------------------------------------------------------------
(* Steps, by what they leave alone.                                        *)

\* A request that does not move: documents and texts only grow.
LEMMA StillKnows ==
  ASSUME Typed, Typed', NEW s \in Request, Knows(s),
         pc'[s] = pc[s], read'[s] = read[s],
         content \subseteq content', \A t \in Title : head[t] <= head'[t]
  PROVE  Knows(s)'
<1>1. \A t \in Title : /\ Height(t) <= Height(t)' /\ Height(t) \in Nat /\ Height(t)' \in Nat
                       /\ head[t] \in Int /\ head'[t] \in Int
                       /\ head[t] # Absent => head'[t] # Absent
  BY DEF Typed, Height, Absent
<1>2. s.kind = "ingest" => s.title \in Title
  BY RequestAssumption
<1>3. s.kind = "ingest" => Ingests(s)'
  BY <1>1, <1>2 DEF Knows, Ingests, Typed, Local
<1>4. s.kind = "seal" => Seals(s)'
  BY DEF Knows, Seals
<1>5. \A t \in Title : read[s].start[t] \in Int /\ read[s].parts[t] \in Int
  BY DEF Typed, Local
<1>6. \A t \in Title : read'[s].start[t] <= head'[t] /\ read'[s].parts[t] <= Height(t)'
  BY <1>1, <1>5 DEF Knows
<1> QED BY <1>3, <1>4, <1>6 DEF Knows

\* The snapshots stand while nobody commits and nobody comes to.
LEMMA SealedStands ==
  ASSUME Sealed, UNCHANGED <<snapshots, current>>,
         \A s \in Request :
           /\ pc'[s] = "commit" => pc[s] = "commit" /\ read'[s] = read[s] /\ tx'[s] = tx[s]
           /\ pc[s] \in {"audit", "answered"} =>
                pc'[s] \in {"audit", "answered"} /\ read'[s] = read[s],
         snapshots \subseteq Snapshot
  PROVE  Sealed'
<1>1. \A s \in snapshots : s.by \in Request
  BY DEF Snapshot
<1>2. Total' = Total /\ \A r : read'[r] = read[r] => NextSnapshot(r)' = NextSnapshot(r)
  BY DEF Total, NextSnapshot
<1>3. \A r \in Request : pc'[r] = "commit" =>
        tx'[r].new = {NextSnapshot(r)'} /\ current' \subseteq tx'[r].old
  BY <1>2 DEF Sealed
<1>4. \A s \in snapshots' :
       /\ s.number \in 1..Total'
       /\ pc'[s.by] \in {"audit", "answered"}
       /\ s.parts = read'[s.by].parts
       /\ \A t \in Title : read'[s.by].start[t] <= s.parts[t]
  BY <1>1, <1>2 DEF Sealed
<1>5. \A r, s \in Request : pc'[r] = "commit" /\ pc'[s] = "commit" => r = s
  BY DEF Sealed
<1> QED BY <1>2, <1>3, <1>4, <1>5 DEF Sealed

LEMMA NumberedStands ==
  ASSUME Numbered, UNCHANGED <<versions, head>>, content \subseteq content'
  PROVE  Numbered'
BY DEF Numbered, Height

\* A step of r alone, which touches no row.
LEMMA Moves ==
  ASSUME PackageInv, Typed', NEW r \in Request, UNCHANGED rowVars,
         \A s \in Request \ {r} : pc'[s] = pc[s] /\ read'[s] = read[s] /\ tx'[s] = tx[s],
         Knows(r)',
         pc'[r] # "commit",
         pc[r] \in {"audit", "answered"} =>
           pc'[r] \in {"audit", "answered"} /\ read'[r] = read[r]
  PROVE  PackageInv'
<1> USE DEF PackageInv
<1>1. UNCHANGED <<head, versions, content, snapshots, current, resolved, audit>>
  BY DEF rowVars
<1>2. \A t \in Title : head[t] <= head'[t]
  BY <1>1 DEF Typed, Absent
<1>3. \A s \in Request : Knows(s)'
  <2>1. ASSUME NEW s \in Request \ {r} PROVE Knows(s)'
    BY <1>1, <1>2, StillKnows
  <2> QED BY <2>1
<1>4. Numbered'
  BY <1>1, NumberedStands
<1>5. Sealed'
  BY <1>1, SealedStands DEF Typed
<1>6. Resolutions'
  BY <1>1 DEF Resolutions, Done
<1> QED BY <1>3, <1>4, <1>5, <1>6

LEMMA InitPackage == Init => PackageInv
<1> SUFFICES ASSUME Init PROVE PackageInv
  OBVIOUS
<1>1. Typed
  <2>1. Nothing \in Local
    BY DEF Nothing, Local, Absent
  <2>2. NoTx \in Writes
    BY DEF NoTx, Writes
  <2> QED BY <2>1, <2>2 DEF Init, Typed, Labels, Answers
<1>2. Numbered
  BY DEF Init, Numbered, Height
<1>3. \A r \in Request : Knows(r)
  BY DEF Init, Knows, Ingests, Seals, Nothing, Height, Absent
<1>4. Sealed
  <2>1. IsFiniteSet(snapshots) /\ Total = 0
    BY FS_EmptySet DEF Init, Total
  <2> QED BY <2>1 DEF Init, Sealed
<1>5. Resolutions
  BY DEF Init, Resolutions, Done
<1> QED BY <1>1, <1>2, <1>3, <1>4, <1>5 DEF PackageInv

\* Steps that only go on, or end: an answer, a refusal, an error.
LEMMA EndKeeps ==
  ASSUME PackageInv, NEW r \in Request,
         Refuse(r) \/ Skip(r) \/ FindDocument(r) \/ CountPackage(r) \/ ReadIssue(r) \/ Fail(r)
  PROVE  PackageInv'
<1> USE DEF PackageInv
<1>1. /\ UNCHANGED <<rowVars, read>>
      /\ \E label \in {"answered", "create", "put", "audit", "update"} :
           pc' = [pc EXCEPT ![r] = label]
      /\ answer' = answer \/ \E a \in Answers : answer' = [answer EXCEPT ![r] = a]
      /\ tx' = tx \/ tx' = [tx EXCEPT ![r] = NoTx]
  BY DEF Refuse, Skip, FindDocument, CountPackage, ReadIssue, Fail, Tell, Goto, At, Answers
<1>2. Typed'
  <2>1. NoTx \in Writes
    BY DEF NoTx, Writes
  <2> QED BY <1>1, <2>1 DEF Typed, rowVars, Labels
<1>3. \A s \in Request \ {r} : pc'[s] = pc[s] /\ read'[s] = read[s] /\ tx'[s] = tx[s]
  BY <1>1 DEF Typed
<1>4. pc'[r] \in {"answered", "create", "put", "audit", "update"} /\ read'[r] = read[r]
  BY <1>1 DEF Typed
<1>5. pc[r] \in {"audit", "answered"} => pc'[r] = "answered"
  BY <1>1 DEF Refuse, Skip, FindDocument, CountPackage, ReadIssue, Fail, Tell, Goto, At, Typed
<1>6. Knows(r)'
  <2>1. UNCHANGED <<head, content>>
    BY <1>1 DEF rowVars
  <2>2. pc'[r] = "audit" => r.kind = "ingest"
    BY DEF Refuse, Skip, FindDocument, CountPackage, ReadIssue, Fail, Tell, Goto, At, Typed
  <2>3. pc'[r] \in {"create", "put"} => Parse(r) # Unsupported
    BY DEF Refuse, Skip, FindDocument, CountPackage, ReadIssue, Fail, Tell, Goto, At, Typed
  <2>4. pc'[r] = "put" => head[r.title] # Absent
    BY DEF Refuse, Skip, FindDocument, CountPackage, ReadIssue, Fail, Tell, Goto, At, Typed
  <2>5. Ingests(r)' /\ Seals(r)'
    BY <1>4, <2>1, <2>3, <2>4 DEF Ingests, Seals, Parse, DetectKnowledgeFormat
  <2>6. \A t \in Title : read'[r].start[t] <= head'[t] /\ read'[r].parts[t] <= Height(t)'
    BY <1>4, <2>1 DEF Knows, Height
  <2> QED BY <1>4, <2>2, <2>5, <2>6 DEF Knows
<1> QED BY <1>1, <1>2, <1>3, <1>4, <1>5, <1>6, Moves

\* Records as the steps change them.
LEMMA LocalNumbered ==
  ASSUME NEW l \in Local, NEW k \in Nat
  PROVE  LET m == [l EXCEPT !.n = k] IN
         m \in Local /\ m.n = k /\ m.parts = l.parts /\ m.start = l.start
BY DEF Local

LEMMA LocalAimed ==
  ASSUME NEW l \in Local, NEW S \in SUBSET (Title \cup Nat)
  PROVE  LET m == [l EXCEPT !.target = S] IN
         m \in Local /\ m.target = S /\ m.parts = l.parts /\ m.start = l.start
BY DEF Local

LEMMA LocalStarted ==
  ASSUME NEW h \in [Title -> Int]
  PROVE  LET m == [Nothing EXCEPT !.start = h] IN
         /\ m \in Local /\ m.start = h
         /\ m.parts = [t \in Title |-> Absent]
BY DEF Local, Nothing, Absent

HasRead(l, t, k) == [l EXCEPT !.target = @ \ {t}, !.parts[t] = k]
LEMMA LocalRead ==
  ASSUME NEW l \in Local, NEW t \in Title, NEW k \in Int
  PROVE  LET m == HasRead(l, t, k) IN
         /\ m \in Local /\ m.target = l.target \ {t} /\ m.start = l.start
         /\ m.parts[t] = k /\ \A u \in Title \ {t} : m.parts[u] = l.parts[u]
BY DEF Local, HasRead

\* A step that keeps what r has read.
LEMMA ReadMoves ==
  ASSUME PackageInv, NEW r \in Request, UNCHANGED rowVars, UNCHANGED <<answer, tx>>,
         NEW label \in Labels \ {"commit", "audit"}, pc' = [pc EXCEPT ![r] = label],
         NEW value \in Local, Keep(r, value),
         pc[r] \notin {"audit", "answered"},
         \A t \in Title : value.start[t] <= head[t] /\ value.parts[t] <= Height(t),
         r.kind = "ingest" => Ingests(r)', r.kind = "seal" => Seals(r)'
  PROVE  PackageInv'
<1>1. Typed'
  BY DEF PackageInv, Typed, rowVars, Keep
<1>2. \A s \in Request \ {r} : pc'[s] = pc[s] /\ read'[s] = read[s] /\ tx'[s] = tx[s]
  BY DEF Keep, PackageInv, Typed
<1>3. pc'[r] = label /\ read'[r] = value
  BY DEF Keep, PackageInv, Typed
<1>4. Knows(r)'
  <2>1. \A t \in Title : read'[r].start[t] <= head'[t] /\ read'[r].parts[t] <= Height(t)'
    BY <1>3 DEF rowVars, Height
  <2> QED BY <1>3, <2>1 DEF Knows
<1> QED BY <1>1, <1>2, <1>3, <1>4, Moves

LEMMA AcceptKeeps ==
  ASSUME PackageInv, NEW r \in Request, Accept(r)
  PROVE  PackageInv'
<1> DEFINE value == [Nothing EXCEPT !.start = head]
           label == [ingest |-> "find", seal |-> "list", confirm |-> "update",
                     resolve |-> "issue"][r.kind]
<1>1. /\ pc[r] = "unsent" /\ pc' = [pc EXCEPT ![r] = label]
      /\ Keep(r, value) /\ UNCHANGED rowVars /\ UNCHANGED <<answer, tx>>
  BY DEF Accept, Goto
<1>2. /\ label \in Labels \ {"commit", "audit"}
      /\ r.kind = "ingest" => label = "find"
      /\ r.kind = "seal" => label = "list"
  BY RequestAssumption DEF Labels, Kinds
<1>3. head \in [Title -> Int] /\ \A t \in Title : Height(t) \in Nat
  BY DEF PackageInv, Typed, Absent, Height
<1>4. value \in Local /\ value.start = head /\ value.parts = [t \in Title |-> Absent]
  BY <1>3, LocalStarted
<1> HIDE DEF value, label
<1>5. \A t \in Title : value.start[t] <= head[t] /\ value.parts[t] <= Height(t)
  BY <1>3, <1>4 DEF Absent
<1>6. pc'[r] = label /\ read'[r] = value
  BY <1>1 DEF Keep, PackageInv, Typed
<1>7. r.kind = "ingest" => Ingests(r)'
  BY <1>2, <1>6 DEF Ingests
<1>8. r.kind = "seal" => Seals(r)'
  BY <1>2, <1>4, <1>6 DEF Seals
<1> QED BY <1>1, <1>2, <1>4, <1>5, <1>7, <1>8, ReadMoves

\* The number an ingestion computes is the next; it is taken later at most.
LEMMA NumberKeeps ==
  ASSUME PackageInv, NEW r \in Request, NumberVersion(r)
  PROVE  PackageInv'
<1> DEFINE value == [read[r] EXCEPT !.n = Latest(r.title) + 1]
<1>1. /\ r.kind = "ingest" /\ pc[r] = "number" /\ pc' = [pc EXCEPT ![r] = "add"]
      /\ Keep(r, value) /\ UNCHANGED rowVars /\ UNCHANGED <<answer, tx>>
  BY DEF NumberVersion, Goto, At
<1>2. r.title \in Title
  BY <1>1, RequestAssumption
<1>3. Latest(r.title) = Height(r.title) /\ Height(r.title) \in Nat
  BY <1>2, LatestIsHeight DEF PackageInv
<1>4. read[r] \in Local
  BY DEF PackageInv, Typed
<1>5. /\ value \in Local /\ value.n = Height(r.title) + 1
      /\ value.parts = read[r].parts /\ value.start = read[r].start
  BY <1>3, <1>4, LocalNumbered
<1> HIDE DEF value
<1>6. pc'[r] = "add" /\ read'[r] = value
  BY <1>1 DEF Keep, PackageInv, Typed
<1>7. Ingests(r)'
  <2>1. Ingests(r)
    BY <1>1 DEF PackageInv, Knows
  <2>2. Height(r.title)' = Height(r.title) /\ UNCHANGED <<head, content>>
    BY <1>1 DEF rowVars, Height
  <2>3. Parse(r)' = Parse(r)
    BY DEF Parse, DetectKnowledgeFormat
  <2> QED BY <1>1, <1>3, <1>5, <1>6, <2>1, <2>2, <2>3 DEF Ingests
<1>8. \A t \in Title : value.start[t] <= head[t] /\ value.parts[t] <= Height(t)
  BY <1>5 DEF PackageInv, Knows
<1> QED BY <1>1, <1>5, <1>7, <1>8, ReadMoves DEF Labels

LEMMA ListKeeps ==
  ASSUME PackageInv, NEW r \in Request, ListDocuments(r)
  PROVE  PackageInv'
<1> DEFINE S == {t \in Title : head[t] # Absent}
           value == [read[r] EXCEPT !.target = S]
<1>1. /\ r.kind = "seal" /\ pc[r] = "list" /\ pc' = [pc EXCEPT ![r] = "latest"]
      /\ Keep(r, value) /\ UNCHANGED rowVars /\ UNCHANGED <<answer, tx>>
  BY DEF ListDocuments, Goto, At
<1>2. read[r] \in Local
  BY DEF PackageInv, Typed
<1>3. /\ value \in Local /\ value.target = S
      /\ value.parts = read[r].parts /\ value.start = read[r].start
  BY <1>2, LocalAimed
<1> HIDE DEF value
<1>4. \A t \in Title : value.start[t] <= head[t] /\ value.parts[t] <= Height(t)
  BY <1>3 DEF PackageInv, Knows
<1>5. pc'[r] = "latest" /\ read'[r] = value
  BY <1>1 DEF Keep, PackageInv, Typed
<1>6. Seals(r)'
  <2>1. \A t \in Title : value.parts[t] = Absent
    BY <1>1, <1>3 DEF PackageInv, Knows, Seals
  <2>2. \A t \in Title \ S : value.start[t] <= value.parts[t]
    BY <1>4, <2>1
  <2> QED BY <1>3, <1>5, <2>2 DEF Seals
<1> QED BY <1>1, <1>3, <1>4, <1>6, ReadMoves DEF Labels

LEMMA ReadKeeps ==
  ASSUME PackageInv, NEW r \in Request, ReadLatest(r)
  PROVE  PackageInv'
<1>1. PICK t \in read[r].target : Keep(r, HasRead(read[r], t, Latest(t)))
  BY DEF ReadLatest, HasRead
<1> DEFINE value == HasRead(read[r], t, Latest(t))
<1>2. /\ r.kind = "seal" /\ pc[r] = "latest" /\ pc' = [pc EXCEPT ![r] = "latest"]
      /\ Keep(r, value) /\ UNCHANGED rowVars /\ UNCHANGED <<answer, tx>>
  BY <1>1 DEF ReadLatest, At, PackageInv, Typed
<1>3. Seals(r) /\ read[r] \in Local /\ t \in Title
  BY <1>2 DEF PackageInv, Typed, Knows, Seals
<1>4. Latest(t) = Height(t) /\ Height(t) \in Nat
  BY <1>3, LatestIsHeight DEF PackageInv
<1>5. /\ value \in Local /\ value.target = read[r].target \ {t} /\ value.start = read[r].start
      /\ value.parts[t] = Height(t)
      /\ \A u \in Title \ {t} : value.parts[u] = read[r].parts[u]
  <2>1. Latest(t) \in Int
    BY <1>4
  <2>2. /\ value \in Local /\ value.target = read[r].target \ {t} /\ value.start = read[r].start
        /\ value.parts[t] = Latest(t)
        /\ \A u \in Title \ {t} : value.parts[u] = read[r].parts[u]
    BY <1>3, <2>1, LocalRead
  <2> QED BY <1>4, <2>2
<1> HIDE DEF value
<1>6. /\ \A u \in Title : read[r].start[u] <= head[u] /\ read[r].parts[u] <= Height(u)
      /\ \A u \in Title : head[u] <= Height(u)
      /\ \A u \in Title : head[u] \in Int /\ Height(u) \in Int /\ read[r].start[u] \in Int
  BY <1>3 DEF PackageInv, Knows, Height, Typed, Absent, Local
<1>7. \A u \in Title : value.start[u] <= head[u] /\ value.parts[u] <= Height(u)
  BY <1>5, <1>6
<1>8. pc'[r] = "latest" /\ read'[r] = value
  BY <1>2 DEF Keep, PackageInv, Typed
<1>9. Seals(r)'
  <2>1. \A u \in Title \ value.target : value.start[u] <= value.parts[u]
    BY <1>2, <1>3, <1>5, <1>6 DEF Seals
  <2> QED BY <1>2, <1>3, <1>5, <1>8, <2>1 DEF Seals
<1> QED BY <1>2, <1>5, <1>7, <1>9, ReadMoves DEF Labels

LEMMA FindKeeps ==
  ASSUME PackageInv, NEW r \in Request, FindCurrent(r)
  PROVE  PackageInv'
<1> DEFINE value == [read[r] EXCEPT !.target = current]
<1>1. /\ r.kind = "seal" /\ pc[r] = "latest" /\ pc' = [pc EXCEPT ![r] = "supersede"]
      /\ read[r].target = {}
      /\ Keep(r, value) /\ UNCHANGED rowVars /\ UNCHANGED <<answer, tx>>
  BY DEF FindCurrent, Goto, At
<1>2. read[r] \in Local
  BY DEF PackageInv, Typed
<1>3. current \subseteq Title \cup Nat
  BY LastIsTotal DEF PackageInv, Sealed
<1>4. value \in Local /\ value.parts = read[r].parts /\ value.start = read[r].start
  BY <1>2, <1>3, LocalAimed
<1> HIDE DEF value
<1>5. pc'[r] = "supersede" /\ read'[r] = value
  BY <1>1 DEF Keep, PackageInv, Typed
<1>6. \A t \in Title : value.start[t] <= value.parts[t]
  BY <1>1, <1>4 DEF PackageInv, Knows, Seals
<1>7. Seals(r)'
  BY <1>5, <1>6 DEF Seals
<1>8. \A t \in Title : value.start[t] <= head[t] /\ value.parts[t] <= Height(t)
  BY <1>4 DEF PackageInv, Knows
<1> QED BY <1>1, <1>4, <1>7, <1>8, ReadMoves DEF Labels

-----------------------------------------------------------------------------
(* The sealing transaction.                                                *)

LEMMA WritesOld ==
  ASSUME NEW w \in Writes, NEW S \in SUBSET Nat
  PROVE  LET m == [w EXCEPT !.old = S] IN m \in Writes /\ m.old = S /\ m.new = w.new
BY DEF Writes

LEMMA WritesNew ==
  ASSUME NEW w \in Writes, NEW S \in SUBSET Snapshot
  PROVE  LET m == [w EXCEPT !.new = S] IN m \in Writes /\ m.new = S /\ m.old = w.old
BY DEF Writes

LEMMA SupersedeKeeps ==
  ASSUME PackageInv, NEW r \in Request, Supersede(r)
  PROVE  PackageInv'
<1> DEFINE w == [tx[r] EXCEPT !.old = read[r].target \cap current]
<1>1. /\ r.kind = "seal" /\ pc[r] = "supersede" /\ pc' = [pc EXCEPT ![r] = "insert"]
      /\ tx' = [tx EXCEPT ![r] = w] /\ UNCHANGED rowVars /\ UNCHANGED <<answer, read>>
  BY DEF Supersede, Goto, At, PackageInv, Typed
<1>2. w \in Writes
  <2>1. current \subseteq Nat
    BY LastIsTotal DEF PackageInv, Sealed
  <2>2. tx[r] \in Writes /\ read[r].target \cap current \in SUBSET Nat
    BY <2>1 DEF PackageInv, Typed
  <2> QED BY <2>2, WritesOld
<1> HIDE DEF w
<1>3. Typed'
  BY <1>1, <1>2 DEF PackageInv, Typed, rowVars, Labels
<1>4. /\ \A s \in Request \ {r} : pc'[s] = pc[s] /\ read'[s] = read[s] /\ tx'[s] = tx[s]
      /\ pc'[r] = "insert" /\ read'[r] = read[r]
  BY <1>1 DEF PackageInv, Typed
<1>5. Knows(r)'
  <2>1. UNCHANGED <<head, content>>
    BY <1>1 DEF rowVars
  <2>2. Seals(r)'
    BY <1>1, <1>4 DEF PackageInv, Knows, Seals
  <2>3. \A t \in Title : read'[r].start[t] <= head'[t] /\ read'[r].parts[t] <= Height(t)'
    BY <1>4, <2>1 DEF PackageInv, Knows, Height
  <2> QED BY <1>1, <1>4, <2>2, <2>3 DEF Knows
<1> QED BY <1>1, <1>3, <1>4, <1>5, Moves

\* The unique index lets one transaction through: who inserts the next number is
\* alone, and has superseded the current one.
LEMMA InsertKeeps ==
  ASSUME PackageInv, NEW r \in Request, InsertSnapshot(r)
  PROVE  PackageInv'
<1> USE DEF PackageInv
<1>1. r.kind = "seal" /\ pc[r] = "insert" /\ Sealing \subseteq {r} /\ UNCHANGED rowVars
      /\ UNCHANGED read
  BY DEF InsertSnapshot, At
<1>2. UNCHANGED <<head, versions, content, snapshots, current, confirmed, resolved, audit>>
  BY <1>1 DEF rowVars
<1>3. CASE Tell(r, "rejected") /\ tx' = [tx EXCEPT ![r] = NoTx]
  <2>1. NoTx \in Writes
    BY DEF NoTx, Writes
  <2>2. Typed'
    BY <1>1, <1>2, <1>3, <2>1 DEF Typed, Tell, Labels, Answers
  <2>3. /\ \A s \in Request \ {r} : pc'[s] = pc[s] /\ read'[s] = read[s] /\ tx'[s] = tx[s]
        /\ pc'[r] = "answered" /\ read'[r] = read[r]
    BY <1>1, <1>3 DEF Typed, Tell
  <2>4. Knows(r)'
    BY <1>1, <1>2, <2>3 DEF Knows, Seals, Height
  <2> QED BY <1>1, <2>2, <2>3, <2>4, Moves
<1>4. CASE current \subseteq tx[r].old /\ StoreSnapshot(r)
  <2> DEFINE w == [tx[r] EXCEPT !.new = {NextSnapshot(r)}]
  <2>1. NewSnapshot(r) = NextSnapshot(r) /\ Total \in Nat
    BY LastIsTotal DEF NewSnapshot, NextSnapshot
  <2>2. NextSnapshot(r) \in Snapshot /\ tx[r] \in Writes
    BY <2>1 DEF NextSnapshot, Snapshot, Typed, Local
  <2>3. w \in Writes /\ w.new = {NextSnapshot(r)} /\ w.old = tx[r].old
    BY <2>2, WritesNew
  <2>4. pc' = [pc EXCEPT ![r] = "commit"] /\ tx' = [tx EXCEPT ![r] = w] /\ UNCHANGED answer
    BY <1>4, <2>1 DEF StoreSnapshot, Goto, Typed
  <2> HIDE DEF w
  <2>5. Typed'
    BY <1>1, <1>2, <2>3, <2>4 DEF Typed, Labels
  <2>6. /\ \A s \in Request \ {r} : pc'[s] = pc[s] /\ read'[s] = read[s] /\ tx'[s] = tx[s]
        /\ pc'[r] = "commit" /\ read'[r] = read[r] /\ tx'[r] = w
    BY <1>1, <2>4 DEF Typed
  <2>7. \A s \in Request : pc[s] # "commit"
    <3>1. ASSUME NEW s \in Request, pc[s] = "commit" PROVE FALSE
      <4>1. tx[s].new # {}
        BY <3>1 DEF Sealed
      <4>2. s \in Sealing
        BY <4>1 DEF Sealing, NoTx
      <4> QED BY <1>1, <3>1, <4>2
    <3> QED BY <3>1
  <2>8. \A s \in Request : Knows(s)'
    <3>1. \A t \in Title : head[t] <= head'[t]
      BY <1>2 DEF Typed, Absent
    <3>2. ASSUME NEW s \in Request \ {r} PROVE Knows(s)'
      BY <1>2, <2>5, <2>6, <3>1, StillKnows
    <3>3. Knows(r)'
      BY <1>1, <1>2, <2>6 DEF Knows, Seals, Height
    <3> QED BY <3>2, <3>3
  <2>9. Sealed'
    <3>1. Total' = Total /\ NextSnapshot(r)' = NextSnapshot(r)
      BY <1>2, <2>6 DEF Total, NextSnapshot
    <3>2. \A s \in Request : pc'[s] = "commit" => s = r
      BY <2>6, <2>7
    <3>3. \A s \in snapshots : s.by \in Request /\ s.by # r
      BY <1>1 DEF Typed, Snapshot, Sealed
    <3>4. \A s \in snapshots' :
            /\ s.number \in 1..Total'
            /\ pc'[s.by] \in {"audit", "answered"}
            /\ s.parts = read'[s.by].parts
            /\ \A t \in Title : read'[s.by].start[t] <= s.parts[t]
      BY <1>2, <2>6, <3>1, <3>3 DEF Sealed
    <3>5. tx'[r].new = {NextSnapshot(r)'} /\ current' \subseteq tx'[r].old
      BY <1>2, <1>4, <2>3, <2>6, <3>1
    <3> QED BY <1>2, <3>1, <3>2, <3>4, <3>5 DEF Sealed
  <2> QED BY <1>2, <2>5, <2>8, <2>9, NumberedStands DEF Resolutions, Done
<1> QED BY <1>3, <1>4 DEF InsertSnapshot


-----------------------------------------------------------------------------
(* The steps that commit rows.                                             *)

\* Who commits something else than a snapshot and goes on to label.
LEMMA RowMoves ==
  ASSUME PackageInv, Typed', NEW r \in Request, UNCHANGED <<snapshots, current, read, tx>>,
         NEW label \in Labels \ {"commit"}, pc' = [pc EXCEPT ![r] = label],
         pc[r] \in {"audit", "answered"} => label \in {"audit", "answered"},
         content \subseteq content', \A t \in Title : head[t] <= head'[t],
         Knows(r)', Numbered', Resolutions'
  PROVE  PackageInv'
<1> USE DEF PackageInv
<1>1. pc'[r] = label /\ \A s \in Request \ {r} : pc'[s] = pc[s]
  BY DEF Typed
<1>2. \A s \in Request : Knows(s)'
  <2>1. ASSUME NEW s \in Request \ {r} PROVE Knows(s)'
    BY <1>1, StillKnows
  <2> QED BY <2>1
<1>3. Sealed'
  BY <1>1, SealedStands DEF Typed
<1> QED BY <1>2, <1>3

LEMMA CreateKeeps ==
  ASSUME PackageInv, NEW r \in Request, CreateDocument(r)
  PROVE  PackageInv'
<1> USE DEF PackageInv
<1>1. r.kind = "ingest" /\ pc[r] = "create" /\ UNCHANGED <<read, tx>> /\ r.title \in Title
  BY RequestAssumption DEF CreateDocument, At
<1>2. Ingests(r)
  BY <1>1 DEF Knows
<1>3. CASE Tell(r, "rejected") /\ UNCHANGED rowVars
  <2>1. Typed'
    BY <1>1, <1>3 DEF Typed, Tell, Labels, Answers, rowVars
  <2>2. /\ \A s \in Request \ {r} : pc'[s] = pc[s] /\ read'[s] = read[s] /\ tx'[s] = tx[s]
        /\ pc'[r] = "answered" /\ read'[r] = read[r]
    BY <1>1, <1>3 DEF Typed, Tell
  <2>3. Knows(r)'
    BY <1>1, <1>3, <2>2 DEF Knows, Ingests, Height, rowVars
  <2> QED BY <1>1, <1>3, <2>1, <2>2, <2>3, Moves
<1>4. CASE /\ head[r.title] = Absent
           /\ Goto(r, "put")
           /\ head' = [head EXCEPT ![r.title] = 0]
           /\ UNCHANGED <<versions, content, snapshots, current, confirmed, resolved, audit>>
  <2>1. Typed'
    BY <1>1, <1>4 DEF Typed, Goto, Labels
  <2>2. /\ head'[r.title] = 0 /\ \A t \in Title \ {r.title} : head'[t] = head[t]
        /\ pc' = [pc EXCEPT ![r] = "put"] /\ pc'[r] = "put"
    BY <1>1, <1>4 DEF Typed, Goto
  <2>3. /\ \A t \in Title : Height(t)' = Height(t)
        /\ \A t \in Title : head[t] <= head'[t] /\ head[t] \in Int
    BY <1>1, <1>4, <2>2 DEF Height, Typed, Absent
  <2>4. Numbered'
    <3>1. \A v \in versions : v.doc \in Title
      BY DEF Typed, Version
    <3> QED BY <1>4, <2>3, <3>1 DEF Numbered
  <2>5. Knows(r)'
    <3>1. Parse(r)' = Parse(r)
      BY DEF Parse, DetectKnowledgeFormat
    <3>2. Ingests(r)'
      BY <1>1, <1>2, <2>2, <3>1 DEF Ingests, Absent
    <3>3. \A t \in Title : read'[r].start[t] <= head'[t] /\ read'[r].parts[t] <= Height(t)'
      <4>1. \A t \in Title : /\ read[r].start[t] \in Int /\ head'[t] \in Int
                             /\ read[r].start[t] <= head[t] /\ read[r].parts[t] <= Height(t)
        BY <2>1 DEF Typed, Local, Absent, Knows
      <4> QED BY <1>1, <2>3, <4>1
    <3> QED BY <1>1, <2>2, <3>2, <3>3 DEF Knows
  <2>6. Resolutions'
    BY <1>4 DEF Resolutions, Done
  <2> QED BY <1>1, <1>4, <2>1, <2>2, <2>3, <2>4, <2>5, <2>6, RowMoves DEF Labels
<1> QED BY <1>3, <1>4 DEF CreateDocument

LEMMA PutKeeps ==
  ASSUME PackageInv, NEW r \in Request, PutContent(r)
  PROVE  PackageInv'
<1> USE DEF PackageInv
<1>1. /\ r.kind = "ingest" /\ pc[r] = "put" /\ r.title \in Title /\ r.text \in Text
      /\ content' = content \cup {<<r.title, Parse(r)>>}
      /\ pc' = [pc EXCEPT ![r] = "number"]
      /\ UNCHANGED <<answer, head, versions, snapshots, current, confirmed, resolved, audit,
                     read, tx>>
  BY RequestAssumption DEF PutContent, At, Goto
<1>2. Ingests(r)
  BY <1>1 DEF Knows
<1>3. Parse(r) = r.text /\ Parse(r) # Unsupported /\ Parse(r)' = Parse(r)
  BY <1>1, <1>2 DEF Ingests, Parse, DetectKnowledgeFormat
<1>4. Typed'
  BY <1>1, <1>3 DEF Typed, Labels
<1>5. pc'[r] = "number"
  BY <1>1 DEF Typed
<1>6. Knows(r)'
  <2>1. Ingests(r)'
    BY <1>1, <1>2, <1>3, <1>5 DEF Ingests
  <2>2. \A t \in Title : read'[r].start[t] <= head'[t] /\ read'[r].parts[t] <= Height(t)'
    BY <1>1 DEF Knows, Height
  <2> QED BY <1>1, <1>5, <2>1, <2>2 DEF Knows
<1>7. Numbered' /\ Resolutions'
  BY <1>1, NumberedStands DEF Resolutions, Done
<1>8. \A t \in Title : head[t] <= head'[t]
  BY <1>1 DEF Typed, Absent
<1> QED BY <1>1, <1>4, <1>5, <1>6, <1>7, <1>8, RowMoves DEF Labels

\* addVersion: what was computed is the next number, or somebody has taken it.
LEMMA AddKeeps ==
  ASSUME PackageInv, NEW r \in Request, AddVersion(r)
  PROVE  PackageInv'
<1> USE DEF PackageInv
<1>1. r.kind = "ingest" /\ pc[r] = "add" /\ UNCHANGED <<read, tx>> /\ r.title \in Title
      /\ r.text \in Text
  BY RequestAssumption DEF AddVersion, At
<1>2. Ingests(r)
  BY <1>1 DEF Knows
<1>3. CASE Tell(r, "rejected") /\ UNCHANGED rowVars
  <2>1. Typed'
    BY <1>1, <1>3 DEF Typed, Tell, Labels, Answers, rowVars
  <2>2. /\ \A s \in Request \ {r} : pc'[s] = pc[s] /\ read'[s] = read[s] /\ tx'[s] = tx[s]
        /\ pc'[r] = "answered" /\ read'[r] = read[r]
    BY <1>1, <1>3 DEF Typed, Tell
  <2>3. Knows(r)'
    BY <1>1, <1>3, <2>2 DEF Knows, Ingests, Height, rowVars
  <2> QED BY <1>1, <1>3, <2>1, <2>2, <2>3, Moves
<1>4. CASE StoreVersion(r) /\ ~\E v \in Of(r.title) : v.n = read[r].n
  <2> DEFINE n == Height(r.title) + 1
  <2>1. Height(r.title) \in Nat /\ \A t \in Title : Height(t) \in Nat
    BY <1>1 DEF Typed, Height, Absent
  <2>2. read[r].n = n
    <3>1. read[r].n \in 1..n
      BY <1>1, <1>2 DEF Ingests
    <3>2. read[r].n \notin 1..Height(r.title)
      BY <1>1, <1>4 DEF Numbered, Of
    <3> QED BY <2>1, <3>1, <3>2
  <2>3. Parse(r) = r.text
    BY <1>1, <1>2 DEF Ingests, Parse, DetectKnowledgeFormat
  <2>4. NewVersion(r) \in Version /\ NewVersion(r).doc = r.title /\ NewVersion(r).n = n
        /\ NewVersion(r).text = r.text
    BY <1>1, <2>1, <2>2, <2>3 DEF NewVersion, Version
  <2>5. /\ versions' = versions \cup {NewVersion(r)} /\ head' = [head EXCEPT ![r.title] = n]
        /\ pc' = [pc EXCEPT ![r] = "count"]
        /\ UNCHANGED <<answer, content, snapshots, current, confirmed, resolved, audit>>
    BY <1>4, <2>2 DEF StoreVersion, Goto
  <2>6. PICK v \in Version : /\ v.doc = r.title /\ v.n = n /\ v.text = r.text
                             /\ versions' = versions \cup {v}
    BY <2>4, <2>5
  <2>7. <<v.doc, v.text>> \in content
    BY <1>1, <1>2, <2>6 DEF Ingests
  <2>8. Typed'
    BY <1>1, <2>1, <2>5, <2>6 DEF Typed, Labels
  <2>9. /\ Height(r.title)' = n /\ \A t \in Title \ {r.title} : Height(t)' = Height(t)
        /\ \A t \in Title : head[t] <= head'[t] /\ Height(t) <= Height(t)'
    BY <1>1, <2>1, <2>5 DEF Height, Typed, Absent
  <2>10. Numbered'
    <3>1. \A w \in versions : w.doc \in Title /\ w.n \in 1..Height(w.doc)
      BY DEF Typed, Version, Numbered
    <3>2. \A w \in versions' : w.n \in 1..Height(w.doc)' /\ <<w.doc, w.text>> \in content'
      <4>1. ASSUME NEW w \in versions
            PROVE  w.n \in 1..Height(w.doc)' /\ <<w.doc, w.text>> \in content
        <5>1. Height(w.doc) \in Nat /\ Height(w.doc)' \in Int /\ Height(w.doc) <= Height(w.doc)'
          BY <2>1, <2>9, <3>1
        <5> QED BY <3>1, <5>1 DEF Numbered
      <4>2. v.n \in 1..Height(v.doc)'
        BY <2>1, <2>6, <2>9
      <4> QED BY <2>5, <2>6, <2>7, <4>1, <4>2
    <3>3. \A t \in Title : \A k \in 1..Height(t)' : \E w \in versions' : w.doc = t /\ w.n = k
      BY <1>1, <2>1, <2>6, <2>9 DEF Numbered
    <3>4. \A w \in versions : w.doc = r.title => w.n # n
      BY <2>1, <3>1
    <3>5. \A u, w \in versions' : u.doc = w.doc /\ u.n = w.n => u = w
      BY <2>5, <2>6, <3>4 DEF Numbered
    <3> QED BY <3>2, <3>3, <3>5 DEF Numbered
  <2>11. pc'[r] = "count"
    BY <2>5 DEF Typed
  <2>12. Knows(r)'
    <3>1. \A t \in Title : /\ read[r].start[t] \in Int /\ read[r].parts[t] \in Int
                           /\ head[t] \in Int /\ head'[t] \in Int
                           /\ Height(t) \in Int /\ Height(t)' \in Int
      BY <2>1, <2>8 DEF Typed, Local, Absent, Height
    <3>2. \A t \in Title : read'[r].start[t] <= head'[t] /\ read'[r].parts[t] <= Height(t)'
      BY <1>1, <2>9, <3>1 DEF Knows
    <3> QED BY <1>1, <2>11, <3>2 DEF Knows, Ingests
  <2>13. Resolutions'
    BY <2>5 DEF Resolutions, Done
  <2> QED BY <1>1, <2>5, <2>8, <2>9, <2>10, <2>12, <2>13, RowMoves DEF Labels
<1> QED BY <1>3, <1>4 DEF AddVersion

\* Events and users: the snapshots and the versions stand.
LEMMA AuditKeeps ==
  ASSUME PackageInv, NEW r \in Request, RecordAudit(r) \/ Confirm(r) \/ Resolve(r)
  PROVE  PackageInv'
<1> USE DEF PackageInv
<1>1. /\ UNCHANGED <<head, versions, content, snapshots, current, read, tx>>
      /\ \E label \in {"answered", "count"} : pc' = [pc EXCEPT ![r] = label]
      /\ answer' = answer \/ \E a \in Answers : answer' = [answer EXCEPT ![r] = a]
      /\ audit' = audit \/ audit' = audit \cup {r}
      /\ confirmed' = confirmed \/ (r.kind = "confirm" /\ confirmed' = r.user)
      /\ \/ resolved' = resolved
         \/ r.kind = "resolve" /\ resolved' = [resolved EXCEPT ![r.issue] = r.user]
      /\ pc[r] = "audit" => pc' = [pc EXCEPT ![r] = "answered"]
  BY DEF RecordAudit, Confirm, Resolve, StoreResolution, Tell, Goto, At, Answers, rowVars
<1>2. Typed'
  BY <1>1, RequestAssumption DEF Typed, Labels
<1>3. pc'[r] \in {"answered", "count"}
  BY <1>1 DEF Typed
<1>4. Knows(r)'
  BY <1>1, <1>3 DEF Knows, Ingests, Seals, Height
<1>5. Numbered'
  BY <1>1, NumberedStands
<1>6. Resolutions'
  <2>1. CASE RecordAudit(r) \/ Confirm(r)
    <3>1. r.kind # "resolve" /\ audit' = audit \cup {r} /\ resolved' = resolved
      BY <2>1 DEF RecordAudit, Confirm, At, Knows
    <3>2. \A i : Done(i)' = Done(i)
      BY <3>1 DEF Done
    <3> QED BY <3>1, <3>2 DEF Resolutions
  <2>2. CASE Resolve(r) /\ UNCHANGED <<resolved, audit>>
    BY <2>2 DEF Resolutions, Done
  <2>3. CASE Resolve(r) /\ resolved[r.issue] = NoOne /\ StoreResolution(r)
    <3>1. r.kind = "resolve" /\ r.issue \in Issue /\ r.user \in User /\ NoOne \notin User
      BY <2>3, RequestAssumption, NoOneAssumption DEF Resolve, At
    <3>2. audit' = audit \cup {r} /\ resolved' = [resolved EXCEPT ![r.issue] = r.user]
      BY <2>3 DEF StoreResolution
    <3>3. Done(r.issue)' = {r} /\ resolved'[r.issue] = r.user
      BY <2>3, <3>1, <3>2 DEF Done, Resolutions, Typed
    <3>4. \A i \in Issue \ {r.issue} : Done(i)' = Done(i) /\ resolved'[i] = resolved[i]
      BY <3>2 DEF Done, Typed
    <3> QED BY <3>1, <3>3, <3>4 DEF Resolutions
  <2> QED BY <2>1, <2>2, <2>3 DEF Resolve, rowVars
<1>7. \A t \in Title : head[t] <= head'[t]
  BY <1>1 DEF Typed, Absent
<1>8. CASE pc' = [pc EXCEPT ![r] = "answered"]
  BY <1>1, <1>2, <1>4, <1>5, <1>6, <1>7, <1>8, RowMoves DEF Labels
<1>9. CASE pc' = [pc EXCEPT ![r] = "count"]
  <2>1. pc[r] \notin {"audit", "answered"}
    BY <1>3, <1>9, <1>1 DEF Typed, RecordAudit, Confirm, Resolve, At
  <2> QED BY <1>1, <1>2, <1>4, <1>5, <1>6, <1>7, <1>9, <2>1, RowMoves DEF Labels
<1> QED BY <1>1, <1>8, <1>9

\* COMMIT: the snapshot that was prepared is the next, and what was current is not.
LEMMA CommitKeeps ==
  ASSUME PackageInv, NEW r \in Request, CommitSnapshot(r)
  PROVE  PackageInv'
<1> USE DEF PackageInv
<1>1. /\ r.kind = "seal" /\ pc[r] = "commit" /\ pc' = [pc EXCEPT ![r] = "audit"]
      /\ snapshots' = snapshots \cup tx[r].new
      /\ current' = (current \ tx[r].old) \cup {s.number : s \in tx[r].new}
      /\ tx' = [tx EXCEPT ![r] = NoTx]
      /\ UNCHANGED <<answer, head, versions, content, confirmed, resolved, audit, read>>
  BY DEF CommitSnapshot, At, Goto
<1>2. tx[r].new = {NextSnapshot(r)} /\ current \subseteq tx[r].old
      /\ \A s \in Request : pc[s] = "commit" => s = r
  BY <1>1 DEF Sealed
<1>3. Total \in Nat
  BY LastIsTotal
<1>4. PICK x \in Snapshot : /\ x.number = Total + 1 /\ x.parts = read[r].parts /\ x.by = r
                            /\ tx[r].new = {x}
  <2>1. read[r].parts \in [Title -> Int]
    BY DEF Typed, Local
  <2>2. /\ NextSnapshot(r) \in Snapshot /\ NextSnapshot(r).number = Total + 1
        /\ NextSnapshot(r).parts = read[r].parts /\ NextSnapshot(r).by = r
    BY <1>3, <2>1 DEF NextSnapshot, Snapshot
  <2> QED BY <1>2, <2>2
<1>5. snapshots' = snapshots \cup {x} /\ current' = {x.number}
  BY <1>1, <1>2, <1>4
<1>6. /\ pc'[r] = "audit" /\ \A s \in Request \ {r} : pc'[s] = pc[s] /\ tx'[s] = tx[s]
      /\ \A s \in Request : read'[s] = read[s]
  BY <1>1 DEF Typed
<1>7. Typed'
  <2>1. NoTx \in Writes
    BY DEF NoTx, Writes
  <2> QED BY <1>1, <1>4, <1>5, <2>1 DEF Typed, Labels
<1>8. \A s \in Request : Knows(s)'
  <2>1. \A t \in Title : head[t] <= head'[t]
    BY <1>1 DEF Typed, Absent
  <2>2. ASSUME NEW s \in Request \ {r} PROVE Knows(s)'
    BY <1>1, <1>6, <1>7, <2>1, StillKnows
  <2>3. Knows(r)'
    BY <1>1, <1>6 DEF Knows, Seals, Height
  <2> QED BY <2>2, <2>3
<1>9. Sealed'
  <2>1. x \notin snapshots /\ \A s \in snapshots : s.by \in Request /\ s.number \in 1..Total
    BY <1>3, <1>4 DEF Sealed, Typed, Snapshot
  <2>2. IsFiniteSet(snapshots') /\ Total' = Total + 1
    BY <1>5, <2>1, FS_AddElement DEF Sealed, Total
  <2>3. \A s \in snapshots' : s.number \in 1..Total'
    BY <1>3, <1>4, <1>5, <2>1, <2>2
  <2>4. \A k \in 1..Total' : \E s \in snapshots' : s.number = k
    <3>1. ASSUME NEW k \in 1..Total', k # Total + 1 PROVE \E s \in snapshots' : s.number = k
      BY <1>3, <1>5, <2>2, <3>1 DEF Sealed
    <3> QED BY <1>4, <1>5, <3>1
  <2>5. ASSUME NEW s \in snapshots'
        PROVE  /\ pc'[s.by] \in {"audit", "answered"}
               /\ s.parts = read'[s.by].parts
               /\ \A t \in Title : read'[s.by].start[t] <= s.parts[t]
    <3>1. CASE s = x
      <4>1. \A t \in Title : read[r].start[t] <= read[r].parts[t]
        BY <1>1 DEF Knows, Seals
      <4> QED BY <1>4, <1>6, <3>1, <4>1
    <3>2. CASE s \in snapshots
      BY <1>6, <2>1, <3>2 DEF Sealed
    <3> QED BY <1>5, <3>1, <3>2
  <2>6. \A s \in Request : pc'[s] # "commit"
    BY <1>2, <1>6
  <2>7. current' = IF Total' = 0 THEN {} ELSE {Total'}
    BY <1>3, <1>4, <1>5, <2>2
  <2> QED BY <2>2, <2>3, <2>4, <2>5, <2>6, <2>7 DEF Sealed
<1>10. Numbered' /\ Resolutions'
  BY <1>1, NumberedStands DEF Resolutions, Done
<1> QED BY <1>7, <1>8, <1>9, <1>10

LEMMA PackageStep == PackageInv /\ [Next]_vars => PackageInv'
<1> SUFFICES ASSUME PackageInv, [Next]_vars PROVE PackageInv'
  OBVIOUS
<1>1. CASE UNCHANGED vars
  BY <1>1 DEF vars, PackageInv, Typed, Numbered, Knows, Ingests, Seals, Sealed, Resolutions,
     Height, Total, NextSnapshot, Done, Parse, DetectKnowledgeFormat
<1>2. ASSUME NEW r \in Request, Step(r) \/ Fail(r) PROVE PackageInv'
  BY <1>2, EndKeeps, AcceptKeeps, NumberKeeps, ListKeeps, ReadKeeps, FindKeeps,
     SupersedeKeeps, InsertKeeps, CreateKeeps, PutKeeps, AddKeeps, AuditKeeps, CommitKeeps
     DEF Step, Ingest, Seal
<1> QED BY <1>1, <1>2 DEF Next

-----------------------------------------------------------------------------
\* The inductive invariant of the knowledge routes.
THEOREM PackageIsInvariant == Spec => []PackageInv
BY InitPackage, PackageStep, PTL DEF Spec, Safety

\* version-repository.ts:8-9: versions, counter and texts of a document agree,
\* with any number of ingestions at once, any of which may stop anywhere.
THEOREM VersionsNeverDrift == Spec => []VersionsAndCounterAgree
<1>1. PackageInv => VersionsAndCounterAgree
  <2> SUFFICES ASSUME PackageInv PROVE VersionsAndCounterAgree
    OBVIOUS
  <2> USE DEF PackageInv
  <2>1. TypeOK
    <3>1. current \subseteq {s.number : s \in snapshots}
      <4>1. CASE Total = 0
        BY <4>1 DEF Sealed
      <4>2. CASE Total # 0
        <5>1. Total \in 1..Total
          BY <4>2, LastIsTotal
        <5> QED BY <4>2, <5>1 DEF Sealed
      <4> QED BY <4>1, <4>2
    <3> QED BY <3>1 DEF TypeOK, Typed
  <2>2. ASSUME NEW t \in Title
        PROVE  /\ {v.n : v \in Of(t)} = 1..(IF head[t] = Absent THEN 0 ELSE head[t])
               /\ \A v, w \in Of(t) : v.n = w.n => v = w
    <3>1. Height(t) \in Nat
      BY LatestIsHeight
    <3>2. ASSUME NEW v \in Of(t) PROVE v.n \in 1..Height(t)
      <4>1. v \in versions /\ v.doc = t
        BY DEF Of
      <4> QED BY <4>1 DEF Numbered
    <3>3. \A k \in 1..Height(t) : \E v \in Of(t) : v.n = k
      BY DEF Of, Numbered
    <3>4. {v.n : v \in Of(t)} = 1..Height(t)
      BY <3>2, <3>3
    <3> QED BY <3>4 DEF Of, Numbered, Height
  <2>3. \A v \in versions : <<v.doc, v.text>> \in content
    BY DEF Numbered
  <2> QED BY <2>1, <2>2, <2>3 DEF VersionsAndCounterAgree
<1> QED BY <1>1, PackageIsInvariant, PTL

\* snapshots/route.ts: however many sealings overlap, the last is the current one.
THEOREM LastSealIsCurrent == Spec => []NewestSnapshotIsCurrent
<1>1. PackageInv => NewestSnapshotIsCurrent
  <2> SUFFICES ASSUME PackageInv PROVE NewestSnapshotIsCurrent
    OBVIOUS
  <2> DEFINE numbers == {s.number : s \in snapshots}
  <2>1. Total \in Nat
    BY LastIsTotal DEF PackageInv
  <2>2. numbers = 1..Total
    <3>1. \A s \in snapshots : s.number \in 1..Total
      BY DEF PackageInv, Sealed
    <3>2. \A k \in 1..Total : \E s \in snapshots : s.number = k
      BY DEF PackageInv, Sealed
    <3> QED BY <3>1, <3>2
  <2>3. current = IF Total = 0 THEN {} ELSE {Total}
    BY DEF PackageInv, Sealed
  <2>4. CASE Total = 0
    BY <2>2, <2>3, <2>4 DEF NewestSnapshotIsCurrent, Total
  <2>5. CASE Total # 0
    <3>1. Max(1..Total) = Total
      <4>1. Total \in 1..Total /\ \A y \in 1..Total : Total >= y
        BY <2>1, <2>5
      <4>2. \A y \in 1..Total : (\A z \in 1..Total : y >= z) => y = Total
        BY <2>1, <2>5
      <4> QED BY <4>1, <4>2 DEF Max
    <3>2. 1 \in 1..Total
      BY <2>1, <2>5
    <3> QED BY <2>2, <2>3, <2>5, <3>1, <3>2 DEF NewestSnapshotIsCurrent, Total
  <2> QED BY <2>4, <2>5
<1> QED BY <1>1, PackageIsInvariant, PTL

\* A seal covers what was there when its request arrived, and nothing else.
THEOREM SealsCover == Spec => []SealCoversWhatWasThere
<1>1. PackageInv => SealCoversWhatWasThere
  <2> SUFFICES ASSUME PackageInv, NEW s \in snapshots, NEW t \in Title
               PROVE  read[s.by].start[t] <= s.parts[t] /\ s.parts[t] <= Latest(t)
    BY DEF SealCoversWhatWasThere
  <2>1. s.by \in Request
    BY DEF PackageInv, Typed, Snapshot
  <2>2. read[s.by].start[t] <= s.parts[t] /\ s.parts = read[s.by].parts
    BY DEF PackageInv, Sealed
  <2>3. read[s.by].parts[t] <= Height(t)
    BY <2>1 DEF PackageInv, Knows
  <2>4. Latest(t) = Height(t)
    BY LatestIsHeight DEF PackageInv
  <2> QED BY <2>2, <2>3, <2>4
<1> QED BY <1>1, PackageIsInvariant, PTL

\* resolve/route.ts: one resolution of an issue, and the event of the one who made it.
THEOREM IssuesResolveOnce == Spec => []ResolvedOnceAndAudited
<1>1. PackageInv => ResolvedOnceAndAudited
  <2> SUFFICES ASSUME PackageInv, NEW i \in Issue
               PROVE  /\ Cardinality(Done(i)) = (IF resolved[i] = NoOne THEN 0 ELSE 1)
                      /\ \A r \in Done(i) : resolved[i] = r.user
    BY DEF ResolvedOnceAndAudited, Done
  <2>1. CASE resolved[i] = NoOne
    BY <2>1, FS_EmptySet DEF PackageInv, Resolutions
  <2>2. CASE resolved[i] # NoOne
    BY <2>2, FS_Singleton DEF PackageInv, Resolutions
  <2> QED BY <2>1, <2>2
<1> QED BY <1>1, PackageIsInvariant, PTL
=============================================================================

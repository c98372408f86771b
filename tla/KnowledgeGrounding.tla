------------------------- MODULE KnowledgeGrounding -------------------------
(***************************************************************************)
(* From knowledge to opportunities: the commands that create and confirm   *)
(* knowledge packages, classify the project (its industry profile), and    *)
(* create keyword-question maps and opportunities of one project.  A       *)
(* service also records an event of its own in the command's transaction;  *)
(* it stands and falls with the row, and is left out.                      *)
(*                                                                         *)
(* A map and an opportunity record the version of the package they rest    *)
(* on.  No column holds that version: KnowledgePackageBridge derives it    *)
(* when it reads, as the package's place (ROW_NUMBER) among the packages   *)
(* of the project ordered by created_at, which is the time the creating    *)
(* transaction BEGAN, and then by id, a random UUID.                       *)
(***************************************************************************)
EXTENDS WriteCommand, Sequences

CONSTANT Classified  \* industry profiles that may be there from the start
\* Requests also have fields id (that of what they create) and kind ("package",
\* "confirm", "profile", "map" or "opportunity"), and package of a confirm,
\* package, profile and keywords of a map, map and keyword of an opportunity.
ASSUME GroundingAssumption ==
  /\ \A f, g \in Classified : f = g     \* uq_industry_profile_per_project
  /\ \A r \in Request : r.id \in Nat
  /\ \A r, s \in Request : r.id = s.id => r = s

VARIABLES
  packages,       \* committed knowledge_package rows
  confirmed,      \* what is in their confirmed_at and confirmed_by_user_id
  profiles,       \* ids of the committed industry_profile rows
  maps,           \* committed keyword_question_map rows with their keywords
  opportunities,  \* committed opportunity rows
  validations,    \* committed opportunity_validation rows
  found,          \* found[r]: the map row r has read
  version         \* version[r]: the package version r has read, or Unread

tableVars == <<packages, confirmed, profiles, maps, opportunities, validations>>
groundingVars == <<tableVars, found, version>>
vars == <<ledgerVars, groundingVars>>

Unread == 0
Init ==
  /\ LedgerInit
  /\ packages = {}
  /\ confirmed = {}
  /\ profiles \in {{}, Classified}
  /\ maps = {}
  /\ opportunities = {}
  /\ validations = {}
  /\ found = [r \in Request |-> {}]
  /\ version = [r \in Request |-> Unread]

Creates(r, kind) == {r} \cap {q \in Request : q.kind = kind}
Performing(r, kind) == pc[r] = "performing" /\ r.kind = kind

\* Mutant: ORDER BY created_at DESC, id.
PlaceFromTheEnd(p) ==
  Cardinality({q \in packages : \/ q.at > p.at
                                \/ q.at = p.at /\ q.req.id <= p.req.id})

\* ROW_NUMBER() OVER (ORDER BY created_at, id).
GeoVersion(p) ==
  Cardinality({q \in packages : \/ q.at < p.at
                                \/ q.at = p.at /\ q.req.id <= p.req.id})
\* getById, for the package with this id.
Packages(id) == {p \in packages : p.req.id = id}

\* A confirmation needs its package before it opens its transaction.
Route(r) ==
  /\ IF pc[r] = "unsent" /\ r.kind = "confirm" /\ Packages(r.package) = {}
     THEN Refuse(r)
     ELSE BeforePerform(r)
  /\ UNCHANGED groundingVars
Forget(r) ==
  /\ found' = [found EXCEPT ![r] = {}]
  /\ version' = [version EXCEPT ![r] = Unread]
\* A CommandAbortError; invokeDomain turns any error of a service into one.
Abort(r) ==
  /\ Rollback(r)
  /\ Forget(r)
  /\ UNCHANGED tableVars
\* Another transaction has written the row and is not over.
Holds(s, kind) == pc[s] \in {"performed", "audited"} /\ s.kind = kind

\* createKnowledgePackage: the INSERT, created_at being the default now().
CreatePackage(r) ==
  /\ Performing(r, "package")
  /\ Perform(r)
  /\ UNCHANGED groundingVars

\* confirm: its UPDATE names no status, so a package may be confirmed again; it
\* waits for the UPDATE of another transaction.
UpdateConfirmed(r) ==
  /\ ~\E s \in Request \ {r} : Holds(s, "confirm") /\ s.package = r.package
  /\ Perform(r)
  /\ UNCHANGED groundingVars
ConfirmPackage(r) == Performing(r, "confirm") /\ UpdateConfirmed(r)

\* PgIndustryProfileRepository.add: uq_industry_profile_per_project.  The INSERT
\* waits for that of another transaction, and fails once there is a row.
InsertProfile(r) ==
  /\ ~\E s \in Request \ {r} : Holds(s, "profile")
  /\ IF profiles = {} THEN Perform(r) /\ UNCHANGED groundingVars ELSE Abort(r)
CreateIndustryProfile(r) == Performing(r, "profile") /\ InsertProfile(r)

\* The package is read with its version; one that is not there is a 404.
ReadPackage(r, id) ==
  IF Packages(id) = {}
  THEN Abort(r)
  ELSE /\ \E p \in Packages(id) : version' = [version EXCEPT ![r] = GeoVersion(p)]
       /\ UNCHANGED <<ledgerVars, tableVars, found>>

\* The package, then the profile, which once there stays as it is: a map of one
\* that is not there is a 404.
ReadSource(r) ==
  /\ Performing(r, "map")
  /\ version[r] = Unread
  /\ IF r.profile \in profiles THEN ReadPackage(r, r.package) ELSE Abort(r)

\* createKeywordQuestionMap: the map, its keywords and their questions; a keyword
\* given twice breaks uq_kqm_keyword_per_map.
InsertMap(r) ==
  /\ Performing(r, "map")
  /\ version[r] # Unread
  /\ IF \E i, j \in DOMAIN r.keywords : i # j /\ r.keywords[i] = r.keywords[j]
     THEN Abort(r)
     ELSE Perform(r) /\ UNCHANGED groundingVars

ReadMap(r) ==
  /\ Performing(r, "opportunity")
  /\ found[r] = {}
  /\ LET rows_ == {m \in maps : m.req.id = r.map} IN
     IF rows_ = {}
     THEN Abort(r)
     ELSE /\ found' = [found EXCEPT ![r] = rows_]
          /\ UNCHANGED <<ledgerVars, tableVars, version>>

\* Mutant: the version is not read.
ReadNoGrounding(r) ==
  /\ Performing(r, "opportunity")
  /\ version[r] = Unread
  /\ found[r] # {}
  /\ version' = [version EXCEPT ![r] = 1]
  /\ UNCHANGED <<ledgerVars, tableVars, found>>

\* The map's package is read again, with the version it has by now.
ReadGrounding(r) ==
  /\ Performing(r, "opportunity")
  /\ version[r] = Unread
  /\ \E m \in found[r] : ReadPackage(r, m.req.package)

Covers(m, word) == \E i \in DOMAIN m.req.keywords : m.req.keywords[i] = word
\* createOpportunity, of a keyword of the map, and validateOpportunity, by the
\* profile of the map: two rows of one transaction.
InsertOpportunity(r) ==
  /\ Performing(r, "opportunity")
  /\ version[r] # Unread
  /\ \E m \in found[r] :
       IF Covers(m, r.keyword) THEN Perform(r) /\ UNCHANGED groundingVars ELSE Abort(r)

NewPackage(r) == [req |-> r, at |-> began[r]]
NewProfile(r) == r.id
NewMap(r) == [req |-> r, version |-> version[r]]
NewOpportunity(r, m) == [req |-> r, map |-> m, version |-> version[r]]
NewValidation(r, m) == [opportunity |-> r, profile |-> m.req.profile]

\* What the repositories' INSERTs and the UPDATE of r have written.
AddedOpportunities(r) ==
  {NewOpportunity(q, m) : q \in Creates(r, "opportunity"), m \in found[r]}
AddedValidations(r) ==
  {NewValidation(q, m) : q \in Creates(r, "opportunity"), m \in found[r]}
Reconfirmed(r) ==
  {c \in confirmed : \A q \in Creates(r, "confirm") : c.package # q.package}
    \cup Creates(r, "confirm")

\* COMMIT shows what r has written.
Publish(r) ==
  /\ packages' = packages \cup {NewPackage(q) : q \in Creates(r, "package")}
  /\ confirmed' = Reconfirmed(r)
  /\ profiles' = profiles \cup {NewProfile(q) : q \in Creates(r, "profile")}
  /\ maps' = maps \cup {NewMap(q) : q \in Creates(r, "map")}
  /\ opportunities' = opportunities \cup AddedOpportunities(r)
  /\ validations' = validations \cup AddedValidations(r)
  /\ Forget(r)

Step(r) ==
  \/ Route(r)
  \/ CreatePackage(r) \/ ConfirmPackage(r) \/ CreateIndustryProfile(r)
  \/ ReadSource(r) \/ InsertMap(r)
  \/ ReadMap(r) \/ ReadGrounding(r) \/ InsertOpportunity(r)
  \/ AppendAudit(r) /\ UNCHANGED groundingVars
  \/ (Commit(r) \/ CommitUnacknowledged(r)) /\ Publish(r)
Next ==
  \/ \E r \in Request : Step(r) \/ Abort(r)
  \/ Idle /\ UNCHANGED vars
Spec == Init /\ [][Next]_vars

-----------------------------------------------------------------------------
PackageRow == [req: Request, at: Nat]
MapRow == [req: Request, version: Nat \ {0}]
OpportunityRow == [req: Request, map: MapRow, version: Nat \ {0}]
ProfileIds == Classified \cup {r.id : r \in Request}
ValidationRow == [opportunity: Request, profile: ProfileIds]
TypeOK ==
  /\ LedgerTypeOK
  /\ packages \subseteq PackageRow
  /\ confirmed \subseteq Request
  /\ profiles \subseteq ProfileIds
  /\ maps \subseteq MapRow
  /\ opportunities \subseteq OpportunityRow
  /\ validations \subseteq ValidationRow
  /\ found \in [Request -> SUBSET MapRow]
  /\ version \in [Request -> Nat]

\* Packages that may have come before p in created_at and after it in time.
Late(p) ==
  {q \in packages : q # p /\ (Raced(q.req, p.req) \/ q.at = p.at)}
\* recorded is a version that p had: p has moved since, if at all, by no more than
\* the packages that were created while it was.
Explained(recorded, p) ==
  recorded \in (GeoVersion(p) - Cardinality(Late(p)))..GeoVersion(p)

(***************************************************************************)
(* The version a map or an opportunity recorded is the package's, up to    *)
(* the packages created at the same time as it; any later package leaves   *)
(* it as it was.  (How far entities.ts:45, "a monotonically increasing     *)
(* integer", holds of a derived number.)                                   *)
(***************************************************************************)
RecordedVersionsAreExplained ==
  /\ TypeOK
  /\ \A m \in maps : \E p \in Packages(m.req.package) : Explained(m.version, p)
  /\ \A o \in opportunities :
       \E p \in Packages(o.map.req.package) : Explained(o.version, p)

(***************************************************************************)
(* entities.ts:170-177: every opportunity traces back through a committed  *)
(* map, of which it takes a keyword, to a committed package, and never to  *)
(* an older version of it than the map's; it is validated once, by the     *)
(* map's profile, and there is one profile to be had, however many were    *)
(* being created; whoever a package says confirmed it was audited.         *)
(***************************************************************************)
OpportunitiesAreGrounded ==
  /\ Cardinality(profiles) <= 1
  /\ \A m \in maps : m.req.profile \in profiles
  /\ \A c \in confirmed : Packages(c.package) # {} /\ Allowed(c) # {}
  /\ \A o \in opportunities :
       /\ o.map \in maps
       /\ Packages(o.map.req.package) # {}
       /\ Covers(o.map, o.req.keyword)
       /\ o.map.version <= o.version
       /\ {v.profile : v \in {v \in validations : v.opportunity = o.req}} = {o.map.req.profile}

=============================================================================

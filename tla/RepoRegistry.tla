---------------------------- MODULE RepoRegistry ----------------------------
(***************************************************************************)
(* The repositories a client has connected: a row of repo_connections and  *)
(* a token in the vault for each, kept by RepoRegistry on behalf of the    *)
(* requests the gateway lets through, and looked up by scans.              *)
(*                                                                         *)
(* A request is handled in steps, one for each awaited call to the         *)
(* database, the vault or the provider; requests interleave, and any call  *)
(* may raise.  Every write of a row is of the whole row, from the copy the *)
(* request has read or built.  The provider's side changes too: branches   *)
(* are renamed.  One repository of one client: requests about others touch *)
(* other rows and other secrets.                                           *)
(***************************************************************************)
EXTENDS Naturals, FiniteSets

CONSTANTS
  Ids,           \* connection ids, as uuid4 hands them out
  Tokens,
  Accepted,      \* tokens that let one read the repository
  Branches,
  Main,          \* the branch called main
  Providers,     \* which provider the repository may be at
  Requests,
  MaxRenames,    \* bound on changes of the default branch
  MayFail        \* may an awaited call raise?

ASSUME RepoRegistryAssumption ==
  /\ Accepted \subseteq Tokens
  /\ IsFiniteSet(Branches)
  /\ Main \in Branches
  /\ Providers \subseteq {"github", "gitlab", "bitbucket"}
  /\ MaxRenames \in Nat
  /\ MayFail \in BOOLEAN
  /\ "none" \notin Tokens \union Branches \union Ids \union Requests

VARIABLES
  provider,     \* the repository's provider
  remote,       \* its branches there, and which is the default
  row,          \* repo_connections: what the row of a connection says
  vault,        \* the secret of each connection
  req,          \* the requests
  renames,      \* changes of the default branch so far
  deleting,     \* connections whose deletion has begun
  given,        \* the tokens that were handed in for a connection
  declared,     \* connections that an update's body has called CONNECTED
  named,        \* branches that somebody has called the default
  scans         \* the branch each started scan reads

outside == <<provider, remote, renames>>
history == <<deleting, given, declared, named, scans>>
vars == <<outside, row, vault, req, history>>

\* auth_failed stands for every status that is not CONNECTED.
Statuses == {"connected", "auth_failed"}
None     == [exists |-> FALSE, default |-> "none", status |-> "auth_failed", scan |-> "none"]
Row      == [exists : BOOLEAN, default : Branches \union {"none"}, status : Statuses,
             scan : Requests \union {"none"}]

Kinds  == {"connect", "verify", "rotate", "update", "delete", "scan"}
Points == {"idle", "lookup", "secret", "get", "read", "verify", "branch", "upsert",
           "unsecret", "unrow", "head", "default", "retry", "list", "last", "trigger",
           "mark", "done", "failed"}
Idle == [at |-> "idle", kind |-> "scan", id |-> "none", token |-> "none", asked |-> "none",
         ref |-> "none", conn |-> None, then |-> "done"]

Init ==
  /\ provider \in Providers
  /\ \E b \in Branches, bs \in SUBSET Branches :
       b \in bs /\ remote = [default |-> b, branches |-> bs]
  /\ row = [i \in Ids |-> None]
  /\ vault = [i \in Ids |-> "none"]
  /\ req = [r \in Requests |-> Idle]
  /\ renames = 0
  /\ deleting = {}
  /\ given = [i \in Ids |-> {}]
  /\ declared = {}
  /\ named = {remote.default} \union (IF provider = "bitbucket" THEN {Main} ELSE {})
  /\ scans = [r \in Requests |-> "none"]

-----------------------------------------------------------------------------
\* The provider.

Rename(b) ==
  /\ renames < MaxRenames
  /\ b \notin remote.branches
  /\ renames' = renames + 1
  /\ remote' = [default |-> b, branches |-> (remote.branches \ {remote.default}) \union {b}]
  /\ named' = named \union {b}
  /\ UNCHANGED <<provider, row, vault, req, deleting, given, declared, scans>>

\* What get_latest_commit says of a branch: GitHub's connector alone tells a missing
\* branch from other errors.
GitHubHead(b)    == IF b \in remote.branches THEN "found" ELSE "missing"
GitLabHead(b)    == IF b \in remote.branches THEN "found" ELSE "error"
BitbucketHead(b) == IF b \in remote.branches THEN "found" ELSE "error"

Head(token, b) ==
  {IF token \notin Accepted THEN "error"
   ELSE CASE provider = "github"    -> GitHubHead(b)
          [] provider = "gitlab"    -> GitLabHead(b)
          [] provider = "bitbucket" -> BitbucketHead(b)}
  \union (IF MayFail THEN {"error"} ELSE {})

\* verify_connection of a connector: whatever goes wrong makes it FALSE.
GitHubAccess(token)    == {token \in Accepted} \union (IF MayFail THEN {FALSE} ELSE {})
GitLabAccess(token)    == {token \in Accepted} \union (IF MayFail THEN {FALSE} ELSE {})
BitbucketAccess(token) == {token \in Accepted} \union (IF MayFail THEN {FALSE} ELSE {})

Access(token) == CASE provider = "github"    -> GitHubAccess(token)
                   [] provider = "gitlab"    -> GitLabAccess(token)
                   [] provider = "bitbucket" -> BitbucketAccess(token)

\* get_default_branch and list_branches, whose exceptions the registry swallows.
\* Bitbucket's connector says main where the provider names no main branch.
DefaultBranch(token) ==
  (IF token \notin Accepted THEN {"none"}
   ELSE IF provider = "bitbucket" THEN {remote.default, Main} ELSE {remote.default})
    \union (IF MayFail THEN {"none"} ELSE {})
ListBranches(token) ==
  (IF token \in Accepted THEN {remote.branches} ELSE {{}})
    \union (IF MayFail THEN {{}} ELSE {})

-----------------------------------------------------------------------------
\* A request gets through the gateway: its check has found the row of the tenant.

UnderWay(q) == req[q].at \notin {"idle", "done", "failed"}

Let(r, q) ==
  /\ req[r].at = "idle"
  /\ req' = [req EXCEPT ![r] = q]

Connect(r, token, branch) ==
  /\ Let(r, [Idle EXCEPT !.at = "lookup", !.kind = "connect", !.token = token,
                         !.conn = [None EXCEPT !.default = branch]])
  /\ named' = named \union {branch}
  /\ UNCHANGED <<outside, row, vault, deleting, given, declared, scans>>

OnConnection(r, i, kind) ==
  /\ kind \in {"verify", "delete"}
  /\ row[i].exists
  /\ Let(r, [Idle EXCEPT !.at = "get", !.kind = kind, !.id = i])
  /\ UNCHANGED <<outside, row, vault, deleting, given, declared, named, scans>>

Rotate(r, i, token) ==
  /\ row[i].exists
  /\ Let(r, [Idle EXCEPT !.at = "get", !.kind = "rotate", !.id = i, !.token = token])
  /\ UNCHANGED <<outside, row, vault, deleting, given, declared, named, scans>>

\* An update writes its body as the row: the status, the default branch and the last scan
\* are the sender's to say, like the preferences.
Update(r, i) ==
  /\ row[i].exists
  /\ \E status \in Statuses, branch \in Branches, scan \in {row[i].scan, "none"} :
       /\ Let(r, [Idle EXCEPT !.at = "upsert", !.kind = "update", !.id = i,
                              !.conn = [exists |-> TRUE, default |-> branch,
                                        status |-> status, scan |-> scan]])
       /\ declared' = IF status = "connected" THEN declared \union {i} ELSE declared
       /\ named' = named \union {branch}
  /\ UNCHANGED <<outside, row, vault, deleting, given, scans>>

ScanRepo(r, i, ref) ==
  /\ row[i].exists
  /\ Let(r, [Idle EXCEPT !.at = "get", !.kind = "scan", !.id = i, !.asked = ref,
                         !.ref = ref])
  /\ UNCHANGED <<outside, row, vault, deleting, given, declared, named, scans>>

-----------------------------------------------------------------------------
Go(r, point)    == req' = [req EXCEPT ![r].at = point]
At(r, point)    == req[r].at = point
Registered      == {i \in Ids : row[i].exists}
InUse           == {i \in Ids : row[i].exists \/ \E r \in Requests : req[r].id = i}

\* Mutant of Lookup: the secret is left to a later rotation.
LookupUnstored(r) ==
  /\ At(r, "lookup")
  /\ \E i \in Ids :
       /\ IF Registered # {} THEN i \in Registered ELSE i \notin InUse
       /\ req' = [req EXCEPT ![r].id = i, ![r].at = "verify"]
  /\ UNCHANGED <<outside, row, vault, history>>

\* register: the id of the row there is, or a new one.
Lookup(r) ==
  /\ At(r, "lookup")
  /\ \E i \in Ids :
       /\ IF Registered # {} THEN i \in Registered ELSE i \notin InUse
       /\ req' = [req EXCEPT ![r].id = i, ![r].at = "secret"]
  /\ UNCHANGED <<outside, row, vault, history>>

\* get_connection, and what its callers do first with the row.
Get(r) ==
  /\ At(r, "get")
  /\ LET conn == row[req[r].id]
         refused == ~conn.exists \/ (req[r].kind = "scan" /\ conn.status # "connected")
         next == IF refused THEN "failed"
                 ELSE CASE req[r].kind = "rotate" -> "secret"
                        [] req[r].kind = "delete" -> "unsecret"
                        [] OTHER                  -> "read"
     IN req' = [req EXCEPT ![r].conn = conn, ![r].at = next,
                           ![r].ref = IF req[r].kind = "scan" /\ req[r].asked = "none"
                                      THEN conn.default ELSE @]
  /\ UNCHANGED <<outside, row, vault, history>>

\* rotate_token goes on as verify_connection, which reads the row again.
WriteSecret(r) ==
  /\ At(r, "secret")
  /\ vault' = [vault EXCEPT ![req[r].id] = req[r].token]
  /\ given' = [given EXCEPT ![req[r].id] = @ \union {req[r].token}]
  /\ req' = IF req[r].kind = "rotate"
            THEN [req EXCEPT ![r].at = "get", ![r].kind = "verify"]
            ELSE [req EXCEPT ![r].at = "verify"]
  /\ UNCHANGED <<outside, row, deleting, declared, named, scans>>

ReadSecret(r) ==
  /\ At(r, "read")
  /\ LET token == vault[req[r].id]
     IN req' = [req EXCEPT ![r].token = token,
                           ![r].at = IF token = "none" THEN "failed"
                                     ELSE IF req[r].kind = "scan" THEN "head" ELSE "verify"]
  /\ UNCHANGED <<outside, row, vault, history>>

\* Mutant of VerifyConnection: an error counts as access.
VerifyLenient(r) ==
  /\ At(r, "verify")
  /\ req' = [req EXCEPT ![r].conn.status = "connected", ![r].at = "branch"]
  /\ UNCHANGED <<outside, row, vault, history>>

VerifyConnection(r) ==
  /\ At(r, "verify")
  /\ \E success \in Access(req[r].token) :
       req' = [req EXCEPT ![r].conn.status = IF success THEN "connected" ELSE "auth_failed",
                          ![r].at = IF success THEN "branch" ELSE "upsert"]
  /\ UNCHANGED <<outside, row, vault, history>>

SyncDefaultBranch(r) ==
  /\ At(r, "branch")
  /\ \E b \in DefaultBranch(req[r].token) :
       req' = [req EXCEPT ![r].conn.default = IF b = "none" THEN @ ELSE b, ![r].at = "upsert"]
  /\ UNCHANGED <<outside, row, vault, history>>

\* Mutant of UpsertConnection: no unique index on client and repo_url.
UpsertAny(r) ==
  /\ At(r, "upsert")
  /\ row' = [row EXCEPT ![req[r].id] = [req[r].conn EXCEPT !.exists = TRUE]]
  /\ Go(r, req[r].then)
  /\ UNCHANGED <<outside, vault, history>>

(* INSERT ... ON CONFLICT (connection_id) DO UPDATE: a row that has gone   *)
(* comes back; a second connection to the repository violates the unique   *)
(* index.                                                                  *)
UpsertConnection(r) ==
  /\ At(r, "upsert")
  /\ IF Registered \subseteq {req[r].id}
     THEN /\ row' = [row EXCEPT ![req[r].id] = [req[r].conn EXCEPT !.exists = TRUE]]
          /\ Go(r, req[r].then)
     ELSE /\ Go(r, "failed")
          /\ UNCHANGED row
  /\ UNCHANGED <<outside, vault, history>>

DeleteSecret(r) ==
  /\ At(r, "unsecret")
  /\ vault' = [vault EXCEPT ![req[r].id] = "none"]
  /\ deleting' = deleting \union {req[r].id}
  /\ Go(r, "unrow")
  /\ UNCHANGED <<outside, row, given, declared, named, scans>>

DeleteRow(r) ==
  /\ At(r, "unrow")
  /\ row' = [row EXCEPT ![req[r].id] = None]
  /\ Go(r, "done")
  /\ UNCHANGED <<outside, vault, history>>

-----------------------------------------------------------------------------
\* _resolve_head_sha.

\* Mutant of ResolveHead: falls back whoever named the ref.
ResolveHeadAnyway(r) ==
  /\ At(r, "head")
  /\ \E answer \in Head(req[r].token, req[r].ref) :
       Go(r, CASE answer = "found"   -> "trigger"
               [] answer = "missing" -> "default"
               [] OTHER              -> "failed")
  /\ UNCHANGED <<outside, row, vault, history>>

\* The ref that was asked for; a missing one is made up for only if nobody insisted.
ResolveHead(r) ==
  /\ At(r, "head")
  /\ \E answer \in Head(req[r].token, req[r].ref) :
       Go(r, CASE answer = "found"                            -> "trigger"
               [] answer = "missing" /\ req[r].asked = "none" -> "default"
               [] OTHER                                       -> "failed")
  /\ UNCHANGED <<outside, row, vault, history>>

\* What the provider calls the default now, kept in the row if it is another.
ResolveDefault(r) ==
  /\ At(r, "default")
  /\ \E b \in DefaultBranch(req[r].token) :
       req' = IF b \in {"none", req[r].ref}
              THEN [req EXCEPT ![r].ref = b, ![r].at = "list"]
              ELSE [req EXCEPT ![r].conn.default = b, ![r].ref = b,
                               ![r].at = "upsert", ![r].then = "retry"]
  /\ UNCHANGED <<outside, row, vault, history>>

ResolveRetry(r) ==
  /\ At(r, "retry")
  /\ \E answer \in Head(req[r].token, req[r].ref) :
       Go(r, CASE answer = "found"   -> "trigger"
               [] answer = "missing" -> "list"
               [] OTHER              -> "failed")
  /\ UNCHANGED <<outside, row, vault, history>>

\* The only branch there is becomes the default; else the provider's, if it is listed.
ResolveListed(r) ==
  /\ At(r, "list")
  /\ \E listed \in ListBranches(req[r].token) :
       req' = CASE Cardinality(listed) = 1 ->
                     LET only == CHOOSE b \in listed : TRUE
                     IN [req EXCEPT ![r].conn.default = only, ![r].ref = only,
                                    ![r].at = "upsert", ![r].then = "last"]
                [] Cardinality(listed) # 1 /\ req[r].ref \in listed ->
                     [req EXCEPT ![r].at = "last"]
                [] OTHER -> [req EXCEPT ![r].at = "failed"]
  /\ UNCHANGED <<outside, row, vault, history>>

ResolveLast(r) ==
  /\ At(r, "last")
  /\ \E answer \in Head(req[r].token, req[r].ref) :
       Go(r, IF answer = "found" THEN "trigger" ELSE "failed")
  /\ UNCHANGED <<outside, row, vault, history>>

\* scan_repo: the row once more, for the client; then the workflow.
Trigger(r) ==
  /\ At(r, "trigger")
  /\ IF row[req[r].id].exists
     THEN scans' = [scans EXCEPT ![r] = req[r].ref] /\ Go(r, "mark")
     ELSE Go(r, "failed") /\ UNCHANGED scans
  /\ UNCHANGED <<outside, row, vault, deleting, given, declared, named>>

MarkScanned(r) ==
  /\ At(r, "mark")
  /\ row' = IF row[req[r].id].exists THEN [row EXCEPT ![req[r].id].scan = r] ELSE row
  /\ Go(r, "done")
  /\ UNCHANGED <<outside, vault, history>>

Fail(r) ==
  /\ MayFail
  /\ UnderWay(r)
  /\ Go(r, "failed")
  /\ UNCHANGED <<outside, row, vault, history>>

Arrive(r) ==
  \/ \E t \in Tokens, b \in Branches : Connect(r, t, b)
  \/ \E i \in Ids :
       \/ \E kind \in Kinds : OnConnection(r, i, kind)
       \/ \E t \in Tokens : Rotate(r, i, t)
       \/ \E ref \in Branches \union {"none"} : ScanRepo(r, i, ref)
       \/ Update(r, i)

Handle(r) ==
  \/ Lookup(r) \/ Get(r) \/ WriteSecret(r) \/ ReadSecret(r) \/ VerifyConnection(r)
  \/ SyncDefaultBranch(r) \/ UpsertConnection(r) \/ DeleteSecret(r) \/ DeleteRow(r)
  \/ ResolveHead(r) \/ ResolveDefault(r) \/ ResolveRetry(r) \/ ResolveListed(r)
  \/ ResolveLast(r) \/ Trigger(r) \/ MarkScanned(r)

Next ==
  \/ \E r \in Requests : Arrive(r) \/ Handle(r) \/ Fail(r)
  \/ \E b \in Branches : Rename(b)

Spec == Init /\ [][Next]_vars
-----------------------------------------------------------------------------
Request == [at : Points, kind : Kinds, id : Ids \union {"none"}, token : Tokens \union {"none"},
            asked : Branches \union {"none"}, ref : Branches \union {"none"}, conn : Row,
            then : {"done", "retry", "last"}]

\* Types of the stores and of the requests.
TypeOK ==
  /\ provider \in Providers
  /\ remote \in [default : Branches, branches : SUBSET Branches]
  /\ row \in [Ids -> Row]
  /\ vault \in [Ids -> Tokens \union {"none"}]
  /\ req \in [Requests -> Request]
  /\ renames \in Nat
  /\ deleting \subseteq Ids
  /\ given \in [Ids -> SUBSET Tokens]
  /\ declared \subseteq Ids
  /\ named \subseteq Branches
  /\ scans \in [Requests -> Branches \union {"none"}]

\* Whatever interleaves and fails, a row has its secret behind it, unless a deletion of
\* the connection has begun.
SecretKept == \A i \in Ids : row[i].exists /\ i \notin deleting => vault[i] # "none"

\* A connection is CONNECTED only if a token that the provider accepts was handed in for
\* it, or an update's body said so: whichever copies of its row are written back in
\* whatever order, and whatever fails, the registry's own verdicts are the token's.
StatusEarned ==
  \A i \in Ids : row[i].exists /\ row[i].status = "connected" =>
    i \in declared \/ given[i] \cap Accepted # {}

\* A scan reads the branch that was asked for, or else one that has been called the
\* default: by the provider, by who connected or updated the repository, or, for
\* Bitbucket, by the connector.  Its token is one the provider accepts and was handed in
\* for this connection, so a CONNECTED that was only declared starts no scan.
ScanReads ==
  \A r \in Requests : scans[r] # "none" =>
    /\ IF req[r].asked # "none" THEN scans[r] = req[r].asked ELSE scans[r] \in named
    /\ req[r].token \in Accepted \cap given[req[r].id]

\* A repository that stays connected keeps its connection: registering it again, or
\* twice at once, never makes a second one.
ConnectionKept == [][\A i, j \in Ids : row[i].exists /\ row'[j].exists => i = j]_vars
=============================================================================

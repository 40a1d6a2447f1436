-------------------------- MODULE RepoRegistryProofs --------------------------
(***************************************************************************)
(* What the registry keeps true for any connections, tokens, branches,     *)
(* requests and failures.  Sound says what a request in flight may carry:  *)
(* whatever it writes back later was earned when it read or built it, and  *)
(* what has been earned stays so (Grows), so a stale write is harmless.    *)
(***************************************************************************)
EXTENDS RepoRegistry, FiniteSetTheorems, TLAPS

\* Where a request knows that its connection has a secret; where it holds a token.
Backed   == {"verify", "branch", "upsert", "head", "default", "retry", "list", "last"}
Falling  == {"default", "retry", "list", "last"}
Holding  == {"verify", "branch", "head", "trigger"} \union Falling
Fallback(x) == x.at \in Falling \/ (x.at = "upsert" /\ x.then # "done")

Earned(i) == i \in declared \/ given[i] \cap Accepted # {}

\* A request that is somewhere past its lookup knows its connection.
Placed(x) ==
  /\ x \in Request
  /\ x.at \notin {"idle", "lookup", "failed"} => x.id \in Ids
  /\ x.at = "lookup" => x.conn.status = "auth_failed"
  /\ x.at \in {"lookup", "secret"} \/ (x.at = "get" /\ x.kind = "rotate") => x.token \in Tokens

SecretSeen(x) == x.at \in Backed /\ x.id \notin deleting => vault[x.id] # "none"

TokenGiven(x) == x.at \in Holding \/ Fallback(x) => x.token \in given[x.id]

StatusSeen(x) == x.conn.status = "connected" => x.id \in Ids /\ Earned(x.id)

\* The ref is the one asked for, or one that has been the default.
RefSeen(x) ==
  /\ x.conn.default \in named \union {"none"}
  /\ x.asked # "none" => x.ref = x.asked /\ x.then = "done" /\ x.at \notin Falling
  /\ x.asked = "none" => x.ref \in named \union {"none"}
  /\ x.at = "trigger" => x.token \in Accepted

Sound(x) == Placed(x) /\ SecretSeen(x) /\ TokenGiven(x) /\ StatusSeen(x) /\ RefSeen(x)

\* What a started scan read, which its request still shows.
ScanShown(r) ==
  scans[r] # "none" =>
    /\ req[r].at \in {"mark", "done", "failed"}
    /\ req[r].id \in Ids
    /\ IF req[r].asked # "none" THEN scans[r] = req[r].asked ELSE scans[r] \in named
    /\ req[r].token \in Accepted \cap given[req[r].id]

OneRow == \A i, j \in Ids : row[i].exists /\ row[j].exists => i = j

RowsOK ==
  /\ row \in [Ids -> Row]
  /\ OneRow
  /\ SecretKept
  /\ \A i \in Ids : row[i].status = "connected" => Earned(i)
  /\ \A i \in Ids : row[i].default \in named \union {"none"}

VaultOK ==
  /\ vault \in [Ids -> Tokens \union {"none"}]
  /\ \A i \in Ids : vault[i] # "none" => vault[i] \in given[i]

OutsideOK ==
  /\ provider \in Providers
  /\ remote \in [default : Branches, branches : SUBSET Branches]
  /\ remote.default \in remote.branches \cap named
  /\ provider = "bitbucket" => Main \in named
  /\ renames \in Nat

HistoryOK ==
  /\ deleting \subseteq Ids
  /\ given \in [Ids -> SUBSET Tokens]
  /\ declared \subseteq Ids
  /\ named \subseteq Branches
  /\ scans \in [Requests -> Branches \union {"none"}]

RequestsOK ==
  /\ req \in [Requests -> Request]
  /\ \A r \in Requests : Sound(req[r])
  /\ \A r \in Requests : ScanShown(r)

IInv == OutsideOK /\ HistoryOK /\ VaultOK /\ RowsOK /\ RequestsOK

LEMMA Names ==
  /\ "none" \notin Tokens /\ "none" \notin Branches /\ "none" \notin Ids /\ "none" \notin Requests
BY RepoRegistryAssumption

LEMMA IdleTyped == Idle \in Request /\ None \in Row
BY DEF Idle, None, Row, Request, Points, Kinds, Statuses

(* The invariant holds at the start.                                       *)
LEMMA InitHolds == Init => IInv
<1> SUFFICES ASSUME Init PROVE IInv
  OBVIOUS
<1> USE Names, IdleTyped DEF Init
<1>1. OutsideOK
  BY DEF OutsideOK
<1>2. HistoryOK
  BY RepoRegistryAssumption DEF HistoryOK
<1>3. VaultOK
  BY DEF VaultOK
<1>4. RowsOK
  BY DEF RowsOK, OneRow, SecretKept, None
<1>5. Sound(Idle)
  BY DEF Sound, Placed, SecretSeen, TokenGiven, StatusSeen, RefSeen, Idle, None, Backed,
         Falling, Holding, Fallback
<1>6. RequestsOK
  BY <1>5 DEF RequestsOK, ScanShown
<1> QED BY <1>1, <1>2, <1>3, <1>4, <1>6 DEF IInv

(* What has been handed in, named, declared or deleted stays so, and a     *)
(* secret goes only when its connection is being deleted.                  *)
Grows ==
  /\ \A i \in Ids : given[i] \subseteq given'[i]
  /\ named \subseteq named'
  /\ declared \subseteq declared'
  /\ deleting \subseteq deleting'
  /\ \A i \in Ids : vault'[i] = "none" => vault[i] = "none" \/ i \in deleting'

LEMMA GrowsOfKept ==
  ASSUME UNCHANGED <<vault, given, declared, deleting>>, named \subseteq named'
  PROVE  Grows
BY DEF Grows

(* Another step leaves what a request carries sound.                       *)
LEMMA SoundStays ==
  ASSUME Grows, NEW x, Sound(x)
  PROVE  Sound(x)'
<1>1. Placed(x)'
  BY DEF Sound, Placed
<1>2. SecretSeen(x)'
  BY DEF Sound, Placed, SecretSeen, Grows, Backed
<1>3. TokenGiven(x)'
  BY DEF Sound, Placed, TokenGiven, Grows, Holding, Fallback, Falling
<1>4. StatusSeen(x)'
  BY DEF Sound, StatusSeen, Grows, Earned
<1>5. RefSeen(x)'
  BY DEF Sound, RefSeen, Grows
<1> QED BY <1>1, <1>2, <1>3, <1>4, <1>5 DEF Sound

LEMMA EarnedStays ==
  ASSUME Grows, NEW i \in Ids, Earned(i)
  PROVE  Earned(i)'
BY DEF Grows, Earned

(* A request that has started a scan only ends.                            *)
Ending(r, y) ==
  scans[r] # "none" =>
    /\ y.at \in {"done", "failed"}
    /\ y.id = req[r].id /\ y.asked = req[r].asked /\ y.token = req[r].token

(* The requests after a step: it is enough to look at the one that moved.  *)
LEMMA RequestMoves ==
  ASSUME RequestsOK, Grows, NEW r \in Requests, NEW y, req' = [req EXCEPT ![r] = y],
         Sound(y)', scans' = scans, Ending(r, y)
  PROVE  RequestsOK'
<1>1. y \in Request
  BY DEF Sound, Placed
<1>2. req' \in [Requests -> Request]
  BY <1>1 DEF RequestsOK
<1>3. \A q \in Requests : Sound(req[q])'
  <2> TAKE q \in Requests
  <2>1. CASE q = r
    BY <2>1 DEF RequestsOK
  <2>2. CASE q # r
    <3>1. req'[q] = req[q]
      BY <2>2 DEF RequestsOK
    <3>2. Sound(req[q])
      BY DEF RequestsOK
    <3> DEFINE z == req[q]
    <3>3. Sound(z)
      BY <3>2
    <3> HIDE DEF z
    <3>4. \A w : Sound(w) => Sound(w)'
      BY SoundStays
    <3> QED BY <3>1, <3>3, <3>4 DEF z
  <2> QED BY <2>1, <2>2
<1>4. \A q \in Requests : ScanShown(q)'
  <2> SUFFICES ASSUME NEW q \in Requests, scans[q] # "none"
               PROVE  ScanShown(q)'
    BY DEF ScanShown
  <2>1. ScanShown(q) /\ req[q] \in Request
    BY DEF RequestsOK
  <2>2. /\ req'[q].at \in {"mark", "done", "failed"}
        /\ req'[q].id = req[q].id /\ req'[q].asked = req[q].asked /\ req'[q].token = req[q].token
    BY <2>1 DEF RequestsOK, ScanShown, Ending
  <2> QED BY <2>1, <2>2 DEF ScanShown, Grows
<1> QED BY <1>2, <1>3, <1>4 DEF RequestsOK

(* A request that has not come to its end has started no scan.             *)
LEMMA Unstarted ==
  ASSUME RequestsOK, NEW r \in Requests, req[r].at \notin {"mark", "done", "failed"}
  PROVE  scans[r] = "none"
BY DEF RequestsOK, ScanShown

LEMMA MoverSound ==
  ASSUME RequestsOK, NEW r \in Requests
  PROVE  Sound(req[r]) /\ req[r] \in Request
BY DEF RequestsOK

(* The stores other than the requests after a step that leaves them.       *)
LEMMA StoresKept ==
  ASSUME OutsideOK, HistoryOK, VaultOK, RowsOK, UNCHANGED <<outside, row, vault, history>>
  PROVE  (OutsideOK /\ HistoryOK /\ VaultOK /\ RowsOK)'
BY DEF OutsideOK, HistoryOK, VaultOK, RowsOK, OneRow, SecretKept, Earned, outside, history

(* A step of one request that only changes what it carries.                *)
LEMMA OnlyMoves ==
  ASSUME IInv, NEW r \in Requests, NEW y, req' = [req EXCEPT ![r] = y],
         Sound(y), UNCHANGED <<outside, row, vault, history>>,
         Ending(r, y)
  PROVE  IInv'
<1>1. Grows /\ scans' = scans
  BY DEF Grows, history
<1>2. Sound(y)'
  BY <1>1, SoundStays
<1>3. RequestsOK'
  BY <1>1, <1>2, RequestMoves DEF IInv
<1> QED BY <1>3, StoresKept DEF IInv

LEMMA RenameHolds ==
  ASSUME IInv, NEW b \in Branches, Rename(b)
  PROVE  IInv'
<1> USE DEF Rename
<1>1. Grows
  BY DEF Grows
<1>2. OutsideOK'
  BY DEF IInv, OutsideOK, HistoryOK
<1>3. HistoryOK'
  BY DEF IInv, HistoryOK
<1>4. VaultOK'
  BY DEF IInv, VaultOK
<1>5. RowsOK'
  BY DEF IInv, RowsOK, OneRow, SecretKept, Earned
<1>6. \A x : Sound(x) => Sound(x)'
  BY <1>1, SoundStays
<1>7. RequestsOK'
  <2>1. req' = req /\ scans' = scans /\ given' = given /\ named \subseteq named'
    OBVIOUS
  <2>2. \A r \in Requests : Sound(req[r])'
    <3> TAKE r \in Requests
    <3> DEFINE z == req[r]
    <3>1. Sound(z) /\ z' = z
      BY <2>1 DEF IInv, RequestsOK
    <3> QED BY <1>6, <3>1
  <2>3. \A r \in Requests : ScanShown(r)'
    BY <2>1 DEF IInv, RequestsOK, ScanShown
  <2> QED BY <2>1, <2>2, <2>3 DEF IInv, RequestsOK
<1> QED BY <1>2, <1>3, <1>4, <1>5, <1>7 DEF IInv

LEMMA ConnectHolds ==
  ASSUME IInv, NEW r \in Requests, NEW token \in Tokens, NEW branch \in Branches,
         Connect(r, token, branch)
  PROVE  IInv'
<1> DEFINE y == [Idle EXCEPT !.at = "lookup", !.kind = "connect", !.token = token,
                             !.conn = [None EXCEPT !.default = branch]]
<1>1. /\ req' = [req EXCEPT ![r] = y] /\ req[r].at = "idle"
      /\ named' = named \union {branch}
      /\ UNCHANGED <<outside, row, vault, deleting, given, declared, scans>>
  BY DEF Connect, Let
<1>2. Grows
  BY <1>1 DEF Grows
<1>3. Sound(y)'
  BY <1>1, Names DEF Sound, Placed, SecretSeen, TokenGiven, StatusSeen, RefSeen, Idle, None, Row, Request,
     Points, Kinds, Statuses, Backed, Holding, Falling, Fallback
<1>4. RequestsOK'
  <2>1. scans[r] = "none" /\ \A w : Ending(r, w)
    BY <1>1, Unstarted DEF IInv, Ending
  <2>2. PICK z : z = y
    OBVIOUS
  <2>3. Sound(z)'
    BY <1>3, <2>2
  <2>4. req' = [req EXCEPT ![r] = z] /\ RequestsOK /\ scans' = scans
    BY <1>1, <2>2 DEF IInv
  <2> HIDE DEF y
  <2> QED BY <1>2, <2>1, <2>3, <2>4, RequestMoves
<1>5. (OutsideOK /\ HistoryOK /\ VaultOK /\ RowsOK)'
  BY <1>1 DEF IInv, OutsideOK, HistoryOK, VaultOK, RowsOK, OneRow, SecretKept, Earned, outside
<1> QED BY <1>4, <1>5 DEF IInv

(* What an update's body says is recorded as declared and named.           *)
LEMMA UpdateHolds ==
  ASSUME IInv, NEW r \in Requests, NEW i \in Ids, Update(r, i)
  PROVE  IInv'
<1>0. row[i].exists /\ row[i] \in Row
  BY DEF Update, IInv, RowsOK
<1>1. PICK status \in Statuses, branch \in Branches, scan \in {row[i].scan, "none"} :
        /\ Let(r, [Idle EXCEPT !.at = "upsert", !.kind = "update", !.id = i,
                               !.conn = [exists |-> TRUE, default |-> branch,
                                         status |-> status, scan |-> scan]])
        /\ declared' = IF status = "connected" THEN declared \union {i} ELSE declared
        /\ named' = named \union {branch}
  BY DEF Update
<1>2. UNCHANGED <<outside, row, vault, deleting, given, scans>>
  BY DEF Update
<1> DEFINE c == [exists |-> TRUE, default |-> branch, status |-> status, scan |-> scan]
           y == [Idle EXCEPT !.at = "upsert", !.kind = "update", !.id = i, !.conn = c]
<1>3. c \in Row /\ c.default = branch /\ c.status = status
  BY <1>0 DEF Row
<1>4. req' = [req EXCEPT ![r] = y] /\ req[r].at = "idle"
  BY <1>1 DEF Let
<1> HIDE DEF c
<1>5. /\ y \in Request /\ y.id = i /\ y.at = "upsert" /\ y.then = "done" /\ y.conn = c
      /\ y.asked = "none" /\ y.ref = "none" /\ y.kind = "update"
  BY <1>3, IdleTyped DEF Idle, Request, Points, Kinds
<1> HIDE DEF y
<1>6. Grows
  BY <1>1, <1>2 DEF Grows
<1>7. Sound(y)'
  <2>1. Placed(y)'
    BY <1>5 DEF Placed
  <2>2. SecretSeen(y)'
    BY <1>0, <1>2, <1>5 DEF SecretSeen, IInv, RowsOK, SecretKept
  <2>3. TokenGiven(y)'
    BY <1>5 DEF TokenGiven, Holding, Falling, Fallback
  <2>4. StatusSeen(y)'
    BY <1>1, <1>3, <1>5 DEF StatusSeen, Earned
  <2>5. RefSeen(y)'
    BY <1>1, <1>3, <1>5 DEF RefSeen, Fallback, Falling
  <2> QED BY <2>1, <2>2, <2>3, <2>4, <2>5 DEF Sound
<1>8. RequestsOK'
  <2>1. scans[r] = "none" /\ Ending(r, y) /\ RequestsOK /\ scans' = scans
    BY <1>2, <1>4, Unstarted DEF IInv, Ending
  <2> QED BY <1>4, <1>6, <1>7, <2>1, RequestMoves
<1>9. (OutsideOK /\ HistoryOK /\ VaultOK)'
  BY <1>1, <1>2 DEF IInv, OutsideOK, HistoryOK, VaultOK, outside
<1>10. RowsOK'
  <2>1. \A j \in Ids : row[j].status = "connected" => Earned(j)'
    BY <1>6, EarnedStays DEF IInv, RowsOK
  <2> QED BY <1>1, <1>2, <2>1 DEF IInv, RowsOK, OneRow, SecretKept
<1> QED BY <1>8, <1>9, <1>10 DEF IInv

(* The other arrivals carry an id and no row.                              *)
LEMMA ArrivalSound ==
  ASSUME IInv, NEW i \in Ids, row[i].exists, NEW y \in Request, y.id = i,
         y.at = "get", y.then = "done", y.conn = None,
         y.kind = "rotate" => y.token \in Tokens, y.asked # "none" => y.ref = y.asked,
         y.asked = "none" => y.ref = "none"
  PROVE  Sound(y)
<1> USE DEF IInv
<1>1. Placed(y) /\ TokenGiven(y)
  BY DEF Placed, TokenGiven, Holding, Falling, Fallback
<1>2. SecretSeen(y)
  BY DEF SecretSeen, RowsOK, SecretKept, Backed
<1>3. StatusSeen(y)
  BY DEF StatusSeen, RowsOK, None
<1>4. RefSeen(y)
  BY DEF RefSeen, RowsOK, None, Fallback, Falling
<1> QED BY <1>1, <1>2, <1>3, <1>4 DEF Sound

LEMMA ArriveHolds ==
  ASSUME IInv, NEW r \in Requests, Arrive(r)
  PROVE  IInv'
<1>1. ASSUME NEW y, NEW i \in Ids, Let(r, y), Sound(y),
             UNCHANGED <<outside, row, vault, deleting, given, declared, named, scans>>
      PROVE  IInv'
  <2>1. req' = [req EXCEPT ![r] = y] /\ Ending(r, y)
    BY <1>1, Unstarted DEF Let, IInv, Ending
  <2>2. UNCHANGED <<outside, row, vault, history>>
    BY <1>1 DEF history
  <2>3. Sound(y)
    BY <1>1
  <2> QED BY <2>1, <2>2, <2>3, OnlyMoves
<1> USE Names DEF Idle, Request, Kinds, Points, None, Row, Statuses
<1>2. ASSUME NEW i \in Ids, NEW kind \in Kinds, OnConnection(r, i, kind)
      PROVE  IInv'
  <2> DEFINE y == [Idle EXCEPT !.at = "get", !.kind = kind, !.id = i]
  <2>0. kind # "rotate"
    BY <1>2 DEF OnConnection
  <2>1. y \in Request /\ y.kind = kind /\ y.id = i /\ y.at = "get" /\ y.then = "done" /\ y.conn = None /\ y.asked = "none" /\ y.ref = "none"
    OBVIOUS
  <2>2. Let(r, y) /\ row[i].exists /\ UNCHANGED <<outside, row, vault, deleting, given, declared, named, scans>>
    BY <1>2 DEF OnConnection
  <2> HIDE DEF y
  <2>3. Sound(y)
    BY <2>0, <2>1, <2>2, ArrivalSound
  <2> QED BY <2>2, <2>3, <1>1
<1>3. ASSUME NEW i \in Ids, NEW token \in Tokens, Rotate(r, i, token)
      PROVE  IInv'
  <2> DEFINE y == [Idle EXCEPT !.at = "get", !.kind = "rotate", !.id = i, !.token = token]
  <2>1. y \in Request /\ y.token = token /\ y.id = i /\ y.at = "get" /\ y.then = "done" /\ y.conn = None /\ y.asked = "none" /\ y.ref = "none"
    OBVIOUS
  <2>2. Let(r, y) /\ row[i].exists /\ UNCHANGED <<outside, row, vault, deleting, given, declared, named, scans>>
    BY <1>3 DEF Rotate
  <2> HIDE DEF y
  <2>3. Sound(y)
    BY <2>1, <2>2, ArrivalSound
  <2> QED BY <2>2, <2>3, <1>1
<1>4. ASSUME NEW i \in Ids, NEW ref \in Branches \union {"none"}, ScanRepo(r, i, ref)
      PROVE  IInv'
  <2> DEFINE y == [Idle EXCEPT !.at = "get", !.kind = "scan", !.id = i, !.asked = ref, !.ref = ref]
  <2>1. /\ y \in Request /\ y.kind = "scan" /\ y.id = i /\ y.at = "get" /\ y.then = "done" /\ y.conn = None
        /\ y.asked # "none" => y.ref = y.asked
        /\ y.asked = "none" => y.ref = "none"
    OBVIOUS
  <2>2. Let(r, y) /\ row[i].exists /\ UNCHANGED <<outside, row, vault, deleting, given, declared, named, scans>>
    BY <1>4 DEF ScanRepo
  <2> HIDE DEF y
  <2>3. Sound(y)
    BY <2>1, <2>2, ArrivalSound
  <2> QED BY <2>2, <2>3, <1>1
<1> QED BY <1>2, <1>3, <1>4, UpdateHolds, ConnectHolds DEF Arrive

(* A request may go on to a point whose conditions it meets.               *)
MayGo(x, point) ==
  /\ point \in Points \ {"idle", "lookup", "get", "secret", "upsert"}
  /\ point = "failed" \/ x.at \notin {"idle", "lookup", "failed"}
  /\ point \in Backed => x.at \in Backed
  /\ point \in Holding => x.token \in given[x.id]
  /\ point \in Falling => x.asked = "none"
  /\ point = "trigger" => x.token \in Accepted

LEMMA PointSound ==
  ASSUME NEW x, Sound(x), NEW point, MayGo(x, point)
  PROVE  Sound([x EXCEPT !.at = point])
<1> DEFINE y == [x EXCEPT !.at = point]
<1>1. x \in Request /\ point \in Points
  BY DEF Sound, Placed, MayGo
<1>2. /\ y \in Request /\ y.at = point /\ y.id = x.id /\ y.conn = x.conn /\ y.token = x.token
      /\ y.asked = x.asked /\ y.ref = x.ref /\ y.then = x.then
  BY <1>1 DEF Request
<1> HIDE DEF y
<1>3. Placed(y)
  BY <1>1, <1>2 DEF Sound, Placed, MayGo
<1>4. SecretSeen(y) /\ StatusSeen(y)
  BY <1>1, <1>2 DEF Sound, SecretSeen, StatusSeen, MayGo
<1>5. TokenGiven(y) /\ RefSeen(y)
  BY <1>1, <1>2 DEF Sound, TokenGiven, RefSeen, Fallback, Falling, Holding, MayGo
<1>6. Sound(y)
  BY <1>3, <1>4, <1>5 DEF Sound
<1> QED BY <1>6 DEF y

(* A step of a request that only goes on to another point.                 *)
LEMMA Goes ==
  ASSUME IInv, NEW r \in Requests, NEW point, Go(r, point), MayGo(req[r], point),
         UNCHANGED <<outside, row, vault, history>>,
         scans[r] = "none" \/ point \in {"done", "failed"}
  PROVE  IInv'
<1> DEFINE x == req[r]
<1>1. Sound(x) /\ x \in Request
  BY MoverSound DEF IInv
<1>2. PICK y : y = [x EXCEPT !.at = point]
  OBVIOUS
<1>3. req' = [req EXCEPT ![r] = y]
  BY <1>1, <1>2 DEF Go
<1>4. Sound(y)
  BY <1>1, <1>2, PointSound
<1>5. Ending(r, y)
  BY <1>1, <1>2 DEF Ending, Request
<1> QED BY <1>3, <1>4, <1>5, OnlyMoves

LEMMA LookupHolds ==
  ASSUME IInv, NEW r \in Requests, Lookup(r)
  PROVE  IInv'
<1> DEFINE x == req[r]
<1>1. Sound(x) /\ x \in Request /\ x.at = "lookup" /\ UNCHANGED <<outside, row, vault, history>>
  BY MoverSound DEF IInv, Lookup, At
<1>2. PICK i \in Ids : req' = [req EXCEPT ![r].id = i, ![r].at = "secret"]
  BY DEF Lookup
<1> DEFINE y == [x EXCEPT !.id = i, !.at = "secret"]
<1>3. /\ y \in Request /\ y.at = "secret" /\ y.id = i /\ y.conn = x.conn /\ y.token = x.token
      /\ y.asked = x.asked /\ y.ref = x.ref /\ y.then = x.then
  BY <1>1 DEF Request, Points
<1>4. req' = [req EXCEPT ![r] = y]
  BY <1>1, <1>2
<1> HIDE DEF y
<1>5. Sound(y)
  BY <1>1, <1>3 DEF Sound, Placed, SecretSeen, TokenGiven, StatusSeen, RefSeen, Backed, Holding, Falling, Fallback
<1>6. Ending(r, y)
  BY <1>1, Unstarted DEF IInv, Ending
<1> QED BY <1>1, <1>4, <1>5, <1>6, OnlyMoves

LEMMA GetHolds ==
  ASSUME IInv, NEW r \in Requests, Get(r)
  PROVE  IInv'
<1> DEFINE x == req[r]
           conn == row[x.id]
<1>1. Sound(x) /\ x \in Request /\ x.at = "get" /\ UNCHANGED <<outside, row, vault, history>>
  BY MoverSound DEF IInv, Get, At
<1>2. x.id \in Ids /\ conn \in Row
  BY <1>1 DEF Sound, Placed, IInv, RowsOK
<1> DEFINE refused == ~conn.exists \/ (x.kind = "scan" /\ conn.status # "connected")
           next == IF refused THEN "failed"
                   ELSE CASE x.kind = "rotate" -> "secret"
                          [] x.kind = "delete" -> "unsecret"
                          [] OTHER             -> "read"
           ref  == IF x.kind = "scan" /\ x.asked = "none" THEN conn.default ELSE x.ref
           y == [x EXCEPT !.conn = conn, !.at = next, !.ref = ref]
<1>3. /\ next \in {"failed", "read", "secret", "unsecret"}
      /\ next = "secret" => x.kind = "rotate"
      /\ ref = x.ref \/ (ref = conn.default /\ x.asked = "none")
      /\ ref \in Branches \union {"none"}
  <2>1. x.ref \in Branches \union {"none"} /\ conn.default \in Branches \union {"none"}
    BY <1>1, <1>2 DEF Request, Row
  <2> QED BY <2>1
<1>3a. req' = [req EXCEPT ![r].conn = conn, ![r].at = next, ![r].ref = ref]
  BY <1>1 DEF Get
<1> HIDE DEF next, ref
<1>4. /\ y \in Request /\ y.at = next /\ y.id = x.id /\ y.conn = conn /\ y.asked = x.asked
      /\ y.ref = ref /\ y.then = x.then /\ y.token = x.token
  <2>1. next \in Points
    BY <1>3 DEF Points
  <2> QED BY <1>1, <1>2, <1>3, <2>1, Zenon DEF Request
<1>5. req' = [req EXCEPT ![r] = y]
  BY <1>1, <1>3a
<1> HIDE DEF y
<1>6. conn.status = "connected" => Earned(x.id)
  BY <1>2 DEF IInv, RowsOK
<1>7. conn.default \in named \union {"none"}
  BY <1>2 DEF IInv, RowsOK
<1> HIDE DEF conn
<1>8. Sound(y)
  BY <1>1, <1>2, <1>3, <1>4, <1>6, <1>7
  DEF Sound, Placed, SecretSeen, TokenGiven, StatusSeen, RefSeen, Backed, Holding, Falling, Fallback
<1>9. Ending(r, y)
  BY <1>1, Unstarted DEF IInv, Ending
<1> QED BY <1>1, <1>5, <1>8, <1>9, OnlyMoves

LEMMA ReadSecretHolds ==
  ASSUME IInv, NEW r \in Requests, ReadSecret(r)
  PROVE  IInv'
<1> DEFINE x == req[r]
           token == vault[x.id]
<1>1. Sound(x) /\ x \in Request /\ x.at = "read" /\ UNCHANGED <<outside, row, vault, history>>
  BY MoverSound DEF IInv, ReadSecret, At
<1>2. /\ x.id \in Ids /\ token \in Tokens \union {"none"}
      /\ token # "none" => token \in given[x.id]
  BY <1>1 DEF Sound, Placed, IInv, VaultOK
<1> DEFINE next == IF token = "none" THEN "failed"
                   ELSE IF x.kind = "scan" THEN "head" ELSE "verify"
<1>3. next \in {"failed", "head", "verify"} /\ (token = "none" => next = "failed")
  OBVIOUS
<1>3a. req' = [req EXCEPT ![r].token = token, ![r].at = next]
  BY DEF ReadSecret
<1> HIDE DEF next
<1> DEFINE y == [x EXCEPT !.token = token, !.at = next]
<1>4. /\ y \in Request /\ y.at = next /\ y.id = x.id /\ y.conn = x.conn /\ y.token = token
      /\ y.asked = x.asked /\ y.ref = x.ref /\ y.then = x.then
  BY <1>1, <1>2, <1>3 DEF Request, Points
<1>5. req' = [req EXCEPT ![r] = y]
  BY <1>1, <1>3a
<1> HIDE DEF y
<1>6. Sound(y)
  BY <1>1, <1>2, <1>3, <1>4
  DEF Sound, Placed, SecretSeen, TokenGiven, StatusSeen, RefSeen, Backed, Holding, Falling, Fallback
<1>7. Ending(r, y)
  BY <1>1, Unstarted DEF IInv, Ending
<1> QED BY <1>1, <1>5, <1>6, <1>7, OnlyMoves

\* Only a token the provider accepts gets through to it.
LEMMA AccessEarned ==
  ASSUME OutsideOK, NEW token, TRUE \in Access(token)
  PROVE  token \in Accepted
BY RepoRegistryAssumption DEF OutsideOK, Access, GitHubAccess, GitLabAccess, BitbucketAccess

LEMMA VerifyHolds ==
  ASSUME IInv, NEW r \in Requests, VerifyConnection(r)
  PROVE  IInv'
<1> DEFINE x == req[r]
<1>1. Sound(x) /\ x \in Request /\ x.at = "verify" /\ UNCHANGED <<outside, row, vault, history>>
  BY MoverSound DEF IInv, VerifyConnection, At
<1>2. PICK success \in Access(x.token) :
        req' = [req EXCEPT ![r].conn.status = IF success THEN "connected" ELSE "auth_failed",
                           ![r].at = IF success THEN "branch" ELSE "upsert"]
  BY DEF VerifyConnection
<1>3. success \in BOOLEAN
  BY RepoRegistryAssumption DEF IInv, OutsideOK, Access, GitHubAccess, GitLabAccess, BitbucketAccess
<1> DEFINE c == [x.conn EXCEPT !.status = IF success THEN "connected" ELSE "auth_failed"]
           y == [x EXCEPT !.conn = c, !.at = IF success THEN "branch" ELSE "upsert"]
<1>4. /\ c \in Row /\ c.default = x.conn.default
      /\ c.status = IF success THEN "connected" ELSE "auth_failed"
  BY <1>1 DEF Request, Row, Statuses
<1>5. req' = [req EXCEPT ![r] = y]
  BY <1>1, <1>2
<1> HIDE DEF c
<1>6. /\ y \in Request /\ y.id = x.id /\ y.conn = c /\ y.token = x.token
      /\ y.at = IF success THEN "branch" ELSE "upsert"
      /\ y.asked = x.asked /\ y.ref = x.ref /\ y.then = x.then
  BY <1>1, <1>4 DEF Request, Points
<1> HIDE DEF y
<1>7. x.id \in Ids /\ x.token \in given[x.id]
  BY <1>1 DEF Sound, Placed, TokenGiven, Holding
<1>8. success => Earned(x.id)
  BY <1>3, <1>7, AccessEarned DEF Earned, IInv
<1>10. Sound(y)
  BY <1>1, <1>3, <1>4, <1>6, <1>7, <1>8
  DEF Sound, Placed, SecretSeen, TokenGiven, StatusSeen, RefSeen, Backed, Holding, Falling, Fallback
<1>11. Ending(r, y)
  BY <1>1, Unstarted DEF IInv, Ending
<1> QED BY <1>1, <1>5, <1>10, <1>11, OnlyMoves

LEMMA SyncHolds ==
  ASSUME IInv, NEW r \in Requests, SyncDefaultBranch(r)
  PROVE  IInv'
<1> DEFINE x == req[r]
<1>1. Sound(x) /\ x \in Request /\ x.at = "branch" /\ UNCHANGED <<outside, row, vault, history>>
  BY MoverSound DEF IInv, SyncDefaultBranch, At
<1>2. PICK b \in DefaultBranch(x.token) :
        req' = [req EXCEPT ![r].conn.default = IF b = "none" THEN @ ELSE b, ![r].at = "upsert"]
  BY DEF SyncDefaultBranch
<1>3. b \in (Branches \cap named) \union {"none"}
  BY RepoRegistryAssumption DEF DefaultBranch, IInv, OutsideOK
<1> DEFINE d == IF b = "none" THEN x.conn.default ELSE b
           c == [x.conn EXCEPT !.default = d]
           y == [x EXCEPT !.conn = c, !.at = "upsert"]
<1>4. d \in Branches \union {"none"} /\ d \in named \union {"none"}
  BY <1>1, <1>3 DEF Request, Row, Sound, RefSeen
<1>5. req' = [req EXCEPT ![r] = y]
  BY <1>1, <1>2
<1> HIDE DEF d
<1>5a. c \in Row /\ c.status = x.conn.status /\ c.default = d
  BY <1>1, <1>4 DEF Request, Row
<1> HIDE DEF c
<1>6. /\ y \in Request /\ y.id = x.id /\ y.conn = c /\ y.token = x.token /\ y.at = "upsert"
      /\ y.asked = x.asked /\ y.ref = x.ref /\ y.then = x.then
  BY <1>1, <1>5a DEF Request, Points
<1> HIDE DEF y
<1>7. Sound(y)
  BY <1>1, <1>4, <1>5a, <1>6
  DEF Sound, Placed, SecretSeen, TokenGiven, StatusSeen, RefSeen, Backed, Holding, Falling, Fallback
<1>8. Ending(r, y)
  BY <1>1, Unstarted DEF IInv, Ending
<1> QED BY <1>1, <1>5, <1>7, <1>8, OnlyMoves

\* A branch is found only with a token the provider accepts.
LEMMA HeadEarned ==
  ASSUME NEW token, NEW b, "found" \in Head(token, b)
  PROVE  token \in Accepted
BY DEF Head

LEMMA ResolveHolds ==
  ASSUME IInv, NEW r \in Requests, ResolveHead(r) \/ ResolveRetry(r) \/ ResolveLast(r)
  PROVE  IInv'
<1> DEFINE x == req[r]
<1>1. /\ Sound(x) /\ x \in Request /\ x.at \in {"head", "retry", "last"}
      /\ UNCHANGED <<outside, row, vault, history>>
  BY MoverSound DEF IInv, ResolveHead, ResolveRetry, ResolveLast, At
<1>2. scans[r] = "none"
  BY <1>1, Unstarted DEF IInv
<1>3. x.token \in given[x.id] /\ (x.at # "head" => x.asked = "none")
  BY <1>1 DEF Sound, TokenGiven, Holding, Falling, RefSeen
<1>4. PICK answer \in Head(x.token, x.ref), point \in {"trigger", "default", "list", "failed"} :
        /\ Go(r, point)
        /\ point = "trigger" => answer = "found"
        /\ point \in {"default", "list"} => x.asked = "none"
  <2>1. CASE ResolveHead(r)
    <3>1. PICK answer \in Head(x.token, x.ref) :
            Go(r, CASE answer = "found"                        -> "trigger"
                    [] answer = "missing" /\ x.asked = "none" -> "default"
                    [] OTHER                                   -> "failed")
      BY <2>1 DEF ResolveHead
    <3> QED BY <3>1
  <2>2. CASE ResolveRetry(r)
    <3>1. PICK answer \in Head(x.token, x.ref) :
            Go(r, CASE answer = "found"   -> "trigger"
                    [] answer = "missing" -> "list"
                    [] OTHER              -> "failed")
      BY <2>2 DEF ResolveRetry
    <3>2. x.asked = "none"
      BY <1>3, <2>2 DEF ResolveRetry, At
    <3> QED BY <3>1, <3>2
  <2>3. CASE ResolveLast(r)
    <3>1. PICK answer \in Head(x.token, x.ref) :
            Go(r, IF answer = "found" THEN "trigger" ELSE "failed")
      BY <2>3 DEF ResolveLast
    <3> QED BY <3>1
  <2> QED BY <2>1, <2>2, <2>3
<1>5. point = "trigger" => x.token \in Accepted
  BY <1>4, HeadEarned
<1>6. MayGo(x, point)
  BY <1>1, <1>3, <1>4, <1>5 DEF MayGo, Points, Backed, Holding, Falling
<1> QED BY <1>1, <1>2, <1>4, <1>6, Goes

LEMMA FailHolds ==
  ASSUME IInv, NEW r \in Requests, Fail(r)
  PROVE  IInv'
<1>1. MayGo(req[r], "failed")
  BY DEF MayGo, Points, Backed, Holding, Falling
<1> QED BY <1>1, Goes DEF Fail

LEMMA ResolveDefaultHolds ==
  ASSUME IInv, NEW r \in Requests, ResolveDefault(r)
  PROVE  IInv'
<1> DEFINE x == req[r]
<1>1. Sound(x) /\ x \in Request /\ x.at = "default" /\ UNCHANGED <<outside, row, vault, history>>
  BY MoverSound DEF IInv, ResolveDefault, At
<1>2. PICK b \in DefaultBranch(x.token) :
        req' = IF b \in {"none", x.ref}
               THEN [req EXCEPT ![r].ref = b, ![r].at = "list"]
               ELSE [req EXCEPT ![r].conn.default = b, ![r].ref = b,
                                ![r].at = "upsert", ![r].then = "retry"]
  BY DEF ResolveDefault
<1>3. b \in Branches \union {"none"} /\ b \in named \union {"none"} /\ x.asked = "none"
  BY <1>1, RepoRegistryAssumption DEF DefaultBranch, IInv, OutsideOK, Sound, RefSeen, Falling
<1>4. \A y : Ending(r, y)
  BY <1>1, Unstarted DEF IInv, Ending
<1>5. CASE b \in {"none", x.ref}
  <2> DEFINE y == [x EXCEPT !.ref = b, !.at = "list"]
  <2>1. req' = [req EXCEPT ![r] = y]
    BY <1>1, <1>2, <1>5
  <2>2. /\ y \in Request /\ y.id = x.id /\ y.conn = x.conn /\ y.token = x.token /\ y.at = "list"
        /\ y.asked = x.asked /\ y.ref = b /\ y.then = x.then
    BY <1>1, <1>3 DEF Request, Points
  <2> HIDE DEF y
  <2>3. Sound(y)
    BY <1>1, <1>3, <2>2
    DEF Sound, Placed, SecretSeen, TokenGiven, StatusSeen, RefSeen, Backed, Holding, Falling, Fallback
  <2> QED BY <1>1, <1>4, <2>1, <2>3, OnlyMoves
<1>6. CASE b \notin {"none", x.ref}
  <2> DEFINE c == [x.conn EXCEPT !.default = b]
             y == [x EXCEPT !.conn = c, !.ref = b, !.at = "upsert", !.then = "retry"]
  <2>1. req' = [req EXCEPT ![r] = y]
    BY <1>1, <1>2, <1>6
  <2>2. c \in Row /\ c.status = x.conn.status /\ c.default = b
    BY <1>1, <1>3 DEF Request, Row
  <2> HIDE DEF c
  <2>3. /\ y \in Request /\ y.id = x.id /\ y.conn = c /\ y.token = x.token /\ y.at = "upsert"
        /\ y.asked = x.asked /\ y.ref = b /\ y.then = "retry"
    BY <1>1, <1>3, <2>2 DEF Request, Points
  <2> HIDE DEF y
  <2>4. Sound(y)
    BY <1>1, <1>3, <2>2, <2>3
    DEF Sound, Placed, SecretSeen, TokenGiven, StatusSeen, RefSeen, Backed, Holding, Falling, Fallback
  <2> QED BY <1>1, <1>4, <2>1, <2>4, OnlyMoves
<1> QED BY <1>5, <1>6

(* The only branch there is, is the default.                               *)
LEMMA OnlyBranch ==
  ASSUME OutsideOK, NEW token, NEW listed \in ListBranches(token), Cardinality(listed) = 1
  PROVE  (CHOOSE b \in listed : TRUE) = remote.default
<1>1. listed = remote.branches \/ listed = {}
  BY DEF ListBranches
<1>2. listed = remote.branches
  BY <1>1, FS_EmptySet
<1>3. IsFiniteSet(listed)
  BY <1>2, FS_Subset, RepoRegistryAssumption DEF OutsideOK
<1>4. PICK x : listed = {x}
  BY <1>3, FS_Singleton
<1>5. remote.default = x
  BY <1>2, <1>4 DEF OutsideOK
<1> QED BY <1>4, <1>5

LEMMA ResolveListedHolds ==
  ASSUME IInv, NEW r \in Requests, ResolveListed(r)
  PROVE  IInv'
<1> DEFINE x == req[r]
<1>1. Sound(x) /\ x \in Request /\ x.at = "list" /\ UNCHANGED <<outside, row, vault, history>>
  BY MoverSound DEF IInv, ResolveListed, At
<1>2. scans[r] = "none" /\ \A y : Ending(r, y)
  BY <1>1, Unstarted DEF IInv, Ending
<1>3. x.asked = "none" /\ x.token \in given[x.id]
  BY <1>1 DEF Sound, RefSeen, TokenGiven, Falling, Holding
<1>4. ASSUME NEW listed \in ListBranches(x.token), Cardinality(listed) = 1,
             LET only == CHOOSE b \in listed : TRUE
             IN  req' = [req EXCEPT ![r].conn.default = only, ![r].ref = only,
                                    ![r].at = "upsert", ![r].then = "last"]
      PROVE  IInv'
  <2> DEFINE only == CHOOSE b \in listed : TRUE
  <2>1. only = remote.default
    BY <1>4, OnlyBranch DEF IInv
  <2>2. only \in Branches /\ only \in named
    BY <2>1 DEF IInv, OutsideOK
  <2>3. req' = [req EXCEPT ![r].conn.default = only, ![r].ref = only,
                           ![r].at = "upsert", ![r].then = "last"]
    BY <1>4
  <2> HIDE DEF only
  <2> DEFINE c == [x.conn EXCEPT !.default = only]
             y == [x EXCEPT !.conn = c, !.ref = only, !.at = "upsert", !.then = "last"]
  <2>4. req' = [req EXCEPT ![r] = y]
    BY <1>1, <2>3
  <2>5. c \in Row /\ c.status = x.conn.status /\ c.default = only
    BY <1>1, <2>2 DEF Request, Row
  <2> HIDE DEF c
  <2>6. /\ y \in Request /\ y.id = x.id /\ y.conn = c /\ y.token = x.token /\ y.at = "upsert"
        /\ y.asked = x.asked /\ y.ref = only /\ y.then = "last"
    BY <1>1, <2>2, <2>5 DEF Request, Points
  <2> HIDE DEF y
  <2>7. Sound(y)
    BY <1>1, <1>3, <2>2, <2>5, <2>6
    DEF Sound, Placed, SecretSeen, TokenGiven, StatusSeen, RefSeen, Backed, Holding, Falling, Fallback
  <2> QED BY <1>1, <1>2, <2>4, <2>7, OnlyMoves
<1>5. ASSUME NEW point \in {"last", "failed"}, req' = [req EXCEPT ![r].at = point]
      PROVE  IInv'
  <2>1. MayGo(x, point)
    BY <1>1, <1>3, <1>5 DEF MayGo, Points, Backed, Holding, Falling
  <2>2. Go(r, point)
    BY <1>5 DEF Go
  <2> QED BY <1>1, <1>2, <2>1, <2>2, Goes
<1>6. PICK listed \in ListBranches(x.token) :
        req' = CASE Cardinality(listed) = 1 ->
                      LET only == CHOOSE b \in listed : TRUE
                      IN [req EXCEPT ![r].conn.default = only, ![r].ref = only,
                                     ![r].at = "upsert", ![r].then = "last"]
                 [] Cardinality(listed) # 1 /\ x.ref \in listed ->
                      [req EXCEPT ![r].at = "last"]
                 [] OTHER -> [req EXCEPT ![r].at = "failed"]
  BY DEF ResolveListed
<1>7. CASE Cardinality(listed) = 1
  BY <1>4, <1>6, <1>7
<1>8. CASE Cardinality(listed) # 1 /\ x.ref \in listed
  BY <1>5, <1>6, <1>8
<1>9. CASE Cardinality(listed) # 1 /\ x.ref \notin listed
  BY <1>5, <1>6, <1>9
<1> QED BY <1>7, <1>8, <1>9

LEMMA WriteSecretHolds ==
  ASSUME IInv, NEW r \in Requests, WriteSecret(r)
  PROVE  IInv'
<1> PICK x : x = req[r]
  OBVIOUS
<1>1. /\ Sound(x) /\ x \in Request /\ x.at = "secret"
      /\ UNCHANGED <<outside, row, deleting, declared, named, scans>>
  BY MoverSound DEF IInv, WriteSecret, At
<1>2. x.id \in Ids /\ x.token \in Tokens
  BY <1>1 DEF Sound, Placed
<1>3. /\ vault' = [vault EXCEPT ![x.id] = x.token]
      /\ given' = [given EXCEPT ![x.id] = @ \union {x.token}]
  BY DEF WriteSecret
<1>4. Grows
  BY <1>1, <1>2, <1>3, Names DEF Grows, IInv, VaultOK, HistoryOK
<1>5. (OutsideOK /\ HistoryOK /\ VaultOK)'
  BY <1>1, <1>2, <1>3 DEF IInv, OutsideOK, HistoryOK, VaultOK, outside
<1>6. RowsOK'
  <2>1. \A i \in Ids : row[i].status = "connected" => Earned(i)'
    BY <1>4, EarnedStays DEF IInv, RowsOK
  <2>2. SecretKept'
    BY <1>1, <1>2, <1>3, Names DEF IInv, RowsOK, VaultOK, SecretKept
  <2> QED BY <1>1, <2>1, <2>2 DEF IInv, RowsOK, OneRow
<1>7. PICK y : /\ req' = [req EXCEPT ![r] = y]
               /\ y = IF x.kind = "rotate" THEN [x EXCEPT !.at = "get", !.kind = "verify"]
                                           ELSE [x EXCEPT !.at = "verify"]
  BY <1>1 DEF WriteSecret
<1>8. /\ y \in Request /\ y.id = x.id /\ y.conn = x.conn /\ y.token = x.token
      /\ y.at \in {"get", "verify"} /\ y.asked = x.asked /\ y.ref = x.ref /\ y.then = x.then
      /\ y.at = "get" => y.kind = "verify"
  <2>1. CASE x.kind = "rotate"
    <3>1. y = [x EXCEPT !.at = "get", !.kind = "verify"]
      BY <1>7, <2>1
    <3>2. "get" \in Points /\ "verify" \in Kinds
      BY DEF Points, Kinds
    <3> QED BY <1>1, <3>1, <3>2, Zenon DEF Request
  <2>2. CASE x.kind # "rotate"
    <3>1. y = [x EXCEPT !.at = "verify"]
      BY <1>7, <2>2
    <3> QED BY <1>1, <3>1 DEF Request, Points, Kinds
  <2> QED BY <2>1, <2>2
<1>9. vault'[x.id] # "none" /\ x.token \in given'[x.id]
  BY <1>2, <1>3, Names DEF IInv, VaultOK, HistoryOK
<1>10. Sound(x)'
  BY <1>1, <1>4, SoundStays
<1>11. Sound(y)'
  BY <1>1, <1>2, <1>8, <1>9, <1>10
  DEF Sound, Placed, SecretSeen, TokenGiven, StatusSeen, RefSeen, Earned, Backed, Holding, Falling, Fallback
<1>12. Ending(r, y)
  BY <1>1, Unstarted DEF IInv, Ending
<1>13. RequestsOK'
  BY <1>1, <1>4, <1>7, <1>11, <1>12, RequestMoves DEF IInv
<1> QED BY <1>5, <1>6, <1>13 DEF IInv

LEMMA UpsertHolds ==
  ASSUME IInv, NEW r \in Requests, UpsertConnection(r)
  PROVE  IInv'
<1> PICK x : x = req[r]
  OBVIOUS
<1>1. Sound(x) /\ x \in Request /\ x.at = "upsert" /\ UNCHANGED <<outside, vault, history>>
  BY MoverSound DEF IInv, UpsertConnection, At
<1>2. x.id \in Ids /\ x.then \in {"done", "retry", "last"}
  BY <1>1 DEF Sound, Placed, Request
<1>3. scans[r] = "none"
  BY <1>1, Unstarted DEF IInv
<1>4. CASE ~(Registered \subseteq {x.id})
  <2>1. Go(r, "failed") /\ UNCHANGED row
    BY <1>4 DEF UpsertConnection
  <2>2. MayGo(x, "failed")
    BY DEF MayGo, Points, Backed, Holding, Falling
  <2> QED BY <1>1, <2>1, <2>2, Goes
<1>5. CASE Registered \subseteq {x.id}
  <2> DEFINE c == [x.conn EXCEPT !.exists = TRUE]
  <2>1. row' = [row EXCEPT ![x.id] = c] /\ Go(r, x.then)
    BY <1>5 DEF UpsertConnection
  <2>2. /\ c \in Row /\ c.exists = TRUE /\ c.status = x.conn.status /\ c.default = x.conn.default
    BY <1>1 DEF Request, Row
  <2> HIDE DEF c
  <2>3. Grows
    BY <1>1 DEF Grows, history
  <2>4. RowsOK'
    <3>1. row' \in [Ids -> Row]
      BY <2>1, <2>2 DEF IInv, RowsOK
    <3>2. OneRow'
      BY <1>2, <1>5, <2>1 DEF IInv, RowsOK, OneRow, Registered
    <3>3. SecretKept'
      BY <1>1, <1>2, <2>1 DEF IInv, RowsOK, SecretKept, Sound, SecretSeen, Backed, history
    <3>4. \A i \in Ids : row'[i].status = "connected" => Earned(i)'
      BY <1>1, <1>2, <2>1, <2>2 DEF IInv, RowsOK, Sound, StatusSeen, Earned, history
    <3>5. \A i \in Ids : row'[i].default \in named' \union {"none"}
      BY <1>1, <1>2, <2>1, <2>2 DEF IInv, RowsOK, Sound, RefSeen, history
    <3> QED BY <3>1, <3>2, <3>3, <3>4, <3>5 DEF RowsOK
  <2>5. MayGo(x, x.then)
    BY <1>1, <1>2 DEF MayGo, Points, Backed, Holding, Falling, Sound, TokenGiven, RefSeen, Fallback
  <2>6. PICK y : y = [x EXCEPT !.at = x.then]
    OBVIOUS
  <2>7. req' = [req EXCEPT ![r] = y]
    BY <2>1, <2>6 DEF Go
  <2>8. Sound(y)
    BY <1>1, <2>5, <2>6, PointSound
  <2>9. Sound(y)'
    BY <2>3, <2>8, SoundStays
  <2>10. Ending(r, y)
    BY <1>3 DEF Ending
  <2>11. RequestsOK'
    BY <1>1, <2>3, <2>7, <2>9, <2>10, RequestMoves DEF IInv, history
  <2>12. (OutsideOK /\ HistoryOK /\ VaultOK)'
    BY <1>1 DEF IInv, OutsideOK, HistoryOK, VaultOK, outside, history
  <2> QED BY <2>4, <2>11, <2>12 DEF IInv
<1> QED BY <1>4, <1>5

LEMMA DeleteSecretHolds ==
  ASSUME IInv, NEW r \in Requests, DeleteSecret(r)
  PROVE  IInv'
<1> PICK x : x = req[r]
  OBVIOUS
<1>1. /\ Sound(x) /\ x \in Request /\ x.at = "unsecret"
      /\ UNCHANGED <<outside, row, given, declared, named, scans>>
  BY MoverSound DEF IInv, DeleteSecret, At
<1>2. x.id \in Ids /\ scans[r] = "none"
  BY <1>1, Unstarted DEF Sound, Placed, IInv
<1>3. /\ vault' = [vault EXCEPT ![x.id] = "none"] /\ deleting' = deleting \union {x.id}
      /\ Go(r, "unrow")
  BY DEF DeleteSecret
<1>4. Grows
  BY <1>1, <1>2, <1>3 DEF Grows, IInv, VaultOK, HistoryOK
<1>5. (OutsideOK /\ HistoryOK /\ VaultOK)'
  BY <1>1, <1>2, <1>3 DEF IInv, OutsideOK, HistoryOK, VaultOK, outside
<1>6. RowsOK'
  <2>1. SecretKept'
    BY <1>1, <1>2, <1>3 DEF IInv, RowsOK, VaultOK, SecretKept
  <2>2. \A i \in Ids : row[i].status = "connected" => Earned(i)'
    BY <1>4, EarnedStays DEF IInv, RowsOK
  <2> QED BY <1>1, <2>1, <2>2 DEF IInv, RowsOK, OneRow
<1>7. MayGo(x, "unrow")
  BY <1>1 DEF MayGo, Points, Backed, Holding, Falling
<1>8. PICK y : y = [x EXCEPT !.at = "unrow"]
  OBVIOUS
<1>9. Sound(y)
  BY <1>1, <1>7, <1>8, PointSound
<1>10. Sound(y)'
  BY <1>4, <1>9, SoundStays
<1>11. req' = [req EXCEPT ![r] = y] /\ Ending(r, y)
  BY <1>2, <1>3, <1>8 DEF Go, Ending
<1>12. RequestsOK'
  BY <1>1, <1>4, <1>10, <1>11, RequestMoves DEF IInv
<1> QED BY <1>5, <1>6, <1>12 DEF IInv

(* A row that goes, or is told its last scan, is no less in order.         *)
LEMMA RowHolds ==
  ASSUME IInv, NEW r \in Requests, DeleteRow(r) \/ MarkScanned(r)
  PROVE  IInv'
<1> PICK x : x = req[r]
  OBVIOUS
<1>1. /\ Sound(x) /\ x \in Request /\ x.at \in {"unrow", "mark"}
      /\ UNCHANGED <<outside, vault, history>> /\ Go(r, "done")
  BY MoverSound DEF IInv, DeleteRow, MarkScanned, At
<1>2. x.id \in Ids
  BY <1>1 DEF Sound, Placed
<1>3. \E c \in Row : /\ row' = [row EXCEPT ![x.id] = c]
                     /\ c.exists => row[x.id].exists
                     /\ c.status = "connected" => row[x.id].status = "connected"
                     /\ c.default \in {row[x.id].default, "none"}
  <2>1. CASE DeleteRow(r)
    <3>1. row' = [row EXCEPT ![x.id] = None]
      BY <2>1 DEF DeleteRow
    <3> QED BY <3>1, IdleTyped DEF None
  <2>2. CASE MarkScanned(r)
    <3>1. row[x.id] \in Row
      BY <1>2 DEF IInv, RowsOK
    <3>2. CASE row[x.id].exists
      <4> DEFINE c == [row[x.id] EXCEPT !.scan = r]
      <4>1. /\ c \in Row /\ c.exists = row[x.id].exists /\ c.status = row[x.id].status
            /\ c.default = row[x.id].default
        BY <3>1 DEF Row
      <4>2. row' = [row EXCEPT ![x.id] = c]
        BY <2>2, <3>2 DEF MarkScanned
      <4> HIDE DEF c
      <4> QED BY <4>1, <4>2
    <3>3. CASE ~row[x.id].exists
      <4>1. row' = row
        BY <2>2, <3>3 DEF MarkScanned
      <4>2. row' = [row EXCEPT ![x.id] = row[x.id]]
        BY <1>2, <4>1 DEF IInv, RowsOK
      <4> QED BY <3>1, <4>2
    <3> QED BY <3>2, <3>3
  <2> QED BY <1>1, <2>1, <2>2
<1>4. RowsOK'
  <2>1. row' \in [Ids -> Row]
    BY <1>2, <1>3 DEF IInv, RowsOK
  <2>2. OneRow'
    BY <1>2, <1>3 DEF IInv, RowsOK, OneRow
  <2>3. SecretKept'
    BY <1>1, <1>2, <1>3 DEF IInv, RowsOK, SecretKept, history
  <2>4. \A i \in Ids : row'[i].status = "connected" => Earned(i)'
    BY <1>1, <1>2, <1>3 DEF IInv, RowsOK, Earned, history
  <2>5. \A i \in Ids : row'[i].default \in named' \union {"none"}
    BY <1>1, <1>2, <1>3 DEF IInv, RowsOK, history
  <2> QED BY <2>1, <2>2, <2>3, <2>4, <2>5 DEF RowsOK
<1>5. Grows
  BY <1>1 DEF Grows, history
<1>6. MayGo(x, "done")
  BY <1>1 DEF MayGo, Points, Backed, Holding, Falling
<1>7. PICK y : y = [x EXCEPT !.at = "done"]
  OBVIOUS
<1>8. Sound(y)
  BY <1>1, <1>6, <1>7, PointSound
<1>9. Sound(y)'
  BY <1>5, <1>8, SoundStays
<1>10. req' = [req EXCEPT ![r] = y]
  BY <1>1, <1>7 DEF Go
<1>11. Ending(r, y)
  BY <1>1, <1>7 DEF Ending, Request
<1>12. RequestsOK'
  BY <1>1, <1>5, <1>9, <1>10, <1>11, RequestMoves DEF IInv, history
<1>13. (OutsideOK /\ HistoryOK /\ VaultOK)'
  BY <1>1 DEF IInv, OutsideOK, HistoryOK, VaultOK, outside, history
<1> QED BY <1>4, <1>12, <1>13 DEF IInv

LEMMA TriggerHolds ==
  ASSUME IInv, NEW r \in Requests, Trigger(r)
  PROVE  IInv'
<1> PICK x : x = req[r]
  OBVIOUS
<1>1. /\ Sound(x) /\ x \in Request /\ x.at = "trigger" /\ scans[r] = "none"
      /\ UNCHANGED <<outside, row, vault, deleting, given, declared, named>>
  BY MoverSound, Unstarted DEF IInv, Trigger, At
<1>2. CASE UNCHANGED scans
  <2>1. Go(r, "failed") \/ Go(r, "mark")
    BY DEF Trigger
  <2>2. MayGo(x, "failed") /\ MayGo(x, "mark")
    BY <1>1 DEF MayGo, Points, Backed, Holding, Falling
  <2>3. PICK y : (y = [x EXCEPT !.at = "failed"] \/ y = [x EXCEPT !.at = "mark"])
                 /\ req' = [req EXCEPT ![r] = y]
    BY <2>1 DEF Go
  <2>4. Sound(y) /\ Ending(r, y)
    BY <1>1, <2>2, <2>3, PointSound DEF Ending
  <2> QED BY <1>1, <1>2, <2>3, <2>4, OnlyMoves DEF history
<1>3. CASE scans' # scans
  <2>1. scans' = [scans EXCEPT ![r] = x.ref] /\ Go(r, "mark")
    BY <1>3 DEF Trigger
  <2>2. PICK y : y = [x EXCEPT !.at = "mark"]
    OBVIOUS
  <2>3. MayGo(x, "mark")
    BY <1>1 DEF MayGo, Points, Backed, Holding, Falling
  <2>4. Grows
    BY <1>1 DEF Grows
  <2>5. Sound(y)
    BY <1>1, <2>2, <2>3, PointSound
  <2>6. Sound(y)'
    BY <2>4, <2>5, SoundStays
  <2>7. req' = [req EXCEPT ![r] = y]
    BY <2>1, <2>2 DEF Go
  <2>8. /\ y.at = "mark" /\ y.id = x.id /\ y.asked = x.asked /\ y.token = x.token
        /\ x.ref \in Branches \union {"none"} /\ y \in Request
    BY <1>1, <2>2, <2>5 DEF Request, Sound, Placed
  <2>9. HistoryOK'
    BY <1>1, <2>1, <2>8 DEF IInv, HistoryOK
  <2>10. \A q \in Requests : ScanShown(q)'
    <3> TAKE q \in Requests
    <3>1. CASE q # r
      <4>1. req'[q] = req[q] /\ scans'[q] = scans[q] /\ ScanShown(q)
        BY <2>1, <2>7, <3>1 DEF IInv, RequestsOK, HistoryOK
      <4> QED BY <1>1, <4>1 DEF ScanShown
    <3>2. CASE q = r
      <4>1. req'[r] = y /\ scans'[r] = x.ref
        BY <2>1, <2>7 DEF IInv, RequestsOK, HistoryOK
      <4>2. /\ x.token \in Accepted \cap given[x.id] /\ x.id \in Ids
            /\ x.asked # "none" => x.ref = x.asked
            /\ x.asked = "none" => x.ref \in named \union {"none"}
        BY <1>1 DEF Sound, Placed, TokenGiven, RefSeen, Holding
      <4> QED BY <1>1, <2>8, <3>2, <4>1, <4>2 DEF ScanShown
    <3> QED BY <3>1, <3>2
  <2>11. \A q \in Requests : Sound(req[q])'
    <3> TAKE q \in Requests
    <3>1. CASE q = r
      BY <2>6, <2>7, <3>1 DEF IInv, RequestsOK
    <3>2. CASE q # r
      <4>1. PICK z : z = req[q]
        OBVIOUS
      <4>2. Sound(z)
        BY <4>1 DEF IInv, RequestsOK
      <4>3. Sound(z)'
        BY <2>4, <4>2, SoundStays
      <4>4. req'[q] = z
        BY <2>7, <3>2, <4>1 DEF IInv, RequestsOK
      <4> QED BY <4>3, <4>4
    <3> QED BY <3>1, <3>2
  <2>12. RequestsOK'
    BY <2>7, <2>8, <2>10, <2>11 DEF IInv, RequestsOK
  <2>13. (OutsideOK /\ VaultOK /\ RowsOK)'
    BY <1>1 DEF IInv, OutsideOK, VaultOK, RowsOK, OneRow, SecretKept, Earned, outside
  <2> QED BY <2>9, <2>12, <2>13 DEF IInv
<1> QED BY <1>2, <1>3

LEMMA NextHolds == IInv /\ [Next]_vars => IInv'
<1> SUFFICES ASSUME IInv, [Next]_vars PROVE IInv'
  OBVIOUS
<1>1. ASSUME NEW r \in Requests, Arrive(r) PROVE IInv'
  BY <1>1, ArriveHolds
<1>2. ASSUME NEW r \in Requests, Handle(r) PROVE IInv'
  BY <1>2, LookupHolds, GetHolds, WriteSecretHolds, ReadSecretHolds, VerifyHolds, SyncHolds, UpsertHolds,
     DeleteSecretHolds, RowHolds, ResolveHolds, ResolveDefaultHolds, ResolveListedHolds, TriggerHolds DEF Handle
<1>3. ASSUME NEW r \in Requests, Fail(r) PROVE IInv'
  BY <1>3, FailHolds
<1>4. ASSUME NEW b \in Branches, Rename(b) PROVE IInv'
  BY <1>4, RenameHolds
<1>5. CASE UNCHANGED vars
  BY <1>5 DEF vars, outside, history, IInv, OutsideOK, HistoryOK, VaultOK, RowsOK, OneRow, SecretKept, Earned,
     RequestsOK, Sound, Placed, SecretSeen, TokenGiven, StatusSeen, RefSeen, ScanShown
<1> QED BY <1>1, <1>2, <1>3, <1>4, <1>5 DEF Next

(* The strengthened invariant: what a request carries is sound.            *)
THEOREM RegistryInvariant == Spec => []IInv
<1> QED BY InitHolds, NextHolds, PTL DEF Spec

(* Every variable keeps its type, for any number of requests.              *)
THEOREM RegistryTypeCorrect == Spec => []TypeOK
<1>1. IInv => TypeOK
  BY DEF IInv, OutsideOK, HistoryOK, VaultOK, RowsOK, RequestsOK, TypeOK
<1> QED BY <1>1, RegistryInvariant, PTL

(* A row has its secret behind it unless its deletion has begun, whatever  *)
(* interleaves and fails (register, rotate_token, delete_connection).      *)
THEOREM SecretKeptHolds == Spec => []SecretKept
<1>1. IInv => SecretKept
  BY DEF IInv, RowsOK
<1> QED BY <1>1, RegistryInvariant, PTL

(* The registry calls a connection CONNECTED only over a token the         *)
(* provider accepted, however old the copy of the row is                   *)
(* (verify_connection, upsert_connection); an update's body may declare it.*)
THEOREM StatusEarnedHolds == Spec => []StatusEarned
<1>1. IInv => StatusEarned
  BY DEF IInv, RowsOK, StatusEarned, Earned
<1> QED BY <1>1, RegistryInvariant, PTL

(* A scan reads the branch asked for or one that has been called the       *)
(* default (_resolve_head_sha), with an accepted token handed in for the   *)
(* connection.                                                             *)
THEOREM ScanReadsHolds == Spec => []ScanReads
<1>1. IInv => ScanReads
  BY DEF IInv, RequestsOK, ScanShown, ScanReads
<1> QED BY <1>1, RegistryInvariant, PTL

(* Only an upsert brings a row into being, and only where there is no      *)
(* other.                                                                  *)
LEMMA RowStep ==
  ASSUME IInv, [Next]_vars, NEW i \in Ids, NEW j \in Ids, row[i].exists, row'[j].exists
  PROVE  i = j
<1>1. CASE row' = row
  BY <1>1 DEF IInv, RowsOK, OneRow
<1>2. ASSUME NEW r \in Requests, UpsertConnection(r), row' # row
      PROVE  i = j
  <2>1. Registered \subseteq {req[r].id}
    BY <1>2 DEF UpsertConnection
  <2>2. i = req[r].id
    BY <2>1 DEF Registered
  <2>3. CASE j # req[r].id
    <3>1. row'[j] = row[j]
      BY <1>2, <2>1, <2>3 DEF UpsertConnection, IInv, RowsOK
    <3> QED BY <3>1 DEF IInv, RowsOK, OneRow
  <2> QED BY <2>2, <2>3
<1>3. ASSUME NEW r \in Requests, DeleteRow(r) \/ MarkScanned(r), row' # row
      PROVE  i = j
  <2>1. req[r].id \in Ids
    BY <1>3, MoverSound DEF IInv, DeleteRow, MarkScanned, At, Sound, Placed
  <2>2. row'[j].exists => row[j].exists
    <3>1. CASE DeleteRow(r)
      BY <2>1, <3>1 DEF DeleteRow, None, IInv, RowsOK
    <3>2. CASE MarkScanned(r)
      <4>1. row' = [row EXCEPT ![req[r].id].scan = r] /\ row[req[r].id] \in Row
        BY <1>3, <2>1, <3>2 DEF MarkScanned, IInv, RowsOK
      <4>2. row'[j].exists = row[j].exists
        BY <2>1, <4>1 DEF IInv, RowsOK, Row
      <4> QED BY <4>2
    <3> QED BY <1>3, <3>1, <3>2
  <2> QED BY <2>2 DEF IInv, RowsOK, OneRow
<1>4. \/ row' = row
      \/ \E r \in Requests : UpsertConnection(r) \/ DeleteRow(r) \/ MarkScanned(r)
  BY ZenonT(60) DEF Next, vars, Arrive, Handle, Connect, OnConnection, Rotate, ScanRepo, Update, Lookup, Get, WriteSecret,
     ReadSecret, VerifyConnection, SyncDefaultBranch, DeleteSecret, ResolveHead, ResolveDefault, ResolveRetry,
     ResolveListed, ResolveLast, Trigger, Fail, Rename
<1> QED BY <1>1, <1>2, <1>3, <1>4

(* A repository never gets a second connection beside the one it has       *)
(* (register, and the unique index its upsert runs into).                  *)
THEOREM ConnectionKeptHolds == Spec => ConnectionKept
<1>1. IInv /\ [Next]_vars => [\A i, j \in Ids : row[i].exists /\ row'[j].exists => i = j]_vars
  BY RowStep
<1> QED BY <1>1, RegistryInvariant, PTL DEF Spec, ConnectionKept
=============================================================================

---------------------------- MODULE AccessKeys -----------------------------
(***************************************************************************)
(* Administrators and API keys (server/src/keys.js).  A request resolves   *)
(* its caller with one query and acts with another, so that a revocation   *)
(* can fall between the two; uses of an API key are counted by updates     *)
(* nobody waits for.                                                       *)
(***************************************************************************)
EXTENDS Integers, Sequences, FiniteSets

CONSTANTS
  Root,       \* the holder of ADMIN_TOKEN
  Admin,      \* named admins, by token
  Key,        \* API keys
  Request,    \* admin requests that may be in flight together
  MaxActs,    \* bound: admin requests
  MaxUses     \* bound: requests with one API key

NoOne == "none"

\* What the constants have to satisfy.
KeysAssumption ==
  /\ Root \notin Admin /\ NoOne \notin Admin \cup {Root} /\ IsFiniteSet(Request)
  /\ MaxActs \in Nat /\ MaxUses \in Nat

VARIABLES
  admins,     \* admins: absent, live or revoked
  keys,       \* api_keys: who created it, revoked_at (0 is NULL), request_count
  request,    \* requests past adminAuth: their caller and what they ask for
  counting,   \* UPDATEs of request_count under way, with the row read
  acts,       \* the clock: admin requests so far
  served,     \* history: requests let through, by key
  lost,       \* history: counts that failed
  window,     \* history: an admin's requests in flight when it was revoked
  after       \* history: keys and revocations by an admin after that

vars == <<admins, keys, request, counting, acts, served, lost, window, after>>

Absent == [by |-> NoOne, revoked |-> 0, count |-> 0]
Idle == [who |-> NoOne, op |-> "none"]
Ops == {"mint key", "revoke key", "mint admin", "revoke admin"}
InFlight(x) == Cardinality({r \in Request : request[r].who = x})
Exists(k) == keys[k].by # NoOne

TypeOK ==
  /\ admins \in [Admin -> {"absent", "live", "revoked"}]
  /\ keys \in [Key -> [by : {NoOne, Root} \cup Admin, revoked : 0..MaxActs, count : 0..MaxUses]]
  /\ request \in [Request -> {Idle} \cup [who : {Root} \cup Admin, op : Ops]]
  /\ counting \in [Key -> Seq(0..MaxUses)]
  /\ acts \in 0..MaxActs /\ served \in [Key -> 0..MaxUses] /\ lost \in [Key -> 0..MaxUses]

Init ==
  /\ admins = [x \in Admin |-> "absent"] /\ keys = [k \in Key |-> Absent]
  /\ request = [r \in Request |-> Idle] /\ counting = [k \in Key |-> <<>>] /\ acts = 0
  /\ served = [k \in Key |-> 0] /\ lost = [k \in Key |-> 0]
  /\ window = [x \in Admin |-> 0] /\ after = [x \in Admin |-> 0]

---------------------------------------------------------------------------
\* A mutant of Resolves: revoked_at is not looked at.
ResolvesRevoked(who) == who = Root \/ (who \in Admin /\ admins[who] # "absent")

\* resolveAdmin: ADMIN_TOKEN, or a row that is not revoked.
Resolves(who) == who = Root \/ (who \in Admin /\ admins[who] = "live")

\* A mutant of Allowed: the admin routes lack rootOnly.
AllowedAll(who, op) == TRUE

\* rootOnly guards the routes about admins.
Allowed(who, op) == op \in {"mint admin", "revoke admin"} => who = Root

\* adminAuth, and rootOnly where the route has it.
Enter(r, who, op) ==
  /\ request[r] = Idle /\ Cardinality({s \in Request : request[s] # Idle}) + acts < MaxActs
  /\ Resolves(who) /\ Allowed(who, op)
  /\ request' = [request EXCEPT ![r] = [who |-> who, op |-> op]]
  /\ UNCHANGED <<admins, keys, counting, acts, served, lost, window, after>>

\* The handler of r asks for op; it ends, whatever it finds.
Act(r, op) ==
  /\ request[r].op = op /\ acts' = acts + 1
  /\ request' = [request EXCEPT ![r] = Idle]
  /\ UNCHANGED <<counting, served, lost>>

Late(r) == after' = [x \in Admin |->
  IF x = request[r].who /\ admins[x] = "revoked" THEN after[x] + 1 ELSE after[x]]

MintKey(r) ==
  /\ Act(r, "mint key") /\ Late(r)
  /\ \E k \in Key : ~Exists(k) /\ keys' = [keys EXCEPT ![k].by = request[r].who]
  /\ UNCHANGED <<admins, window>>

\* A mutant of Revocable: the statement does not ask for revoked_at IS NULL.
RevocableAgain(k) == Exists(k)

Revocable(k) == Exists(k) /\ keys[k].revoked = 0

RevokeKey(r) ==
  /\ Act(r, "revoke key") /\ Late(r)
  /\ \E k \in Key : keys' = IF Revocable(k) THEN [keys EXCEPT ![k].revoked = acts'] ELSE keys
  /\ UNCHANGED <<admins, window>>

MintAdmin(r) ==
  /\ Act(r, "mint admin") /\ Late(r)
  /\ \E x \in Admin : admins[x] = "absent" /\ admins' = [admins EXCEPT ![x] = "live"]
  /\ UNCHANGED <<keys, window>>

RevokeAdmin(r) ==
  /\ Act(r, "revoke admin") /\ Late(r)
  /\ \E x \in Admin :
       IF admins[x] = "live"
       THEN admins' = [admins EXCEPT ![x] = "revoked"] /\ window' = [window EXCEPT ![x] = InFlight(x)]
       ELSE UNCHANGED <<admins, window>>
  /\ UNCHANGED keys

---------------------------------------------------------------------------
\* requireApiKey lets a live key through and starts to count the use.
Use(k) ==
  /\ Exists(k) /\ keys[k].revoked = 0 /\ served[k] < MaxUses
  /\ served' = [served EXCEPT ![k] = @ + 1]
  /\ counting' = [counting EXCEPT ![k] = Append(@, keys[k].count)]
  /\ UNCHANGED <<admins, keys, request, acts, lost, window, after>>

\* A mutant of Counted: the count that was read is written back plus one.
CountedRead(k) == Head(counting[k]) + 1

\* A mutant of Counted: each update adds all the uses that wait.
CountedWaiting(k) == keys[k].count + Len(counting[k])

\* request_count = request_count + 1, in the database.
Counted(k) == keys[k].count + 1

CountLands(k) ==
  /\ counting[k] # <<>>
  /\ keys' = [keys EXCEPT ![k].count = Counted(k)]
  /\ counting' = [counting EXCEPT ![k] = Tail(@)]
  /\ UNCHANGED <<admins, request, acts, served, lost, window, after>>

\* .catch(() => {})
CountFails(k) ==
  /\ counting[k] # <<>>
  /\ counting' = [counting EXCEPT ![k] = Tail(@)] /\ lost' = [lost EXCEPT ![k] = @ + 1]
  /\ UNCHANGED <<admins, keys, request, acts, served, window, after>>

Next ==
  \/ \E r \in Request :
       \/ \E who \in {Root} \cup Admin, op \in Ops : Enter(r, who, op)
       \/ MintKey(r) \/ RevokeKey(r) \/ MintAdmin(r) \/ RevokeAdmin(r)
  \/ \E k \in Key : Use(k) \/ CountLands(k) \/ CountFails(k)

Spec == Init /\ [][Next]_vars

---------------------------------------------------------------------------
(* Properties. *)

\* A revoked admin can finish the requests that had been let in, and no other:
\* what it did since, and what it has under way, was in flight at the revocation.
BoundedByInFlight == \A x \in Admin :
  admins[x] = "revoked" => after[x] + InFlight(x) <= window[x]

\* Only root makes and unmakes admins, however requests overlap.
AdminsByRoot == \A r \in Request :
  (request[r] # Idle /\ request'[r] = Idle /\ admins' # admins) => request[r].who = Root

\* A key that was revoked keeps its revocation, and the time of it.
KeepsRevocations == \A k \in Key : keys[k].revoked # 0 => keys'[k].revoked = keys[k].revoked

\* Every request let through is counted, is being counted, or lost its count.
EveryUseCounted == \A k \in Key : keys[k].count + Len(counting[k]) + lost[k] = served[k]

\* What a revocation ends, and what is counted.
RevocationBinds == BoundedByInFlight /\ EveryUseCounted

\* What no step may undo.
RevocationStands == KeepsRevocations /\ AdminsByRoot
=============================================================================

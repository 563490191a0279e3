---------------------------- MODULE VersionCache ----------------------------
(***************************************************************************)
(* The read-through cache of app/common/cache: a value is stored under a   *)
(* key made of the global epoch and of the version of its record, and a    *)
(* writer invalidates it after its commit by incrementing one of the two.  *)
(* Every call to Redis is a step of its own, may fail, and what a reader   *)
(* stores was built while others wrote and invalidated.                    *)
(***************************************************************************)
EXTENDS Integers

CONSTANTS
    Requests,         \* requests that read
    Writers,          \* requests that invalidate
    VersionReadsFail, \* whether Redis may fail the read of a version
    MaxWrites,        \* bound: commits of the record
    MaxVersion,       \* bound: increments of a version
    Null

Counters == {"epoch", "record"}

ASSUME CacheAssumption ==
    /\ VersionReadsFail \in BOOLEAN
    /\ MaxWrites \in Nat /\ MaxVersion \in Nat \ {0}
    /\ Null \notin Nat /\ Null \notin Counters

Versions == 1..MaxVersion

VARIABLES
    db,        \* how many times the record was committed
    ver,       \* counter -> its value in Redis, 0 when there is no key
    bumping,   \* writer -> the counter it has to increment again, or Null
    promised,  \* history: counter, version -> the commits when it was reached
    cached,    \* epoch, version -> the commits in the value in Redis, or Null
    local,     \* request -> the same, of its local cache
    pc,        \* request -> where it is in get_or_build
    key,       \* request -> the epoch and the version it read
    built,     \* request -> what its builder returned
    since,     \* history: request -> the floor when it began
    got        \* request -> what get_or_build returned, Null while it runs

vars == <<db, ver, bumping, promised, cached, local, pc, key, built, since, got>>
readers == <<cached, local, pc, key, built, since, got>>

Empty == [e \in Versions |-> [v \in Versions |-> Null]]

Blank == [epoch |-> 1, record |-> 1]

Init ==
    /\ db = 0
    /\ ver = [c \in Counters |-> 0]
    /\ bumping = [w \in Writers |-> Null]
    /\ promised = [c \in Counters |-> [n \in Versions |-> 0]]
    /\ cached = Empty
    /\ local = [r \in Requests |-> Empty]
    /\ pc = [r \in Requests |-> "idle"]
    /\ key = [r \in Requests |-> Blank]
    /\ built = [r \in Requests |-> 0]
    /\ since = [r \in Requests |-> 0]
    /\ got = [r \in Requests |-> 0]

(* get_version: a missing key reads as 1, and so does a failed read.       *)
Seen(c) == IF ver[c] = 0 THEN 1 ELSE ver[c]
Reads(c) == {Seen(c)} \cup (IF VersionReadsFail THEN {1} ELSE {})

(* The commits that invalidations had taken into account when an epoch and *)
(* a version were reached, and those they have taken into account so far.  *)
Reached(e, v) == IF promised["epoch"][e] < promised["record"][v]
                 THEN promised["record"][v] ELSE promised["epoch"][e]
Floor == Reached(Seen("epoch"), Seen("record"))

-----------------------------------------------------------------------------
(* Writers.                                                                *)

Write ==
    /\ db < MaxWrites /\ db' = db + 1
    /\ UNCHANGED <<ver, bumping, promised, readers>>

(* Mutant: one increment is enough.                                        *)
BumpOnce(w, c) ==
    /\ bumping[w] = Null /\ ver[c] < MaxVersion
    /\ ver' = [ver EXCEPT ![c] = @ + 1]
    /\ promised' = [promised EXCEPT ![c][ver[c] + 1] = db]
    /\ UNCHANGED <<db, bumping, readers>>

(* bump_version: the increment that makes a missing key 1 is repeated.     *)
Bump(w, c) ==
    /\ bumping[w] = Null /\ ver[c] < MaxVersion
    /\ ver' = [ver EXCEPT ![c] = @ + 1]
    /\ IF ver[c] = 0 THEN bumping' = [bumping EXCEPT ![w] = c] /\ UNCHANGED promised
       ELSE promised' = [promised EXCEPT ![c][ver[c] + 1] = db] /\ UNCHANGED bumping
    /\ UNCHANGED <<db, readers>>

BumpAgain(w, c) ==
    /\ bumping[w] = c /\ ver[c] < MaxVersion
    /\ ver' = [ver EXCEPT ![c] = @ + 1]
    /\ promised' = [promised EXCEPT ![c][ver[c] + 1] = db]
    /\ bumping' = [bumping EXCEPT ![w] = Null]
    /\ UNCHANGED <<db, readers>>

(* Redis fails the second increment, or the process ends before it.        *)
BumpFails(w) ==
    /\ bumping[w] # Null
    /\ bumping' = [bumping EXCEPT ![w] = Null]
    /\ UNCHANGED <<db, ver, promised, readers>>

-----------------------------------------------------------------------------
(* get_or_build_detail, get_or_build_list and get_or_build_user_profile.   *)

Goto(r, l) == pc' = [pc EXCEPT ![r] = l]
Return(r, g) ==
    /\ Goto(r, "idle")
    /\ got' = [got EXCEPT ![r] = g]
    /\ key' = [key EXCEPT ![r] = Blank]
    /\ built' = [built EXCEPT ![r] = 0]

Begin(r) ==
    /\ pc[r] = "idle"
    /\ Goto(r, "epoch")
    /\ since' = [since EXCEPT ![r] = Floor]
    /\ got' = [got EXCEPT ![r] = Null]
    /\ UNCHANGED <<db, ver, bumping, promised, cached, local, key, built>>

ReadEpoch(r) ==
    /\ pc[r] = "epoch"
    /\ \E e \in Reads("epoch") : key' = [key EXCEPT ![r].epoch = e]
    /\ Goto(r, "version")
    /\ UNCHANGED <<db, ver, bumping, promised, cached, local, built, since, got>>

ReadVersion(r) ==
    /\ pc[r] = "version"
    /\ \E v \in Reads("record") : key' = [key EXCEPT ![r].record = v]
    /\ Goto(r, "lookup")
    /\ UNCHANGED <<db, ver, bumping, promised, cached, local, built, since, got>>

(* Mutant: what Redis answers is returned without a look at it.            *)
HitUnchecked(r) ==
    /\ pc[r] = "lookup"
    /\ Return(r, cached[key[r].epoch][key[r].record])
    /\ UNCHANGED <<db, ver, bumping, promised, cached, local, since>>

(* get_json: the request's own cache, then Redis, whose failure is a miss. *)
Hit(r) ==
    /\ pc[r] = "lookup"
    /\ LET e == key[r].epoch
           v == key[r].record
       IN \/ /\ local[r][e][v] # Null
             /\ Return(r, local[r][e][v])
             /\ UNCHANGED local
          \/ /\ local[r][e][v] = Null /\ cached[e][v] # Null
             /\ Return(r, cached[e][v])
             /\ local' = [local EXCEPT ![r][e][v] = cached[e][v]]
    /\ UNCHANGED <<db, ver, bumping, promised, cached, since>>

Miss(r) ==
    /\ pc[r] = "lookup" /\ local[r][key[r].epoch][key[r].record] = Null
    /\ Goto(r, "build")
    /\ UNCHANGED <<db, ver, bumping, promised, cached, local, key, built, since, got>>

Build(r) ==
    /\ pc[r] = "build"
    /\ built' = [built EXCEPT ![r] = db]
    /\ Goto(r, "store")
    /\ UNCHANGED <<db, ver, bumping, promised, cached, local, key, since, got>>

(* set_json: under the key read before the build, unless Redis fails; its  *)
(* answer may also be lost once the value is stored.                       *)
Store(r) ==
    /\ pc[r] = "store"
    /\ LET e == key[r].epoch
           v == key[r].record
       IN \/ /\ cached' = [cached EXCEPT ![e][v] = built[r]]
             /\ local' \in {local, [local EXCEPT ![r][e][v] = built[r]]}
          \/ UNCHANGED <<cached, local>>
    /\ Return(r, built[r])
    /\ UNCHANGED <<db, ver, bumping, promised, since>>

(* The time to live of a value, and the end of a request.                  *)
Expire(e, v) ==
    /\ cached[e][v] # Null
    /\ cached' = [cached EXCEPT ![e][v] = Null]
    /\ UNCHANGED <<db, ver, bumping, promised, local, pc, key, built, since, got>>

EndRequest(r) ==
    /\ pc[r] = "idle" /\ local[r] # Empty
    /\ local' = [local EXCEPT ![r] = Empty]
    /\ UNCHANGED <<db, ver, bumping, promised, cached, pc, key, built, since, got>>

Next ==
    \/ Write
    \/ \E w \in Writers : BumpFails(w) \/ \E c \in Counters : Bump(w, c) \/ BumpAgain(w, c)
    \/ \E r \in Requests : \/ Begin(r) \/ ReadEpoch(r) \/ ReadVersion(r) \/ Hit(r) \/ Miss(r)
                           \/ Build(r) \/ Store(r) \/ EndRequest(r)
    \/ \E e, v \in Versions : Expire(e, v)

Spec == Init /\ [][Next]_vars

-----------------------------------------------------------------------------
Values == 0..MaxWrites
Table == [Versions -> [Versions -> Values \cup {Null}]]

(* Type invariant of the counters, the caches and the requests.            *)
TypeOK ==
    /\ db \in Values
    /\ ver \in [Counters -> 0..MaxVersion]
    /\ bumping \in [Writers -> Counters \cup {Null}]
    /\ promised \in [Counters -> [Versions -> Values]]
    /\ cached \in Table
    /\ local \in [Requests -> Table]
    /\ pc \in [Requests -> {"idle", "epoch", "version", "lookup", "build", "store"}]
    /\ key \in [Requests -> [epoch : Versions, record : Versions]]
    /\ built \in [Requests -> Values]
    /\ since \in [Requests -> Values]
    /\ got \in [Requests -> Values \cup {Null}]
    /\ \A r \in Requests : got[r] = Null <=> pc[r] # "idle"

Promise == INSTANCE CachePromise WITH floor <- Floor

(* The cache keeps its promise: whatever is in flight when a record is     *)
(* committed and invalidated, no request that begins later is given less.  *)
PromiseKept == Promise!Spec
=============================================================================

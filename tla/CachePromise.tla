---------------------------- MODULE CachePromise ----------------------------
(***************************************************************************)
(* What the read-through cache promises its callers, without versions,     *)
(* keys or Redis: data that were current when an invalidation took effect  *)
(* bound from below whatever a request that begins afterwards is given.    *)
(***************************************************************************)
EXTENDS Integers

CONSTANTS Requests, Null

VARIABLES
    db,     \* how many times the data were committed
    floor,  \* the commits the last invalidation took into account
    since,  \* request -> the floor when it began to read
    got     \* request -> the commits in what it was given, Null while it reads

vars == <<db, floor, since, got>>

Init ==
    /\ db = 0 /\ floor = 0
    /\ since = [r \in Requests |-> 0]
    /\ got = [r \in Requests |-> 0]

Write == db' = db + 1 /\ UNCHANGED <<floor, since, got>>

Invalidate == floor' = db /\ UNCHANGED <<db, since, got>>

Begin(r) ==
    /\ got[r] # Null
    /\ since' = [since EXCEPT ![r] = floor]
    /\ got' = [got EXCEPT ![r] = Null]
    /\ UNCHANGED <<db, floor>>

Answer(r) ==
    /\ got[r] = Null
    /\ \E g \in since[r]..db : got' = [got EXCEPT ![r] = g]
    /\ UNCHANGED <<db, floor, since>>

Next == Write \/ Invalidate \/ \E r \in Requests : Begin(r) \/ Answer(r)

Spec == Init /\ [][Next]_vars
=============================================================================

------------------------- MODULE VersionCacheProofs -------------------------
(***************************************************************************)
(* The versioned cache implements CachePromise, for any number of readers, *)
(* of writers, of commits and of versions, as long as Redis does not fail  *)
(* the read of a version.  Inductive carries the proof: what is stored     *)
(* under an epoch and a version was built after both were reached.         *)
(***************************************************************************)
EXTENDS VersionCache, TLAPS

CountersOK ==
    /\ \A w \in Writers : bumping[w] # Null => ver[bumping[w]] >= 1
    /\ \A c \in Counters : \A n \in Versions : promised[c][n] <= db

(* A key or a table entry uses versions already reached.                   *)
Past(e, v) == e <= Seen("epoch") /\ v <= Seen("record")

Good(table) ==
    \A e, v \in Versions : table[e][v] # Null =>
        Past(e, v) /\ Reached(e, v) <= table[e][v] /\ table[e][v] <= db

(* What a reader's key and value are worth, where it stands.               *)
ReaderOK(r) ==
    LET e == key[r].epoch
        v == key[r].record
    IN /\ since[r] <= db /\ Past(e, v)
       /\ pc[r] = "epoch" => since[r] <= Floor
       /\ pc[r] = "version" => since[r] <= Reached(e, Seen("record"))
       /\ pc[r] \in {"lookup", "build", "store"} => since[r] <= Reached(e, v)
       /\ pc[r] = "store" => Reached(e, v) <= built[r] /\ built[r] <= db

Inductive ==
    /\ TypeOK /\ CountersOK /\ Good(cached)
    /\ \A r \in Requests : Good(local[r]) /\ ReaderOK(r)

-----------------------------------------------------------------------------
(* Versions and what they reached have their types.                        *)
LEMMA ReachedType ==
    ASSUME TypeOK
    PROVE  /\ \A c \in Counters : Seen(c) \in Versions /\ ver[c] <= Seen(c)
           /\ \A e, v \in Versions : Reached(e, v) \in Values
           /\ Floor \in Values
<1>1. ASSUME NEW c \in Counters PROVE Seen(c) \in Versions /\ ver[c] <= Seen(c)
  BY CacheAssumption DEF TypeOK, Seen, Versions
<1>2. ASSUME NEW e \in Versions, NEW v \in Versions PROVE Reached(e, v) \in Values
  BY DEF TypeOK, Reached, Counters
<1> QED
  BY <1>1, <1>2 DEF Floor, Counters

(* The empty caches satisfy the invariant.                                 *)
LEMMA InitInductive == Init => Inductive
<1> SUFFICES ASSUME Init PROVE Inductive
  OBVIOUS
<1>1. 1 \in Versions /\ 0 \in Values /\ Null \notin Values
  BY CacheAssumption DEF Versions, Values
<1>2. Empty \in Table
  BY DEF Empty, Table
<1>3. TypeOK
  BY <1>1, <1>2, CacheAssumption DEF Init, TypeOK, Blank
<1>4. CountersOK
  BY DEF Init, CountersOK
<1>5. Good(Empty)
  BY DEF Good, Empty
<1>6. ASSUME NEW r \in Requests PROVE ReaderOK(r)
  BY <1>1 DEF Init, ReaderOK, Past, Seen, Blank, Counters
<1> QED
  BY <1>3, <1>4, <1>5, <1>6 DEF Init, Inductive

(* A step of a writer leaves what was reached before it alone, and raises  *)
(* what the counters stand for, a record's version read or not.            *)
Keeps ==
    /\ db <= db'
    /\ \A c \in Counters : Seen(c) <= Seen(c)'
    /\ \A e, v \in Versions : Past(e, v) => Reached(e, v)' = Reached(e, v)
    /\ Floor <= Floor'
    /\ \A e \in Versions, n \in Values : e <= Seen("epoch") =>
          (n <= db /\ n <= Reached(e, Seen("record")) => n <= Reached(e, Seen("record"))')

LEMMA GoodStays ==
    ASSUME Inductive, TypeOK', Keeps, NEW table \in Table, Good(table)
    PROVE  Good(table)'
<1> SUFFICES ASSUME NEW e \in Versions, NEW v \in Versions, table[e][v] # Null
             PROVE  Past(e, v)' /\ Reached(e, v)' <= table[e][v] /\ table[e][v] <= db'
  BY DEF Good
<1>1. Past(e, v) /\ Reached(e, v) <= table[e][v] /\ table[e][v] <= db /\ table[e][v] \in Values
  BY DEF Good, Table
<1>2. Reached(e, v)' = Reached(e, v) /\ db <= db' /\ db \in Nat /\ db' \in Nat
  BY <1>1 DEF Keeps, Inductive, TypeOK, Values
<1>3. Past(e, v)'
  <2>1. \A c \in Counters : Seen(c) \in Nat /\ Seen(c)' \in Nat /\ Seen(c) <= Seen(c)'
    BY ReachedType, CacheAssumption DEF Inductive, TypeOK, Keeps, Versions, Seen
  <2> QED
    BY <1>1, <2>1 DEF Past, Counters, Versions
<1> QED
  BY <1>1, <1>2, <1>3 DEF Values

LEMMA WriterStep ==
    ASSUME Inductive, TypeOK', CountersOK', Keeps, UNCHANGED readers
    PROVE  Inductive'
<1>1. cached' = cached /\ local' = local /\ pc' = pc /\ key' = key /\ built' = built /\ since' = since
  BY DEF readers
<1>2. Good(cached)' /\ \A r \in Requests : Good(local[r])'
  <2>1. cached \in Table /\ Good(cached) /\ \A r \in Requests : local[r] \in Table /\ Good(local[r])
    BY DEF Inductive, TypeOK
  <2>2. \A table \in Table : Good(table) => Good(table)'
    BY GoodStays
  <2> QED
    BY <1>1, <2>1, <2>2 DEF Good
<1>3. ASSUME NEW r \in Requests PROVE ReaderOK(r)'
  <2> DEFINE e == key[r].epoch
             v == key[r].record
  <2>1. /\ e \in Versions /\ v \in Versions /\ since[r] \in Values /\ built[r] \in Values
        /\ db \in Nat /\ db' \in Nat
    BY DEF Inductive, TypeOK, Values
  <2>2. ReaderOK(r) /\ Past(e, v)
    BY DEF Inductive, ReaderOK
  <2>3. Past(e, v)'
    <3>1. \A c \in Counters : Seen(c) \in Nat /\ Seen(c)' \in Nat /\ Seen(c) <= Seen(c)'
      BY ReachedType, CacheAssumption DEF Inductive, TypeOK, Keeps, Versions, Seen
    <3> QED
      BY <1>1, <2>1, <2>2, <3>1 DEF Past, Counters, Versions
  <2>4. since[r] <= db /\ db <= db'
    BY <2>2 DEF ReaderOK, Keeps
  <2>5. Reached(e, v)' = Reached(e, v) /\ Reached(e, v) \in Values
    BY <1>1, <2>1, <2>2, ReachedType DEF Keeps, Inductive
  <2>6. pc[r] = "epoch" => since[r] <= Floor'
    <3>1. Floor \in Values /\ Floor <= Floor'
      BY ReachedType DEF Keeps, Inductive
    <3>2. Floor' \in Values
      <4>1. Seen("epoch")' \in Versions /\ Seen("record")' \in Versions
        BY CacheAssumption DEF TypeOK, Seen, Versions, Counters
      <4> QED
        BY <4>1 DEF TypeOK, Floor, Reached, Counters
    <3> QED
      BY <1>1, <2>1, <2>2, <3>1, <3>2 DEF ReaderOK, Values
  <2>7. pc[r] = "version" => since[r] <= Reached(e, Seen("record"))'
    BY <1>1, <2>1, <2>2, <2>4 DEF Keeps, ReaderOK, Past
  <2> QED
    BY <1>1, <2>1, <2>2, <2>3, <2>4, <2>5, <2>6, <2>7 DEF ReaderOK, Values
<1> QED
  BY <1>2, <1>3 DEF Inductive

-----------------------------------------------------------------------------
(* What the writers do.                                                    *)
LEMMA WriteStep ==
    ASSUME Inductive, Write
    PROVE  /\ Inductive'
           /\ db' = db + 1 /\ Floor' = Floor
<1> USE DEF Inductive
<1>1. TypeOK'
  BY CacheAssumption DEF Write, TypeOK, readers, Values
<1>2. \A c \in Counters : Seen(c)' = Seen(c)
  BY DEF Write, Seen
<1>3. /\ \A e, v \in Versions : Reached(e, v)' = Reached(e, v)
      /\ Floor' = Floor
      /\ \A e \in Versions : Reached(e, Seen("record"))' = Reached(e, Seen("record"))
  BY <1>2 DEF Write, Reached, Floor, Counters
<1>4. CountersOK'
  BY DEF Write, CountersOK, TypeOK, Values
<1>5. Keeps
  <2>1. \A c \in Counters : Seen(c) \in Nat
    BY ReachedType DEF Versions
  <2>2. Floor \in Nat
    BY ReachedType DEF Values
  <2> QED
    BY <1>2, <1>3, <2>1, <2>2 DEF Keeps, Write, TypeOK, Values
<1> QED
  BY <1>1, <1>3, <1>4, <1>5, WriterStep DEF Write

(* An increment past the first: the new version reaches every commit.      *)
LEMMA IncrementStep ==
    ASSUME Inductive, NEW c \in Counters, ver[c] >= 1, ver[c] < MaxVersion,
           ver' = [ver EXCEPT ![c] = @ + 1],
           promised' = [promised EXCEPT ![c][ver[c] + 1] = db],
           bumping' \in [Writers -> Counters \cup {Null}],
           \A w \in Writers : bumping'[w] # Null => bumping'[w] = bumping[w],
           UNCHANGED <<db, readers>>
    PROVE  Inductive' /\ Floor' = db
<1> USE DEF Inductive
<1> DEFINE n == ver[c] + 1
<1>1. n \in Versions /\ Seen(c) = ver[c] /\ Seen(c)' = n
  BY CacheAssumption DEF TypeOK, Seen, Versions
<1>2. \A d \in Counters \ {c} : Seen(d)' = Seen(d) /\ promised'[d] = promised[d]
  BY DEF TypeOK, Seen
<1>3. promised'[c][n] = db /\ \A m \in Versions \ {n} : promised'[c][m] = promised[c][m]
  BY <1>1 DEF TypeOK
<1>4. TypeOK'
  BY <1>1 DEF TypeOK, readers, Versions
<1>5. CountersOK'
  <2>1. ASSUME NEW w \in Writers, bumping'[w] # Null PROVE ver'[bumping'[w]] >= 1
    BY <2>1 DEF TypeOK, CountersOK
  <2>2. ASSUME NEW d \in Counters, NEW m \in Versions PROVE promised'[d][m] <= db'
    BY <1>2, <1>3 DEF TypeOK, CountersOK, Values
  <2> QED
    BY <2>1, <2>2 DEF CountersOK
<1>6. \A d \in Counters : Seen(d) \in Versions /\ Seen(d)' \in Versions /\ Seen(d) <= Seen(d)'
  <2>1. n \in Int /\ ver[c] <= n
    BY DEF TypeOK
  <2>2. \A d \in Counters : Seen(d) \in Versions
    BY ReachedType
  <2> QED
    BY <1>1, <1>2, <2>1, <2>2 DEF Versions
<1>7. ASSUME NEW e \in Versions, NEW v \in Versions, Past(e, v)
      PROVE  Reached(e, v)' = Reached(e, v)
  <2>1. c = "epoch" => e # n
    BY <1>1, <1>7 DEF Past, Versions, TypeOK
  <2>2. c = "record" => v # n
    BY <1>1, <1>7 DEF Past, Versions, TypeOK
  <2> QED
    BY <1>2, <1>3, <2>1, <2>2 DEF Reached, Counters
<1>8. \A d \in Counters : \A m \in Versions : promised'[d][m] \in Nat /\ promised'[d][m] <= db
  BY <1>4, <1>5 DEF TypeOK, CountersOK, Values
<1>9. Floor' = db
  <2>1. promised'[c][Seen(c)'] = db /\ db \in Nat
    BY <1>1, <1>3 DEF TypeOK, Values
  <2> QED
    BY <1>6, <1>8, <2>1 DEF Floor, Reached, Counters
<1>10. ASSUME NEW e \in Versions, NEW m \in Values, e <= Seen("epoch"),
              m <= db, m <= Reached(e, Seen("record"))
       PROVE  m <= Reached(e, Seen("record"))'
  <2>1. CASE c = "epoch"
    <3>1. e # n /\ Seen("record")' = Seen("record")
      BY <1>1, <1>2, <1>10, <2>1 DEF Versions, TypeOK, Counters
    <3> QED
      BY <1>2, <1>3, <1>10, <2>1, <3>1 DEF Reached, Counters
  <2>2. CASE c = "record"
    <3>1. promised'["record"][Seen("record")'] = db
      BY <1>1, <1>3, <2>2
    <3>2. promised'["epoch"][e] \in Nat /\ promised'["epoch"][e] <= db /\ db \in Nat
      BY <1>8 DEF Counters, TypeOK, Values
    <3> QED
      BY <1>10, <3>1, <3>2 DEF Reached, Values
  <2> QED
    BY <2>1, <2>2 DEF Counters
<1>11. Keeps
  <2>1. Floor \in Nat /\ Floor <= db /\ db \in Nat
    BY <1>6, ReachedType DEF Floor, Reached, CountersOK, Values, Counters, TypeOK
  <2> QED
    BY <1>6, <1>7, <1>9, <1>10, <2>1 DEF Keeps
<1> QED
  BY <1>4, <1>5, <1>9, <1>11, WriterStep

(* A step after which every counter reads as before.                       *)
LEMMA QuietStep ==
    ASSUME Inductive, TypeOK', CountersOK', \A c \in Counters : Seen(c)' = Seen(c),
           UNCHANGED <<db, promised, readers>>
    PROVE  Inductive' /\ Floor' = Floor
<1> USE DEF Inductive
<1>1. /\ \A e, v \in Versions : Reached(e, v)' = Reached(e, v)
      /\ Floor' = Floor
      /\ \A e \in Versions : Reached(e, Seen("record"))' = Reached(e, Seen("record"))
  BY DEF Reached, Floor, Counters
<1>2. Keeps
  <2>1. \A c \in Counters : Seen(c) \in Nat
    BY ReachedType DEF Versions
  <2>2. Floor \in Nat
    BY ReachedType DEF Values
  <2> QED
    BY <1>1, <2>1, <2>2 DEF Keeps, TypeOK, Values
<1> QED
  BY <1>1, <1>2, WriterStep

LEMMA BumpStep ==
    ASSUME Inductive, NEW w \in Writers, NEW c \in Counters, Bump(w, c)
    PROVE  Inductive' /\ (Floor' = Floor \/ Floor' = db) /\ UNCHANGED <<db, since, got>>
<1> USE DEF Inductive
<1>1. UNCHANGED <<db, since, got>>
  BY DEF Bump, readers
<1>2. CASE ver[c] = 0
  <2>1. \A d \in Counters : Seen(d)' = Seen(d)
    BY <1>2 DEF Bump, Seen, TypeOK
  <2>2. TypeOK'
    <3>1. ver' \in [Counters -> 0..MaxVersion]
      BY <1>2, CacheAssumption DEF Bump, TypeOK
    <3>2. bumping' \in [Writers -> Counters \cup {Null}]
      BY <1>2 DEF Bump, TypeOK
    <3> QED
      BY <1>2, <3>1, <3>2 DEF Bump, TypeOK, readers
  <2>3. CountersOK'
    BY <1>2 DEF Bump, CountersOK, TypeOK
  <2> QED
    BY <1>1, <1>2, <2>1, <2>2, <2>3, QuietStep DEF Bump
<1>3. CASE ver[c] # 0
  <2>1. ver[c] >= 1
    BY <1>3 DEF TypeOK
  <2>2. /\ ver[c] < MaxVersion
        /\ ver' = [ver EXCEPT ![c] = @ + 1]
        /\ promised' = [promised EXCEPT ![c][ver[c] + 1] = db]
        /\ bumping' = bumping
        /\ UNCHANGED <<db, readers>>
    BY <1>3 DEF Bump
  <2>3. bumping' \in [Writers -> Counters \cup {Null}]
    BY <2>2 DEF TypeOK
  <2> QED
    BY <1>1, <2>1, <2>2, <2>3, IncrementStep
<1> QED
  BY <1>2, <1>3

LEMMA BumpAgainStep ==
    ASSUME Inductive, NEW w \in Writers, NEW c \in Counters, BumpAgain(w, c)
    PROVE  Inductive' /\ Floor' = db /\ UNCHANGED <<db, since, got>>
<1> USE DEF Inductive
<1>1. c # Null /\ ver[c] >= 1
  BY CacheAssumption DEF BumpAgain, CountersOK
<1>2. /\ bumping' \in [Writers -> Counters \cup {Null}]
      /\ \A u \in Writers : bumping'[u] # Null => bumping'[u] = bumping[u]
  BY DEF BumpAgain, TypeOK
<1>3. /\ ver[c] < MaxVersion
      /\ ver' = [ver EXCEPT ![c] = @ + 1]
      /\ promised' = [promised EXCEPT ![c][ver[c] + 1] = db]
      /\ UNCHANGED <<db, readers>>
  BY DEF BumpAgain
<1> QED
  BY <1>1, <1>2, <1>3, IncrementStep DEF readers

LEMMA BumpFailsStep ==
    ASSUME Inductive, NEW w \in Writers, BumpFails(w)
    PROVE  Inductive' /\ Floor' = Floor /\ UNCHANGED <<db, since, got>>
<1> USE DEF Inductive
<1>1. \A c \in Counters : Seen(c)' = Seen(c)
  BY DEF BumpFails, Seen
<1>2. TypeOK'
  BY DEF BumpFails, TypeOK, readers
<1>3. CountersOK'
  BY DEF BumpFails, CountersOK, TypeOK
<1> QED
  BY <1>1, <1>2, <1>3, QuietStep DEF BumpFails, readers

-----------------------------------------------------------------------------
(* What the readers do: a step changes the registers of one request, and   *)
(* what it writes to the caches is good.                                   *)
LEMMA ReaderStep ==
    ASSUME Inductive, NEW r \in Requests, TypeOK',
           UNCHANGED <<db, ver, bumping, promised>>,
           \A q \in Requests \ {r} : /\ pc'[q] = pc[q] /\ key'[q] = key[q] /\ built'[q] = built[q]
                                     /\ since'[q] = since[q] /\ local'[q] = local[q],
           Good(cached)', Good(local[r])', ReaderOK(r)'
    PROVE  Inductive' /\ Floor' = Floor
<1>1. /\ \A c \in Counters : Seen(c)' = Seen(c)
      /\ \A e, v : Reached(e, v)' = Reached(e, v) /\ (Past(e, v)' <=> Past(e, v))
      /\ Floor' = Floor
  BY DEF Seen, Reached, Past, Floor
<1>2. CountersOK'
  BY DEF Inductive, CountersOK
<1>3. ASSUME NEW q \in Requests \ {r} PROVE Good(local[q])' /\ ReaderOK(q)'
  <2>1. Good(local[q]) /\ ReaderOK(q)
    BY DEF Inductive
  <2> QED
    BY <1>1, <2>1 DEF Good, ReaderOK, Counters
<1> QED
  BY <1>1, <1>2, <1>3 DEF Inductive

(* Good depends on the counters and on the data only.                      *)
LEMMA GoodSame ==
    ASSUME NEW table, Good(table), UNCHANGED <<db, ver, promised>>
    PROVE  Good(table)'
BY DEF Good, Past, Seen, Reached

(* A table stays good when a value good for its key is put in.             *)
LEMMA GoodPut ==
    ASSUME NEW table \in Table, Good(table), NEW e \in Versions, NEW v \in Versions,
           NEW g \in Values, Past(e, v), Reached(e, v) <= g, g <= db
    PROVE  /\ [table EXCEPT ![e][v] = g] \in Table
           /\ Good([table EXCEPT ![e][v] = g])
<1> DEFINE new == [table EXCEPT ![e][v] = g]
<1>1. new[e][v] = g /\ \A i, j \in Versions : i # e \/ j # v => new[i][j] = table[i][j]
  BY DEF Table
<1>2. new \in Table
  BY DEF Table
<1>3. Good(new)
  <2> SUFFICES ASSUME NEW i \in Versions, NEW j \in Versions, new[i][j] # Null
               PROVE  Past(i, j) /\ Reached(i, j) <= new[i][j] /\ new[i][j] <= db
    BY DEF Good
  <2>1. CASE i = e /\ j = v
    BY <1>1, <2>1
  <2>2. CASE i # e \/ j # v
    BY <1>1, <2>2 DEF Good
  <2> QED
    BY <2>1, <2>2
<1> QED
  BY <1>2, <1>3

(* get_or_build, call by call.                                             *)
LEMMA BeginStep ==
    ASSUME Inductive, NEW r \in Requests, Begin(r)
    PROVE  Inductive' /\ Promise!Begin(r)
<1> USE DEF Inductive
<1>1. TypeOK'
  BY ReachedType DEF Begin, TypeOK, Goto
<1>2. ReaderOK(r)'
  <2>1. /\ key'[r] = key[r] /\ pc'[r] = "epoch" /\ since'[r] = Floor /\ Floor' = Floor
        /\ db' = db /\ Past(key[r].epoch, key[r].record)'
    BY DEF Begin, Goto, TypeOK, ReaderOK, Past, Seen, Floor, Reached
  <2>2. Floor <= db /\ Floor \in Nat
    BY ReachedType DEF Floor, Reached, CountersOK, Values, Counters, TypeOK
  <2> QED
    BY <2>1, <2>2 DEF ReaderOK
<1>3. Good(cached)' /\ Good(local[r])'
  BY GoodSame DEF Begin
<1>4. got[r] # Null
  BY DEF Begin, TypeOK
<1>5. Inductive' /\ Floor' = Floor
  BY <1>1, <1>2, <1>3, ReaderStep DEF Begin, Goto, TypeOK
<1> QED
  BY <1>4, <1>5 DEF Begin, Promise!Begin

LEMMA ReadEpochStep ==
    ASSUME Inductive, ~VersionReadsFail, NEW r \in Requests, ReadEpoch(r)
    PROVE  Inductive' /\ UNCHANGED <<db, Floor, since, got>>
<1> USE DEF Inductive
<1>1. key' = [key EXCEPT ![r].epoch = Seen("epoch")]
  BY DEF ReadEpoch, Reads
<1>2. Seen("epoch") \in Versions /\ Seen("record") \in Versions
  BY ReachedType DEF Counters
<1>3. TypeOK'
  BY <1>1, <1>2 DEF ReadEpoch, TypeOK, Goto
<1>4. ReaderOK(r)'
  <2>1. /\ key'[r].epoch = Seen("epoch") /\ key'[r].record = key[r].record
        /\ pc'[r] = "version" /\ since'[r] = since[r] /\ db' = db /\ ver' = ver
        /\ promised' = promised
    BY <1>1 DEF ReadEpoch, Goto, TypeOK
  <2>2. since[r] <= db /\ since[r] <= Floor /\ key[r].record <= Seen("record")
    BY DEF ReadEpoch, ReaderOK, Past
  <2>3. Seen("epoch")' = Seen("epoch") /\ Seen("record")' = Seen("record")
    BY <2>1 DEF Seen
  <2> QED
    BY <1>2, <2>1, <2>2, <2>3 DEF ReaderOK, Past, Floor, Reached, Versions
<1>5. Good(cached)' /\ Good(local[r])'
  BY GoodSame DEF ReadEpoch
<1> QED
  BY <1>3, <1>4, <1>5, ReaderStep, <1>1 DEF ReadEpoch, Goto, TypeOK

LEMMA ReadVersionStep ==
    ASSUME Inductive, ~VersionReadsFail, NEW r \in Requests, ReadVersion(r)
    PROVE  Inductive' /\ UNCHANGED <<db, Floor, since, got>>
<1> USE DEF Inductive
<1>1. key' = [key EXCEPT ![r].record = Seen("record")]
  BY DEF ReadVersion, Reads
<1>2. Seen("epoch") \in Versions /\ Seen("record") \in Versions
  BY ReachedType DEF Counters
<1>3. TypeOK'
  BY <1>1, <1>2 DEF ReadVersion, TypeOK, Goto
<1>4. ReaderOK(r)'
  <2>1. /\ key'[r].record = Seen("record") /\ key'[r].epoch = key[r].epoch
        /\ pc'[r] = "lookup" /\ since'[r] = since[r] /\ db' = db /\ ver' = ver
        /\ promised' = promised
    BY <1>1 DEF ReadVersion, Goto, TypeOK
  <2>2. /\ since[r] <= db /\ since[r] <= Reached(key[r].epoch, Seen("record"))
        /\ key[r].epoch <= Seen("epoch")
    BY DEF ReadVersion, ReaderOK, Past
  <2>3. Seen("epoch")' = Seen("epoch") /\ Seen("record")' = Seen("record")
    BY <2>1 DEF Seen
  <2> QED
    BY <1>2, <2>1, <2>2, <2>3 DEF ReaderOK, Past, Reached, Versions
<1>5. Good(cached)' /\ Good(local[r])'
  BY GoodSame DEF ReadVersion
<1> QED
  BY <1>3, <1>4, <1>5, ReaderStep, <1>1 DEF ReadVersion, Goto, TypeOK

(* A return: what the request is given is good for the key it read, and so *)
(* no less than the floor when it began.                                   *)
LEMMA ReturnStep ==
    ASSUME Inductive, NEW r \in Requests, pc[r] \in {"lookup", "store"}, NEW g \in Values,
           Reached(key[r].epoch, key[r].record) <= g, g <= db, Return(r, g),
           cached' \in Table, local' \in [Requests -> Table], Good(cached'), Good(local'[r]),
           \A q \in Requests \ {r} : local'[q] = local[q],
           UNCHANGED <<db, ver, bumping, promised, since>>
    PROVE  Inductive' /\ Promise!Answer(r)
<1> USE DEF Inductive
<1>1. Blank \in [epoch : Versions, record : Versions] /\ 0 \in Values /\ g # Null
  BY CacheAssumption DEF Blank, Versions, Values
<1>2. /\ pc' = [pc EXCEPT ![r] = "idle"] /\ got' = [got EXCEPT ![r] = g]
      /\ key' = [key EXCEPT ![r] = Blank] /\ built' = [built EXCEPT ![r] = 0]
  BY DEF Return, Goto
<1>3. TypeOK'
  <2>1. /\ pc' \in [Requests -> {"idle", "epoch", "version", "lookup", "build", "store"}]
        /\ got' \in [Requests -> Values \cup {Null}]
        /\ key' \in [Requests -> [epoch : Versions, record : Versions]]
        /\ built' \in [Requests -> Values]
    BY <1>1, <1>2 DEF TypeOK
  <2>2. \A q \in Requests : got'[q] = Null <=> pc'[q] # "idle"
    BY <1>1, <1>2 DEF TypeOK
  <2> QED
    BY <2>1, <2>2 DEF TypeOK
<1>4. /\ since[r] <= Reached(key[r].epoch, key[r].record)
      /\ Reached(key[r].epoch, key[r].record) \in Nat /\ since[r] \in Nat
  BY ReachedType DEF ReaderOK, TypeOK, Values
<1>5. ReaderOK(r)'
  <2>1. key'[r] = Blank /\ pc'[r] = "idle" /\ since'[r] = since[r] /\ db' = db
    BY <1>2 DEF TypeOK
  <2>2. Past(1, 1)'
    BY DEF Past, Seen, TypeOK, Counters
  <2>3. since[r] <= db
    BY DEF ReaderOK
  <2> QED
    BY <2>1, <2>2, <2>3 DEF ReaderOK, Blank
<1>6. Good(cached)' /\ Good(local[r])'
  BY DEF Good, Past, Seen, Reached
<1>7. Inductive' /\ Floor' = Floor
  BY <1>2, <1>3, <1>5, <1>6, ReaderStep DEF TypeOK
<1>8. got[r] = Null /\ g \in since[r]..db
  BY <1>4 DEF TypeOK, Values
<1> QED
  BY <1>2, <1>7, <1>8 DEF Promise!Answer

LEMMA HitStep ==
    ASSUME Inductive, NEW r \in Requests, Hit(r)
    PROVE  Inductive' /\ Promise!Answer(r)
<1> USE DEF Inductive
<1> DEFINE e == key[r].epoch
           v == key[r].record
<1>1. e \in Versions /\ v \in Versions /\ pc[r] = "lookup"
  BY DEF Hit, TypeOK
<1>2. /\ cached \in Table /\ local[r] \in Table /\ local \in [Requests -> Table]
      /\ Good(cached) /\ Good(local[r])
  BY DEF TypeOK
<1>3. CASE local[r][e][v] # Null /\ Return(r, local[r][e][v]) /\ UNCHANGED local
  <2>1. /\ local[r][e][v] \in Values
        /\ Reached(e, v) <= local[r][e][v] /\ local[r][e][v] <= db
    BY <1>1, <1>2, <1>3 DEF Table, Good
  <2> QED
    BY <1>1, <1>2, <1>3, <2>1, ReturnStep DEF Hit
<1>4. CASE /\ local[r][e][v] = Null /\ cached[e][v] # Null
           /\ Return(r, cached[e][v])
           /\ local' = [local EXCEPT ![r][e][v] = cached[e][v]]
  <2>1. /\ cached[e][v] \in Values /\ Past(e, v)
        /\ Reached(e, v) <= cached[e][v] /\ cached[e][v] <= db
    BY <1>1, <1>2, <1>4 DEF Table, Good
  <2>2. /\ [local[r] EXCEPT ![e][v] = cached[e][v]] \in Table
        /\ Good([local[r] EXCEPT ![e][v] = cached[e][v]])
    BY <1>1, <1>2, <2>1, GoodPut
  <2>3. /\ local' = [local EXCEPT ![r] = [local[r] EXCEPT ![e][v] = cached[e][v]]]
        /\ cached' = cached
    BY <1>4 DEF Hit
  <2>4. /\ local' \in [Requests -> Table] /\ Good(local'[r]) /\ Good(cached')
        /\ \A q \in Requests \ {r} : local'[q] = local[q]
    BY <1>2, <2>2, <2>3
  <2> QED
    BY <1>1, <1>2, <1>4, <2>1, <2>3, <2>4, ReturnStep DEF Hit
<1> QED
  BY <1>3, <1>4 DEF Hit

LEMMA MissStep ==
    ASSUME Inductive, NEW r \in Requests, Miss(r)
    PROVE  Inductive' /\ UNCHANGED <<db, Floor, since, got>>
<1> USE DEF Inductive
<1>1. TypeOK'
  BY DEF Miss, TypeOK, Goto
<1>2. ReaderOK(r)'
  BY DEF Miss, TypeOK, Goto, ReaderOK, Past, Seen, Reached
<1>3. Good(cached)' /\ Good(local[r])'
  BY GoodSame DEF Miss
<1> QED
  BY <1>1, <1>2, <1>3, ReaderStep DEF Miss, Goto, TypeOK

(* The builder reads the data after both versions were read.               *)
LEMMA BuildStep ==
    ASSUME Inductive, NEW r \in Requests, Build(r)
    PROVE  Inductive' /\ UNCHANGED <<db, Floor, since, got>>
<1> USE DEF Inductive
<1>1. TypeOK'
  BY DEF Build, TypeOK, Goto
<1>2. ReaderOK(r)'
  <2>1. /\ key'[r] = key[r] /\ built'[r] = db /\ pc'[r] = "store" /\ since'[r] = since[r]
        /\ db' = db /\ promised' = promised /\ ver' = ver
    BY DEF Build, Goto, TypeOK
  <2>2. /\ since[r] <= db /\ Past(key[r].epoch, key[r].record)
        /\ since[r] <= Reached(key[r].epoch, key[r].record)
    BY DEF Build, ReaderOK
  <2>3. Reached(key[r].epoch, key[r].record) <= db /\ db <= db
    BY DEF Reached, CountersOK, Counters, TypeOK, Values
  <2> QED
    BY <2>1, <2>2, <2>3 DEF ReaderOK, Past, Seen, Reached
<1>3. Good(cached)' /\ Good(local[r])'
  BY GoodSame DEF Build
<1> QED
  BY <1>1, <1>2, <1>3, ReaderStep DEF Build, Goto, TypeOK

LEMMA StoreStep ==
    ASSUME Inductive, NEW r \in Requests, Store(r)
    PROVE  Inductive' /\ Promise!Answer(r)
<1> USE DEF Inductive
<1> DEFINE e == key[r].epoch
           v == key[r].record
           g == built[r]
<1>1. e \in Versions /\ v \in Versions /\ g \in Values /\ pc[r] = "store" /\ Return(r, g)
  BY DEF Store, TypeOK
<1>2. Past(e, v) /\ Reached(e, v) <= g /\ g <= db
  BY <1>1 DEF ReaderOK
<1>3. /\ cached \in Table /\ local[r] \in Table /\ local \in [Requests -> Table]
      /\ Good(cached) /\ Good(local[r])
  BY DEF TypeOK
<1>4. /\ cached' \in Table /\ local' \in [Requests -> Table] /\ Good(cached') /\ Good(local'[r])
      /\ \A q \in Requests \ {r} : local'[q] = local[q]
  <2>1. CASE UNCHANGED <<cached, local>>
    BY <1>3, <2>1
  <2>2. CASE /\ cached' = [cached EXCEPT ![e][v] = g]
             /\ local' \in {local, [local EXCEPT ![r][e][v] = g]}
    <3>1. /\ [cached EXCEPT ![e][v] = g] \in Table /\ Good([cached EXCEPT ![e][v] = g])
          /\ [local[r] EXCEPT ![e][v] = g] \in Table /\ Good([local[r] EXCEPT ![e][v] = g])
      BY <1>1, <1>2, <1>3, GoodPut
    <3>2. local' = local \/ local' = [local EXCEPT ![r] = [local[r] EXCEPT ![e][v] = g]]
      BY <2>2
    <3> QED
      BY <1>3, <2>2, <3>1, <3>2
  <2> QED
    BY <2>1, <2>2 DEF Store
<1> QED
  BY <1>1, <1>2, <1>4, ReturnStep DEF Store

(* Values that go away leave the tables good.                              *)
LEMMA ExpireStep ==
    ASSUME Inductive, NEW e \in Versions, NEW v \in Versions, Expire(e, v)
    PROVE  Inductive' /\ UNCHANGED <<db, Floor, since, got>>
<1> USE DEF Inductive
<1>1. /\ cached' = [cached EXCEPT ![e][v] = Null] /\ cached \in Table
      /\ UNCHANGED <<db, ver, bumping, promised, local, pc, key, built, since, got>>
  BY DEF Expire, TypeOK
<1>2. cached' \in Table /\ \A i, j \in Versions : cached'[i][j] # Null => cached'[i][j] = cached[i][j]
  BY <1>1 DEF Table
<1>3. TypeOK'
  BY <1>1, <1>2 DEF TypeOK
<1>4. Good(cached)'
  BY <1>1, <1>2 DEF Good, Past, Seen, Reached
<1>5. \A r \in Requests : Good(local[r])' /\ ReaderOK(r)'
  BY <1>1 DEF Good, ReaderOK, Past, Seen, Reached, Floor
<1>6. CountersOK' /\ Floor' = Floor
  BY <1>1 DEF CountersOK, Floor, Seen, Reached
<1> QED
  BY <1>1, <1>3, <1>4, <1>5, <1>6

LEMMA EndRequestStep ==
    ASSUME Inductive, NEW r \in Requests, EndRequest(r)
    PROVE  Inductive' /\ UNCHANGED <<db, Floor, since, got>>
<1> USE DEF Inductive
<1>1. Empty \in Table /\ Good(Empty)
  BY DEF Empty, Table, Good
<1>2. local'[r] = Empty /\ local' \in [Requests -> Table]
  BY <1>1 DEF EndRequest, TypeOK
<1>3. TypeOK'
  BY <1>2 DEF EndRequest, TypeOK
<1>4. ReaderOK(r)'
  BY DEF EndRequest, ReaderOK, Past, Seen, Reached, Floor
<1>5. Good(cached)' /\ Good(local[r])'
  BY <1>1, <1>2, GoodSame DEF EndRequest
<1> QED
  BY <1>3, <1>4, <1>5, ReaderStep DEF EndRequest, TypeOK

-----------------------------------------------------------------------------
(* Every step preserves the invariant and is a step of the promise, or     *)
(* nothing the promise speaks of.                                          *)
LEMMA NextStep ==
    ASSUME Inductive, ~VersionReadsFail, [Next]_vars
    PROVE  Inductive' /\ [Promise!Next]_(Promise!vars)
<1> USE DEF Promise!vars
<1>1. CASE UNCHANGED vars
  <2>1. Floor' = Floor /\ UNCHANGED <<db, since, got>>
    BY <1>1 DEF vars, Floor, Seen, Reached
  <2>2. TypeOK' /\ CountersOK'
    BY <1>1 DEF vars, Inductive, TypeOK, CountersOK
  <2>3. Inductive'
    BY <1>1, <2>2, QuietStep DEF vars, readers, Seen
  <2> QED
    BY <2>1, <2>3
<1>2. CASE Write
  BY <1>2, WriteStep DEF Promise!Next, Promise!Write, Write, readers
<1>3. ASSUME NEW w \in Writers, NEW c \in Counters, Bump(w, c)
      PROVE  Inductive' /\ [Promise!Next]_(Promise!vars)
  BY <1>3, BumpStep DEF Promise!Next, Promise!Invalidate
<1>4. ASSUME NEW w \in Writers, NEW c \in Counters, BumpAgain(w, c)
      PROVE  Inductive' /\ [Promise!Next]_(Promise!vars)
  BY <1>4, BumpAgainStep DEF Promise!Next, Promise!Invalidate
<1>5. ASSUME NEW w \in Writers, BumpFails(w)
      PROVE  Inductive' /\ [Promise!Next]_(Promise!vars)
  BY <1>5, BumpFailsStep
<1>6. ASSUME NEW r \in Requests, Begin(r)
      PROVE  Inductive' /\ [Promise!Next]_(Promise!vars)
  BY <1>6, BeginStep DEF Promise!Next
<1>7. ASSUME NEW r \in Requests, ReadEpoch(r) \/ ReadVersion(r)
      PROVE  Inductive' /\ [Promise!Next]_(Promise!vars)
  BY <1>7, ReadEpochStep, ReadVersionStep
<1>8. ASSUME NEW r \in Requests, Hit(r) \/ Store(r)
      PROVE  Inductive' /\ [Promise!Next]_(Promise!vars)
  BY <1>8, HitStep, StoreStep DEF Promise!Next
<1>9. ASSUME NEW r \in Requests, Miss(r) \/ Build(r) \/ EndRequest(r)
      PROVE  Inductive' /\ [Promise!Next]_(Promise!vars)
  BY <1>9, MissStep, BuildStep, EndRequestStep
<1>10. ASSUME NEW e \in Versions, NEW v \in Versions, Expire(e, v)
       PROVE  Inductive' /\ [Promise!Next]_(Promise!vars)
  BY <1>10, ExpireStep
<1> QED
  BY <1>1, <1>2, <1>3, <1>4, <1>5, <1>6, <1>7, <1>8, <1>9, <1>10 DEF Next

(* The caches and the registers keep their types.                          *)
THEOREM CacheTypes == ASSUME ~VersionReadsFail PROVE Spec => []TypeOK
<1>1. Inductive /\ [Next]_vars => Inductive'
  BY NextStep
<1>2. Inductive => TypeOK
  BY DEF Inductive
<1> QED
  BY <1>1, <1>2, InitInductive, PTL DEF Spec

(* Whatever is in flight when a record is committed and invalidated, no    *)
(* request that begins to read later is given less than that commit.       *)
THEOREM CacheKeepsPromise == ASSUME ~VersionReadsFail PROVE Spec => PromiseKept
<1>1. Inductive /\ [Next]_vars => Inductive'
  BY NextStep
<1>2. Inductive /\ [Next]_vars => [Promise!Next]_(Promise!vars)
  BY NextStep
<1>3. Init => Promise!Init
  <2> SUFFICES ASSUME Init PROVE Promise!Init
    OBVIOUS
  <2>1. Seen("epoch") = 1 /\ Seen("record") = 1 /\ 1 \in Versions
    BY CacheAssumption DEF Init, Seen, Counters, Versions
  <2>2. Floor = 0
    BY <2>1 DEF Init, Floor, Reached, Counters
  <2> QED
    BY <2>2 DEF Init, Promise!Init
<1> QED
  BY <1>1, <1>2, <1>3, InitInductive, PTL DEF Spec, PromiseKept, Promise!Spec
=============================================================================

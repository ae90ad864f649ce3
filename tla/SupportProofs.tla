---------------------------- MODULE SupportProofs ----------------------------
(***************************************************************************)
(* The file store, the linked list, the trace, UTF-8 validation and Base64 *)
(* do what their users rely on, for any ids, values, contents and limits   *)
(* and any number of calls.                                                *)
(***************************************************************************)
EXTENDS FileStore, LinkedList, TraceLog, TextCodec, WellFoundedInduction, TLAPS

----------------------------------------------------------------------------
(* Persistence in files *)

\* what stored says holds of the files while the store is closed too; a put
\* under way has no answer yet
StoreInv ==
  /\ DOMAIN disk = {"client", "cwd"} /\ (disk.client = NoDir \/ DOMAIN disk.client = Keys)
  /\ handle \in BOOLEAN /\ (handle => DOMAIN disk.client = Keys)
  /\ stored \in [Keys -> Values \cup {Absent, Unknown}]
  /\ call # Idle => /\ handle /\ ~cleared
                    /\ call.key \in Keys /\ call.value \in Values /\ stored[call.key] = Unknown
  /\ \A k \in Keys :
       /\ stored[k] \in Values =>
            k \in DOMAIN disk.client /\ disk.client[k] = IF k \in unflushed THEN Torn ELSE stored[k]
       /\ stored[k] = Absent => k \notin Files(disk.client)
  /\ windows /\ cleared => Files(disk.client) = {}

LEMMA StoreStarts == StoreInit => StoreInv
<1> SUFFICES ASSUME StoreInit PROVE StoreInv
  OBVIOUS
<1>1. PICK d : disk = [client |-> NoDir, cwd |-> d]
  BY DEF StoreInit
<1>2. DOMAIN disk = {"client", "cwd"} /\ DOMAIN disk.client = {}
  BY <1>1 DEF NoDir
<1>3. Files(disk.client) = {}
  BY <1>2 DEF Files
<1>4. handle = FALSE /\ call = Idle /\ cleared = FALSE /\ stored = [k \in Keys |-> Absent]
  BY DEF StoreInit
<1> QED BY <1>1, <1>2, <1>3, <1>4, ValuesAssumption DEF StoreInv, Absent, Unknown, Torn

\* Opening makes the directory or keeps it as it is.
LEMMA OpenStep == StoreInv /\ pstopen => StoreInv'
<1> SUFFICES ASSUME StoreInv, pstopen PROVE StoreInv'
  OBVIOUS
<1>1. /\ DOMAIN disk' = {"client", "cwd"} /\ disk'.client = pstmkdir(disk.client) /\ handle' = TRUE
      /\ UNCHANGED <<call, windows, stored, unflushed, cleared>>
  BY DEF pstopen, StoreInv
<1>2. CASE disk.client = NoDir
  <2>1. disk'.client = EmptyDir /\ DOMAIN disk.client = {}
    BY <1>1, <1>2 DEF pstmkdir, NoDir
  <2>2. DOMAIN disk'.client = Keys /\ Files(disk'.client) = {}
    BY <2>1 DEF EmptyDir, Files
  <2>3. \A k \in Keys : stored[k] \notin Values
    BY <2>1 DEF StoreInv
  <2> QED BY <1>1, <2>2, <2>3 DEF StoreInv
<1>3. CASE disk.client # NoDir
  <2>1. disk'.client = disk.client
    BY <1>1, <1>3 DEF pstmkdir
  <2> QED BY <1>1, <1>3, <2>1 DEF StoreInv
<1> QED BY <1>2, <1>3

\* Closing removes a directory without files, so that nothing is lost with it.
LEMMA CloseStep == StoreInv /\ pstclose => StoreInv'
<1> SUFFICES ASSUME StoreInv, pstclose PROVE StoreInv'
  OBVIOUS
<1>1. /\ DOMAIN disk' = {"client", "cwd"} /\ handle' = FALSE /\ call = Idle
      /\ disk'.client = IF Files(disk.client) = {} THEN NoDir ELSE disk.client
      /\ UNCHANGED <<call, windows, stored, unflushed, cleared>>
  BY DEF pstclose, StoreInv
<1>2. CASE Files(disk.client) = {}
  <2>1. disk'.client = NoDir /\ DOMAIN disk'.client = {}
    BY <1>1, <1>2 DEF NoDir
  <2>2. Files(disk'.client) = {}
    BY <2>1 DEF Files
  <2>3. \A k \in Keys : stored[k] \notin Values
    BY <1>2, ValuesAssumption DEF StoreInv, Files, Torn, Absent
  <2> QED BY <1>1, <2>1, <2>2, <2>3 DEF StoreInv
<1>3. CASE Files(disk.client) # {}
  BY <1>1, <1>3 DEF StoreInv
<1> QED BY <1>2, <1>3

\* One file changes, and what is said of it with it.
LEMMA FileChanges ==
  ASSUME StoreInv, NEW k \in Keys, NEW v \in Values \cup {Absent, Torn}, NEW s \in Values \cup {Absent, Unknown},
         NEW u \in {unflushed, unflushed \cup {k}, unflushed \ {k}},
         handle, UNCHANGED <<handle, windows>>, unflushed' = u,
         disk' = [disk EXCEPT !.client[k] = v], stored' = [stored EXCEPT ![k] = s],
         v # Absent => ~cleared', cleared' => cleared,
         s \in Values => v = IF k \in u THEN Torn ELSE s, s = Absent => v = Absent
  PROVE  /\ DOMAIN disk' = {"client", "cwd"} /\ DOMAIN disk'.client = Keys
         /\ stored' \in [Keys -> Values \cup {Absent, Unknown}]
         /\ \A i \in Keys :
              /\ stored'[i] \in Values =>
                   disk'.client[i] = IF i \in unflushed' THEN Torn ELSE stored'[i]
              /\ stored'[i] = Absent => i \notin Files(disk'.client)
         /\ windows' /\ cleared' => Files(disk'.client) = {}
<1>1. DOMAIN disk = {"client", "cwd"} /\ DOMAIN disk.client = Keys
  BY DEF StoreInv
<1>2. DOMAIN disk' = {"client", "cwd"} /\ disk'.client = [disk.client EXCEPT ![k] = v]
  BY <1>1
<1>3. /\ DOMAIN disk'.client = Keys /\ disk'.client[k] = v
      /\ \A i \in Keys : i # k => disk'.client[i] = disk.client[i]
  BY <1>1, <1>2
<1>4. stored' \in [Keys -> Values \cup {Absent, Unknown}] /\ stored'[k] = s /\ \A i \in Keys : i # k => stored'[i] = stored[i]
  BY DEF StoreInv
<1>5. Files(disk'.client) = {i \in Keys : disk'.client[i] # Absent} /\ Files(disk.client) = {i \in Keys : disk.client[i] # Absent}
  BY <1>1, <1>3 DEF Files
<1>8. \A i \in Keys : i # k => (i \in unflushed' <=> i \in unflushed)
  OBVIOUS
<1>6. ASSUME NEW i \in Keys
      PROVE  /\ stored'[i] \in Values =>
                   disk'.client[i] = IF i \in unflushed' THEN Torn ELSE stored'[i]
             /\ stored'[i] = Absent => i \notin Files(disk'.client)
  <2>1. CASE i = k
    <3>1. Unknown \notin Values /\ Unknown # Absent
      BY ValuesAssumption DEF Unknown, Absent
    <3> QED BY <1>3, <1>4, <1>5, <2>1, <3>1
  <2>2. CASE i # k
    BY <1>3, <1>4, <1>5, <1>8, <2>2 DEF StoreInv
  <2> QED BY <2>1, <2>2
<1>7. ASSUME windows', cleared' PROVE Files(disk'.client) = {}
  <2>1. Files(disk.client) = {} /\ v = Absent
    BY <1>7 DEF StoreInv
  <2> QED BY <1>3, <1>5, <2>1
<1> QED BY <1>2, <1>3, <1>4, <1>6, <1>7

\* The answers differ.
LEMMA AnswersDiffer ==
  Unknown \notin Values /\ Absent \notin Values /\ Torn \notin Values /\ Unknown # Absent
    /\ Torn # Absent /\ Torn # Unknown
BY ValuesAssumption DEF Unknown, Absent, Torn

\* A put that has opened its file has not answered.
LEMMA PutStep ==
  ASSUME StoreInv, NEW scr, NEW htype, NEW id \in MsgIds, NEW v \in Values, putPacket(scr, htype, id, v)
  PROVE  StoreInv'
<1> DEFINE k == KeyFor(scr, htype, id)
<1>1. k \in Keys
  BY DEF KeyFor, Keys, KeyPrefixes
<1>2. handle /\ call = Idle /\ UNCHANGED <<handle, windows, unflushed>>
  BY DEF putPacket, CanCall
<1>3. CASE UNCHANGED <<disk, call, stored, cleared>>
  BY <1>2, <1>3 DEF StoreInv
<1>4. CASE /\ disk' = [disk EXCEPT !.client[k] = Torn] /\ call' = [key |-> k, value |-> v]
           /\ stored' = [stored EXCEPT ![k] = Unknown] /\ cleared' = FALSE
  <2> HIDE DEF k
  <2>1. /\ DOMAIN disk' = {"client", "cwd"} /\ DOMAIN disk'.client = Keys
        /\ stored' \in [Keys -> Values \cup {Absent, Unknown}]
        /\ \A i \in Keys :
             /\ stored'[i] \in Values =>
                   disk'.client[i] = IF i \in unflushed' THEN Torn ELSE stored'[i]
             /\ stored'[i] = Absent => i \notin Files(disk'.client)
        /\ windows' /\ cleared' => Files(disk'.client) = {}
    <3>1. /\ Torn \in Values \cup {Absent, Torn} /\ Unknown \in Values \cup {Absent, Unknown}
          /\ unflushed \in {unflushed, unflushed \cup {k}, unflushed \ {k}}
          /\ Unknown \in Values => Torn = IF k \in unflushed THEN Torn ELSE Unknown
          /\ Unknown = Absent => Torn = Absent
      BY AnswersDiffer
    <3>2. UNCHANGED <<handle, windows>> /\ unflushed' = unflushed /\ ~cleared' /\ handle
      BY <1>2, <1>4
    <3> QED BY <1>1, <1>4, <3>1, <3>2, FileChanges
  <2>2. stored'[k] = Unknown /\ call'.key = k /\ call'.value = v /\ handle'
    BY <1>1, <1>2, <1>4 DEF StoreInv
  <2> QED BY <1>1, <1>2, <1>4, <2>1, <2>2 DEF StoreInv
<1> QED BY <1>3, <1>4 DEF putPacket

\* A put answers for the file it leaves.
LEMMA PutReturnsStep ==
  ASSUME StoreInv, NEW outcome \in Outcomes, PutReturns(outcome)
  PROVE  StoreInv'
<1> DEFINE k == call.key
           v == FileAfter(outcome)
           a == Answer(outcome)
           u == IF outcome = "unflushed" THEN unflushed \cup {k} ELSE unflushed \ {k}
<1>1. /\ handle /\ ~cleared /\ k \in Keys
      /\ disk' = [disk EXCEPT !.client[k] = v] /\ stored' = [stored EXCEPT ![k] = a]
      /\ unflushed' = u /\ call' = Idle /\ UNCHANGED <<handle, windows, cleared>>
  BY DEF PutReturns, StoreInv
<1>3. call.value \in Values
  BY DEF PutReturns, StoreInv
<1>4. /\ v \in Values \cup {Absent, Torn} /\ a \in Values \cup {Absent, Unknown}
      /\ u \in {unflushed, unflushed \cup {k}, unflushed \ {k}}
      /\ a \in Values => v = IF k \in u THEN Torn ELSE a
      /\ a = Absent => v = Absent
  BY <1>3, ValuesAssumption DEF FileAfter, Answer, Outcomes, Absent, Torn, Unknown
<1> HIDE DEF k, v, a, u
<1>2. /\ DOMAIN disk' = {"client", "cwd"} /\ DOMAIN disk'.client = Keys
      /\ stored' \in [Keys -> Values \cup {Absent, Unknown}]
      /\ \A i \in Keys :
           /\ stored'[i] \in Values =>
                   disk'.client[i] = IF i \in unflushed' THEN Torn ELSE stored'[i]
           /\ stored'[i] = Absent => i \notin Files(disk'.client)
      /\ windows' /\ cleared' => Files(disk'.client) = {}
  BY <1>1, <1>4, FileChanges
<1> QED BY <1>1, <1>2 DEF StoreInv

\* A removal that failed says nothing new.
LEMMA RemoveStep ==
  ASSUME StoreInv, NEW k \in Keys, NEW unlinked \in BOOLEAN, pstremove(k, unlinked)
  PROVE  StoreInv'
<1>1. handle /\ call = Idle /\ UNCHANGED <<handle, call, windows, unflushed, cleared>>
  BY DEF pstremove, CanCall
<1>2. CASE unlinked
  <2>1. disk' = [disk EXCEPT !.client[k] = Absent] /\ stored' = [stored EXCEPT ![k] = Absent]
    BY <1>2 DEF pstremove
  <2>2. /\ DOMAIN disk' = {"client", "cwd"} /\ DOMAIN disk'.client = Keys
        /\ stored' \in [Keys -> Values \cup {Absent, Unknown}]
        /\ \A i \in Keys :
             /\ stored'[i] \in Values =>
                   disk'.client[i] = IF i \in unflushed' THEN Torn ELSE stored'[i]
             /\ stored'[i] = Absent => i \notin Files(disk'.client)
        /\ windows' /\ cleared' => Files(disk'.client) = {}
    <3>1. /\ Absent \in Values \cup {Absent, Torn} /\ Absent \in Values \cup {Absent, Unknown}
          /\ unflushed \in {unflushed, unflushed \cup {k}, unflushed \ {k}}
          /\ Absent \in Values => Absent = IF k \in unflushed THEN Torn ELSE Absent
      BY AnswersDiffer
    <3>2. UNCHANGED <<handle, windows>> /\ unflushed' = unflushed /\ (cleared' => cleared) /\ handle
      BY <1>1
    <3> QED BY <2>1, <3>1, <3>2, FileChanges
  <2> QED BY <1>1, <2>2 DEF StoreInv
<1>3. CASE ~unlinked
  BY <1>1, <1>3 DEF pstremove, StoreInv
<1> QED BY <1>2, <1>3

\* A clear says nothing of the keys, and on Windows leaves no file when it
\* succeeds.
LEMMA ClearStep ==
  ASSUME StoreInv, NEW gone \in SUBSET pstkeys, pstclear(gone)
  PROVE  StoreInv'
<1>1. /\ handle /\ call = Idle /\ UNCHANGED <<handle, call, windows, unflushed>> /\ cleared' = (gone = pstkeys)
      /\ disk' = IF windows THEN clearWin32(gone) ELSE clearUnix(gone)
      /\ stored' = [k \in Keys |-> Unknown]
  BY DEF pstclear, CanCall
<1>2. DOMAIN disk = {"client", "cwd"} /\ DOMAIN disk.client = Keys
  BY <1>1 DEF StoreInv
<1>3. /\ stored' \in [Keys -> Values \cup {Absent, Unknown}]
      /\ \A i \in Keys : stored'[i] \notin Values /\ stored'[i] # Absent
  BY <1>1, ValuesAssumption DEF Unknown, Absent
<1>4. CASE windows
  <2>1. disk'.client = [k \in Keys |-> IF k \in gone THEN Absent ELSE disk.client[k]] /\ DOMAIN disk' = {"client", "cwd"}
    BY <1>1, <1>2, <1>4 DEF clearWin32
  <2>2. gone = pstkeys => Files(disk'.client) = {}
    BY <1>2, <2>1 DEF pstkeys, Files
  <2> QED BY <1>1, <1>3, <2>1, <2>2 DEF StoreInv
<1>5. CASE ~windows
  <2>1. disk'.client = disk.client /\ DOMAIN disk' = {"client", "cwd"}
    BY <1>1, <1>2, <1>5 DEF clearUnix
  <2> QED BY <1>1, <1>2, <1>3, <1>5, <2>1 DEF StoreInv
<1> QED BY <1>4, <1>5

LEMMA StoreStep == StoreInv /\ [StoreNext]_storeVars => StoreInv'
<1> SUFFICES ASSUME StoreInv, [StoreNext]_storeVars PROVE StoreInv'
  OBVIOUS
<1>1. CASE UNCHANGED storeVars
  BY <1>1 DEF storeVars, StoreInv
<1>2. ASSUME Crash PROVE StoreInv'
  BY <1>2 DEF Crash, StoreInv
<1> QED BY <1>1, <1>2, OpenStep, CloseStep, PutStep, PutReturnsStep, RemoveStep, ClearStep DEF StoreNext

\* A packet that pstput stored is what pstget finds, unless fclose failed in that very
\* put, and a file that was removed is not found again, over failed calls, stops of the
\* process inside and between calls and any number of restarts; on Windows a clear that
\* succeeded leaves nothing.
THEOREM StoreFinds == StoreSpec => []StoredIsFound
<1>1. StoreInv => StoredIsFound
  <2> SUFFICES ASSUME StoreInv, handle PROVE StoredIsFound
    BY DEF StoredIsFound
  <2>1. ASSUME NEW k \in Keys, stored[k] \in Values
        PROVE  pstget(k) = [rc |-> 0, value |-> IF k \in unflushed THEN Torn ELSE stored[k]]
    <3>1. /\ k \in DOMAIN disk.client
          /\ disk.client[k] = IF k \in unflushed THEN Torn ELSE stored[k]
          /\ stored[k] # Absent /\ Torn # Absent
      BY <2>1, ValuesAssumption DEF StoreInv, Torn, Absent
    <3> QED BY <3>1 DEF pstget, pstcontainskey, pstkeys, Files
  <2> QED BY <2>1 DEF StoreInv, StoredIsFound, pstcontainskey, pstkeys
<1> QED BY <1>1, StoreStarts, StoreStep, PTL DEF StoreSpec

----------------------------------------------------------------------------
(* Linked lists *)

\* the i-th of q, or NULL
At(q, i) == IF i \in DOMAIN q THEN q[i] ELSE NoItem

\* the elements e are linked in the order of q, and the others are freed
Chain(q, e) ==
  /\ DOMAIN e = Contents
  /\ q \in Seq(Contents)
  /\ \A i, j \in DOMAIN q : q[i] = q[j] => i = j
  /\ \A i \in DOMAIN q : e[q[i]] = [next |-> At(q, i + 1), prev |-> At(q, i - 1)]
  /\ \A c \in Contents : (\A i \in DOMAIN q : c # q[i]) => e[c] = Freed

ListInv ==
  /\ DOMAIN list = {"first", "last", "current", "count"}
  /\ Chain(items, element)
  /\ list.first = At(items, 1) /\ list.last = At(items, Len(items)) /\ list.count = Len(items)
  /\ list.current = NoItem \/ \E i \in DOMAIN items : list.current = items[i]

\* An element of the sequence is not freed.
LEMMA InChain ==
  ASSUME NEW q, NEW e, Chain(q, e), NEW i \in DOMAIN q
  PROVE  /\ i \in Int /\ i >= 1 /\ i <= Len(q) /\ Len(q) \in Nat
         /\ q[i] \in Contents /\ q[i] # NoItem
         /\ e[q[i]].next = At(q, i + 1) /\ e[q[i]].prev = At(q, i - 1)
         /\ e[q[i]] # Freed
<1>1. q \in Seq(Contents) /\ e[q[i]] = [next |-> At(q, i + 1), prev |-> At(q, i - 1)]
  BY DEF Chain
<1>2. q[i] \in Contents /\ i \in Int /\ i >= 1 /\ i <= Len(q) /\ Len(q) \in Nat
  BY <1>1
<1>3. \A j : At(q, j) \in Contents \cup {NoItem}
  BY <1>1 DEF At
<1>4. At(q, i + 1) # "freed"
  BY <1>3, ContentsAssumption DEF NoItem
<1>5. q[i] # NoItem
  BY <1>2, ContentsAssumption
<1>6. e[q[i]].next = At(q, i + 1) /\ e[q[i]].prev = At(q, i - 1)
  BY <1>1
<1>7. e[q[i]] # Freed
  <2>1. Freed.next = "freed"
    BY DEF Freed
  <2> QED BY <1>4, <1>6, <2>1
<1> QED BY <1>2, <1>5, <1>6, <1>7

\* What ListIsSequence says of a list.
LEMMA ListInvMeans == ListInv => ListIsSequence
<1> SUFFICES ASSUME ListInv PROVE ListIsSequence
  OBVIOUS
<1>1. Chain(items, element)
  BY DEF ListInv
<1>2. ASSUME NEW c \in Contents
      PROVE  Allocated(c) <=> c \in ToSet(items)
  <2>1. ToSet(items) = {items[i] : i \in DOMAIN items}
    BY DEF ToSet
  <2>2. ASSUME NEW i \in DOMAIN items, c = items[i] PROVE Allocated(c)
    BY <1>1, <2>2, InChain DEF Allocated
  <2>3. ASSUME \A i \in DOMAIN items : c # items[i] PROVE ~Allocated(c)
    BY <1>1, <2>3 DEF Chain, Allocated
  <2> QED BY <2>1, <2>2, <2>3
<1>3. list.current = NoItem \/ Allocated(list.current)
  BY <1>1, InChain DEF ListInv, Allocated
<1>4. \A i \in DOMAIN items : element[items[i]] = [next |-> At(items, i + 1), prev |-> At(items, i - 1)]
  BY <1>1 DEF Chain
<1> QED BY <1>2, <1>3, <1>4 DEF ListInv, ListIsSequence, At

----------------------------------------------------------------------------
(* Removing *)

\* r is q without its n-th
Without(r, q, n) ==
  /\ r \in Seq(Contents) /\ Len(r) = Len(q) - 1
  /\ \A i \in 1 .. Len(r) : r[i] = IF i < n THEN q[i] ELSE q[i + 1]

\* g is a, of n - 1 items, followed by b, m - 1 in all
Joins(g, a, b, n, m) ==
  /\ g \in Seq(Contents) /\ Len(g) = m - 1
  /\ \A i \in 1 .. m - 1 : g[i] = IF i <= n - 1 THEN a[i] ELSE b[i - (n - 1)]

LEMMA Concatenated ==
  ASSUME NEW a \in Seq(Contents), NEW b \in Seq(Contents), NEW n \in Nat, NEW m \in Nat, Len(a) = n - 1, Len(b) = m - n
  PROVE  Joins(a \o b, a, b, n, m)
BY SMTT(60) DEF Joins

LEMMA WithoutMade ==
  ASSUME NEW q \in Seq(Contents), NEW n \in 1 .. Len(q)
  PROVE  /\ Without(RemoveAt(q, n), q, n)
         /\ n = 1 => Without(Tail(q), q, n)
         /\ n = Len(q) => Without(Front(q), q, n)
<1>1. Without(SubSeq(q, 1, n - 1) \o SubSeq(q, n + 1, Len(q)), q, n)
  <2> DEFINE a == SubSeq(q, 1, n - 1)
             b == SubSeq(q, n + 1, Len(q))
             g == a \o b
  <2>1. n \in Nat /\ Len(q) \in Nat /\ a \in Seq(Contents) /\ Len(a) = n - 1
    OBVIOUS
  <2>2. b \in Seq(Contents) /\ Len(b) = Len(q) - n
    OBVIOUS
  <2>3. \A i \in 1 .. n - 1 : a[i] = q[i]
    OBVIOUS
  <2>4. \A i \in 1 .. Len(q) - n : b[i] = q[n + i]
    OBVIOUS
  <2> HIDE DEF a, b
  <2>5. Joins(g, a, b, n, Len(q))
    BY ONLY <2>1, <2>2, Concatenated
  <2> HIDE DEF g
  <2>6. ASSUME NEW i \in 1 .. Len(q) - 1, ~(i < n)
        PROVE  g[i] = q[i + 1]
    <3>1. i - (n - 1) \in 1 .. Len(q) - n /\ n + (i - (n - 1)) = i + 1 /\ ~(i <= n - 1)
      BY <2>1, <2>6
    <3>2. g[i] = b[i - (n - 1)]
      BY <2>5, <3>1 DEF Joins
    <3> QED BY <2>4, <3>1, <3>2
  <2>7. ASSUME NEW i \in 1 .. Len(q) - 1, i < n
        PROVE  g[i] = q[i]
    <3>1. i \in 1 .. n - 1 /\ i <= n - 1
      BY <2>1, <2>7
    <3> QED BY <2>3, <2>5, <3>1 DEF Joins
  <2>8. g \in Seq(Contents) /\ Len(g) = Len(q) - 1
    BY <2>5 DEF Joins
  <2>9. Without(g, q, n)
    BY <2>6, <2>7, <2>8 DEF Without
  <2> QED BY <2>9 DEF g, a, b
<1>2. ASSUME n = 1 PROVE Without(Tail(q), q, n)
  BY <1>2 DEF Without
<1>3. ASSUME n = Len(q) PROVE Without(SubSeq(q, 1, Len(q) - 1), q, n)
  BY SMTT(60), <1>3 DEF Without
<1> QED BY <1>1, <1>2, <1>3 DEF RemoveAt, Front

\* The ends of the shorter sequence.
LEMMA WithoutEnds ==
  ASSUME NEW q \in Seq(Contents), NEW n \in 1 .. Len(q), NEW r, Without(r, q, n)
  PROVE  /\ At(r, 1) = IF n = 1 THEN At(q, 2) ELSE At(q, 1)
         /\ At(r, Len(r)) = IF n = Len(q) THEN At(q, Len(q) - 1) ELSE At(q, Len(q))
         /\ DOMAIN r = 1 .. Len(q) - 1
<1>1. DOMAIN r = 1 .. Len(q) - 1 /\ DOMAIN q = 1 .. Len(q) /\ Len(q) \in Nat /\ Len(r) = Len(q) - 1
  BY DEF Without
<1>2. At(r, 1) = IF n = 1 THEN At(q, 2) ELSE At(q, 1)
  BY <1>1 DEF Without, At
<1>3. At(r, Len(r)) = IF n = Len(q) THEN At(q, Len(q) - 1) ELSE At(q, Len(q))
  BY <1>1 DEF Without, At
<1> QED BY ZenonT(60), <1>1, <1>2, <1>3

\* Unlinking joins the neighbours of an element.
LEMMA UnlinkedChain ==
  ASSUME Chain(items, element), NEW n \in DOMAIN items, NEW r, Without(r, items, n)
  PROVE  Chain(r, Unlinked(items[n]))
<1> DEFINE q == items
           c == q[n]
           p == element[c].prev
           x == element[c].next
           e1 == IF p # NoItem THEN [element EXCEPT ![p].next = x] ELSE element
           e2 == IF x # NoItem THEN [e1 EXCEPT ![x].prev = p] ELSE e1
           d == [e2 EXCEPT ![c] = Freed]
<1>0. Unlinked(items[n]) = d
  BY DEF Unlinked
<1>1. /\ q \in Seq(Contents) /\ Len(q) \in Nat /\ DOMAIN q = 1 .. Len(q) /\ n \in Int /\ DOMAIN element = Contents
      /\ c \in Contents /\ p = At(q, n - 1) /\ x = At(q, n + 1)
  BY InChain DEF Chain
<1>2. \A i \in DOMAIN q : q[i] \in Contents /\ q[i] # NoItem /\ element[q[i]] = [next |-> At(q, i + 1), prev |-> At(q, i - 1)]
  BY InChain DEF Chain
<1>3. \A i, j \in DOMAIN q : q[i] = q[j] => i = j
  BY DEF Chain
<1> HIDE DEF c, p, x
<1>4. DOMAIN d = Contents /\ d[c] = Freed
  BY <1>1
<1>5. ASSUME NEW y \in Contents, y # c, y # p, y # x PROVE d[y] = element[y]
  BY <1>1, <1>5
<1>6. ASSUME NEW i \in DOMAIN q, i # n
      PROVE  d[q[i]] = [next |-> IF i = n - 1 THEN At(q, n + 1) ELSE At(q, i + 1),
                        prev |-> IF i = n + 1 THEN At(q, n - 1) ELSE At(q, i - 1)]
  <2>1. q[i] # c
    BY <1>3, <1>6 DEF c
  <2>2. CASE i = n - 1
    <3>1. p = q[i] /\ p # NoItem /\ p \in Contents /\ element[p] = [next |-> At(q, i + 1), prev |-> At(q, i - 1)]
      BY <1>1, <1>2, <2>2 DEF At
    <3>2. x # p
      BY <1>1, <1>2, <1>3, <2>2, <3>1 DEF At
    <3>3. d[p] = [element[p] EXCEPT !.next = x]
      BY <1>1, <2>1, <3>1, <3>2
    <3>4. d[p] = [next |-> x, prev |-> At(q, i - 1)]
      BY <3>1, <3>3
    <3>5. i # n + 1
      BY <1>1, <2>2
    <3> QED BY <1>1, <2>2, <3>1, <3>4, <3>5
  <2>3. CASE i = n + 1
    <3>1. x = q[i] /\ x # NoItem /\ x \in Contents /\ element[x] = [next |-> At(q, i + 1), prev |-> At(q, i - 1)]
      BY <1>1, <1>2, <2>3 DEF At
    <3>2. x # p
      BY <1>1, <1>2, <1>3, <2>3, <3>1 DEF At
    <3>3. d[x] = [element[x] EXCEPT !.prev = p]
      BY <1>1, <2>1, <3>1, <3>2
    <3>4. d[x] = [next |-> At(q, i + 1), prev |-> p]
      BY <3>1, <3>3
    <3>5. i # n - 1
      BY <1>1, <2>3
    <3> QED BY <1>1, <2>3, <3>1, <3>4, <3>5
  <2>4. CASE i # n - 1 /\ i # n + 1
    <3>1. q[i] # p /\ q[i] # x
      BY <1>1, <1>2, <1>3, <2>4 DEF At
    <3> QED BY <1>2, <1>5, <2>1, <2>4, <3>1
  <2> QED BY <2>2, <2>3, <2>4
<1>7. ASSUME NEW y \in Contents, \A i \in DOMAIN q : y # q[i]
      PROVE  d[y] = Freed
  <2>1. y # c /\ y # p /\ y # x
    BY <1>1, <1>7, ContentsAssumption DEF At, c
  <2> QED BY <1>5, <1>7, <2>1 DEF Chain
<1> HIDE DEF d
<1>8. DOMAIN r = 1 .. Len(q) - 1 /\ r \in Seq(Contents)
  BY <1>1, WithoutEnds DEF Without
<1> DEFINE up(i) == IF i < n THEN i ELSE i + 1
<1>9. ASSUME NEW i \in DOMAIN r
      PROVE  up(i) \in DOMAIN q /\ up(i) # n /\ r[i] = q[up(i)]
  BY <1>1, <1>8 DEF Without
<1>10. ASSUME NEW i \in DOMAIN r, NEW j \in DOMAIN r, r[i] = r[j]
       PROVE  i = j
  <2>1. up(i) = up(j)
    BY <1>3, <1>9, <1>10
  <2> QED BY <1>1, <1>8, <2>1
<1>11. ASSUME NEW i \in DOMAIN r
       PROVE  d[r[i]] = [next |-> At(r, i + 1), prev |-> At(r, i - 1)]
  <2>1. At(r, i + 1) = IF up(i) = n - 1 THEN At(q, n + 1) ELSE At(q, up(i) + 1)
    BY <1>1, <1>8 DEF Without, At
  <2>2. At(r, i - 1) = IF up(i) = n + 1 THEN At(q, n - 1) ELSE At(q, up(i) - 1)
    <3>1. CASE i < n
      BY <1>1, <1>8, <3>1 DEF Without, At
    <3>2. CASE i = n
      BY <1>1, <1>8, <3>2 DEF Without, At
    <3>3. CASE i > n
      <4>1. i - 1 \in DOMAIN r /\ r[i - 1] = q[i] /\ i \in DOMAIN q
        BY <1>1, <1>8, <3>3 DEF Without
      <4>2. up(i) = i + 1 /\ i + 1 # n + 1 /\ (i + 1) - 1 = i
        BY <1>1, <1>8, <3>3
      <4> QED BY <4>1, <4>2 DEF At
    <3> QED BY <1>1, <1>8, <3>1, <3>2, <3>3
  <2>3. up(i) \in DOMAIN q /\ up(i) # n /\ r[i] = q[up(i)]
    BY <1>9
  <2> HIDE DEF up
  <2> QED BY <1>6, <2>1, <2>2, <2>3
<1>12. ASSUME NEW y \in Contents, \A i \in DOMAIN r : y # r[i]
       PROVE  d[y] = Freed
  <2>1. CASE y = c
    BY <1>4, <2>1
  <2>2. ASSUME y # c, NEW i \in DOMAIN q, y = q[i] PROVE FALSE
    <3>1. i # n
      BY <2>2 DEF c
    <3>2. CASE i < n
      <4>1. i \in DOMAIN r /\ r[i] = q[i]
        BY <1>1, <1>8, <3>2 DEF Without
      <4> QED BY <1>12, <2>2, <4>1
    <3>3. CASE i > n
      <4>1. i - 1 \in DOMAIN r /\ r[i - 1] = q[i]
        BY <1>1, <1>8, <3>3 DEF Without
      <4> QED BY <1>12, <2>2, <4>1
    <3> QED BY <1>1, <3>1, <3>2, <3>3
  <2> QED BY <1>7, <2>1, <2>2
<1>13. Chain(r, d)
  BY <1>4, <1>8, <1>10, <1>11, <1>12 DEF Chain
<1> QED BY <1>0, <1>13

----------------------------------------------------------------------------
(* Adding *)

\* r is q with c in front of its n-th, or at the end
With(r, q, n, c) ==
  /\ r \in Seq(Contents) /\ Len(r) = Len(q) + 1
  /\ \A i \in 1 .. Len(r) : r[i] = IF i < n THEN q[i] ELSE IF i = n THEN c ELSE q[i - 1]

LEMMA WithMade ==
  ASSUME NEW q \in Seq(Contents), NEW c \in Contents
  PROVE  /\ With(Append(q, c), q, Len(q) + 1, c)
         /\ \A n \in 1 .. Len(q) : With(InsertAt(q, n, c), q, n, c)
<1>1. With(Append(q, c), q, Len(q) + 1, c)
  BY DEF With
<1>2. ASSUME NEW n \in 1 .. Len(q) PROVE With(InsertAt(q, n, c), q, n, c)
  <2> DEFINE a == SubSeq(q, 1, n - 1)
             b == SubSeq(q, n, Len(q))
             h == a \o <<c>>
             g == h \o b
             k == n + 1
             m == Len(q) + 2
  <2>1. n \in Nat /\ Len(q) \in Nat /\ a \in Seq(Contents) /\ Len(a) = n - 1
    OBVIOUS
  <2>2. b \in Seq(Contents) /\ Len(b) = Len(q) - n + 1
    OBVIOUS
  <2>3. \A i \in 1 .. n - 1 : a[i] = q[i]
    OBVIOUS
  <2>4. \A i \in 1 .. Len(q) - n + 1 : b[i] = q[n + i - 1]
    OBVIOUS
  <2> HIDE DEF a, b
  <2>5. h \in Seq(Contents) /\ Len(h) = n
    BY <2>1
  <2>6. h[n] = c /\ \A i \in 1 .. n - 1 : h[i] = a[i]
    BY <2>1
  <2> HIDE DEF h
  <2>7. k \in Nat /\ m \in Nat /\ Len(h) = k - 1 /\ Len(b) = m - k
    BY <2>1, <2>2, <2>5
  <2>8. k - 1 = n /\ m - 1 = Len(q) + 1
    BY <2>1
  <2> HIDE DEF k, m
  <2>9. Joins(g, h, b, k, m)
    BY ONLY <2>2, <2>5, <2>7, Concatenated
  <2> HIDE DEF g
  <2>10. g \in Seq(Contents) /\ Len(g) = Len(q) + 1
    BY <2>8, <2>9 DEF Joins
  <2>11. \A i \in 1 .. Len(q) + 1 : g[i] = IF i <= n THEN h[i] ELSE b[i - n]
    BY <2>8, <2>9 DEF Joins
  <2>12. ASSUME NEW i \in 1 .. Len(q) + 1
         PROVE  g[i] = IF i < n THEN q[i] ELSE IF i = n THEN c ELSE q[i - 1]
    <3>1. CASE i < n
      <4>1. i \in 1 .. n - 1 /\ i <= n
        BY <2>1, <3>1
      <4>2. g[i] = h[i] /\ h[i] = a[i] /\ a[i] = q[i]
        BY <2>3, <2>6, <2>11, <4>1
      <4> QED BY <3>1, <4>2
    <3>2. CASE i = n
      <4>1. i <= n /\ ~(i < n)
        BY <2>1, <3>2
      <4>2. g[i] = c
        BY <2>6, <2>11, <3>2, <4>1
      <4> QED BY <3>2, <4>1, <4>2
    <3>3. CASE i > n
      <4>1. i - n \in 1 .. Len(q) - n + 1 /\ n + (i - n) - 1 = i - 1 /\ ~(i <= n) /\ ~(i < n) /\ i # n
        BY <2>1, <3>3
      <4>2. g[i] = b[i - n]
        BY <2>11, <4>1
      <4> QED BY <2>4, <4>1, <4>2
    <3>4. i < n \/ i = n \/ i > n
      BY <2>1
    <3> QED BY <3>1, <3>2, <3>3, <3>4
  <2>13. With(g, q, n, c)
    BY <2>10, <2>12 DEF With
  <2> QED BY <2>13 DEF InsertAt, g, h, a, b
<1> QED BY <1>1, <1>2

LEMMA WithEnds ==
  ASSUME NEW q \in Seq(Contents), NEW n \in 1 .. Len(q) + 1, NEW c, NEW r, With(r, q, n, c)
  PROVE  /\ At(r, 1) = IF n = 1 THEN c ELSE At(q, 1)
         /\ At(r, Len(r)) = IF n = Len(q) + 1 THEN c ELSE At(q, Len(q))
         /\ DOMAIN r = 1 .. Len(q) + 1
<1>1. DOMAIN r = 1 .. Len(q) + 1 /\ DOMAIN q = 1 .. Len(q) /\ Len(q) \in Nat /\ Len(r) = Len(q) + 1
  BY DEF With
<1>2. At(r, 1) = IF n = 1 THEN c ELSE At(q, 1)
  BY <1>1 DEF With, At
<1>3. At(r, Len(r)) = IF n = Len(q) + 1 THEN c ELSE At(q, Len(q))
  BY <1>1 DEF With, At
<1> QED BY <1>1, <1>2, <1>3

\* the elements d are e with c linked in front of the n-th of q
Joined(d, e, q, n, c) ==
  /\ DOMAIN d = Contents
  /\ d[c] = [next |-> At(q, n), prev |-> At(q, n - 1)]
  /\ \A i \in DOMAIN q : d[q[i]] = [next |-> IF i = n - 1 THEN c ELSE At(q, i + 1),
                                    prev |-> IF i = n THEN c ELSE At(q, i - 1)]
  /\ \A y \in Contents : y # c /\ (\A i \in DOMAIN q : y # q[i]) => d[y] = e[y]

LEMMA JoinedChain ==
  ASSUME NEW q, NEW e, Chain(q, e), NEW n \in 1 .. Len(q) + 1, NEW c \in Contents, e[c] = Freed,
         NEW d, Joined(d, e, q, n, c), NEW r, With(r, q, n, c)
  PROVE  Chain(r, d)
<1>1. /\ q \in Seq(Contents) /\ Len(q) \in Nat /\ DOMAIN q = 1 .. Len(q) /\ n \in Int
      /\ r \in Seq(Contents) /\ DOMAIN r = 1 .. Len(q) + 1
  BY DEF Chain, With
<1>2. \A i \in DOMAIN q : q[i] # c
  BY InChain
<1>3. ASSUME NEW i \in DOMAIN r, NEW j \in DOMAIN r, r[i] = r[j] PROVE i = j
  <2> DEFINE of(k) == IF k < n THEN k ELSE k - 1
  <2>1. ASSUME NEW k \in DOMAIN r, k # n PROVE of(k) \in DOMAIN q /\ r[k] = q[of(k)] /\ r[k] # c
    <3>1. of(k) \in DOMAIN q /\ r[k] = q[of(k)]
      BY <1>1, <2>1 DEF With
    <3> QED BY <1>2, <3>1
  <2>2. n \in DOMAIN r /\ r[n] = c
    BY <1>1 DEF With
  <2>3. CASE i = n \/ j = n
    BY <1>3, <2>1, <2>2, <2>3
  <2>4. CASE i # n /\ j # n
    <3>1. of(i) = of(j)
      BY <1>3, <2>1, <2>4 DEF Chain
    <3> QED BY <1>1, <2>4, <3>1
  <2> QED BY <2>3, <2>4
<1>4. ASSUME NEW i \in DOMAIN r
      PROVE  d[r[i]] = [next |-> At(r, i + 1), prev |-> At(r, i - 1)]
  <2>1. CASE i < n
    <3>1. i \in DOMAIN q /\ r[i] = q[i] /\ i # n
      BY <1>1, <2>1 DEF With
    <3>2. At(r, i + 1) = IF i = n - 1 THEN c ELSE At(q, i + 1)
      BY <1>1, <2>1 DEF With, At
    <3>3. At(r, i - 1) = At(q, i - 1)
      BY <1>1, <2>1 DEF With, At
    <3> QED BY <3>1, <3>2, <3>3 DEF Joined
  <2>2. CASE i = n
    <3>1. r[i] = c
      BY <1>1, <2>2 DEF With
    <3>2. At(r, i + 1) = At(q, n)
      BY <1>1, <2>2 DEF With, At
    <3>3. At(r, i - 1) = At(q, n - 1)
      BY <1>1, <2>2 DEF With, At
    <3> QED BY <3>1, <3>2, <3>3 DEF Joined
  <2>3. CASE i > n
    <3>1. i - 1 \in DOMAIN q /\ r[i] = q[i - 1] /\ i - 1 # n - 1
      BY <1>1, <2>3 DEF With
    <3>2. At(r, i + 1) = At(q, (i - 1) + 1)
      <4>1. i + 1 \in DOMAIN r <=> i \in DOMAIN q
        BY <1>1
      <4>2. i + 1 \in DOMAIN r => r[i + 1] = q[i]
        BY <1>1, <2>3 DEF With
      <4>3. (i - 1) + 1 = i
        BY <1>1
      <4> QED BY <4>1, <4>2, <4>3 DEF At
    <3>3. At(r, i - 1) = IF i - 1 = n THEN c ELSE At(q, (i - 1) - 1)
      <4>1. i - 1 \in DOMAIN r /\ i - 1 >= n
        BY <1>1, <2>3
      <4>2. CASE i - 1 = n
        BY <1>1, <4>1, <4>2 DEF With, At
      <4>3. CASE i - 1 # n
        <5>1. r[i - 1] = q[(i - 1) - 1] /\ (i - 1) - 1 \in DOMAIN q
          BY <1>1, <4>1, <4>3 DEF With
        <5> QED BY <4>1, <4>3, <5>1 DEF At
      <4> QED BY <4>2, <4>3
    <3> QED BY <3>1, <3>2, <3>3 DEF Joined
  <2> QED BY <1>1, <2>1, <2>2, <2>3
<1>5. ASSUME NEW y \in Contents, \A i \in DOMAIN r : y # r[i] PROVE d[y] = Freed
  <2>1. n \in DOMAIN r /\ r[n] = c
    BY <1>1 DEF With
  <2>2. ASSUME NEW i \in DOMAIN q PROVE y # q[i]
    <3>1. CASE i < n
      <4>1. i \in DOMAIN r /\ r[i] = q[i]
        BY <1>1, <3>1 DEF With
      <4> QED BY <1>5, <4>1
    <3>2. CASE i >= n
      <4>1. i + 1 \in DOMAIN r /\ r[i + 1] = q[i]
        BY <1>1, <3>2 DEF With
      <4> QED BY <1>5, <4>1
    <3> QED BY <1>1, <3>1, <3>2
  <2> QED BY <1>5, <2>1, <2>2 DEF Joined, Chain
<1> QED BY <1>1, <1>3, <1>4, <1>5 DEF Chain, Joined

\* An allocated element has a place in the sequence, where Position finds it.
LEMMA PositionIs ==
  ASSUME Chain(items, element), NEW c \in Contents, Allocated(c)
  PROVE  /\ Position(c) \in DOMAIN items /\ items[Position(c)] = c
         /\ Position(c) \in 1 .. Len(items)
<1>1. \E i \in DOMAIN items : items[i] = c
  BY DEF Chain, Allocated
<1>2. Position(c) \in DOMAIN items /\ items[Position(c)] = c
  BY <1>1 DEF Position
<1>3. items \in Seq(Contents)
  BY DEF Chain
<1> QED BY <1>2, <1>3

\* An element of the longer sequence.
LEMMA WithHas ==
  ASSUME NEW q \in Seq(Contents), NEW n \in 1 .. Len(q) + 1, NEW c, NEW r, With(r, q, n, c), NEW i \in DOMAIN q
  PROVE  \E j \in DOMAIN r : r[j] = q[i]
<1>1. DOMAIN r = 1 .. Len(q) + 1 /\ DOMAIN q = 1 .. Len(q) /\ Len(q) \in Nat /\ Len(r) = Len(q) + 1
  BY DEF With
<1>2. CASE i < n
  <2>1. i \in DOMAIN r /\ r[i] = q[i]
    BY <1>1, <1>2 DEF With
  <2> QED BY <2>1
<1>3. CASE i >= n
  <2>1. i + 1 \in DOMAIN r /\ r[i + 1] = q[i]
    BY <1>1, <1>3 DEF With
  <2> QED BY <2>1
<1> QED BY <1>1, <1>2, <1>3

LEMMA AppendStep ==
  ASSUME ListInv, NEW c \in Contents, ListAppend(c)
  PROVE  ListInv'
<1> DEFINE q == items
           n == Len(q) + 1
           e == [element EXCEPT ![c] = [next |-> NoItem, prev |-> list.last]]
<1>1. /\ Chain(q, element) /\ DOMAIN list = {"first", "last", "current", "count"}
      /\ list.first = At(q, 1) /\ list.last = At(q, Len(q)) /\ list.count = Len(q)
      /\ list.current = NoItem \/ \E i \in DOMAIN q : list.current = q[i]
  BY DEF ListInv
<1>2. /\ q \in Seq(Contents) /\ Len(q) \in Nat /\ DOMAIN q = 1 .. Len(q) /\ DOMAIN element = Contents
      /\ element[c] = Freed /\ n \in 1 .. Len(q) + 1
  BY <1>1 DEF Chain, ListAppend, Allocated
<1>3. /\ \A i \in DOMAIN q : /\ q[i] \in Contents /\ q[i] # NoItem /\ q[i] # c
                             /\ element[q[i]] = [next |-> At(q, i + 1), prev |-> At(q, i - 1)]
      /\ \A i, j \in DOMAIN q : q[i] = q[j] => i = j
  <2>1. ASSUME NEW i \in DOMAIN q PROVE q[i] \in Contents /\ q[i] # NoItem /\ q[i] # c
    BY <1>1, <1>2, InChain
  <2> QED BY <1>1, <2>1 DEF Chain
<1>4. With(items', q, n, c)
  BY <1>2, WithMade DEF ListAppend
<1>5. At(q, n) = NoItem /\ n - 1 = Len(q)
  BY <1>2 DEF At
<1>6. Joined(element', element, q, n, c)
  <2>1. CASE Len(q) = 0
    <3>1. element' = e /\ DOMAIN q = {}
      BY <1>1, <1>2, <2>1 DEF ListAppend, At
    <3> QED BY <1>1, <1>2, <1>5, <3>1 DEF Joined
  <2>2. CASE Len(q) # 0
    <3> DEFINE l == list.last
    <3>1. 1 \in DOMAIN q /\ Len(q) \in DOMAIN q
      BY <1>2, <2>2
    <3>2. list.first # NoItem /\ l = q[Len(q)] /\ l \in Contents /\ l # c /\ At(q, n - 1) = l
      BY <1>1, <1>3, <1>5, <3>1 DEF At
    <3>3. element' = [e EXCEPT ![l].next = c]
      BY <3>2 DEF ListAppend
    <3> HIDE DEF l
    <3>4. DOMAIN e = Contents /\ e[l] = element[l] /\ e[c] = [next |-> NoItem, prev |-> l]
      BY <1>2, <3>2 DEF l
    <3>5. /\ DOMAIN element' = Contents /\ element'[c] = e[c] /\ element'[l] = [e[l] EXCEPT !.next = c]
          /\ \A y \in Contents : y # c /\ y # l => element'[y] = element[y]
      BY <1>2, <3>2, <3>3, <3>4
    <3>6. ASSUME NEW i \in DOMAIN q
          PROVE  element'[q[i]] = [next |-> IF i = n - 1 THEN c ELSE At(q, i + 1),
                                   prev |-> IF i = n THEN c ELSE At(q, i - 1)]
      <4>1. i # n
        BY SMTT(60), <1>2
      <4>2. CASE i = Len(q)
        <5>1. q[i] = l /\ element[l] = [next |-> At(q, i + 1), prev |-> At(q, i - 1)]
          BY <1>3, <3>2, <4>2
        <5>2. element'[l] = [next |-> c, prev |-> At(q, i - 1)]
          BY <3>4, <3>5, <5>1
        <5> QED BY ZenonT(60), <1>5, <4>1, <4>2, <5>1, <5>2
      <4>3. CASE i # Len(q)
        <5>1. q[i] # l /\ q[i] # c /\ q[i] \in Contents
          BY <1>3, <3>1, <3>2, <4>3
        <5> QED BY <1>3, <1>5, <3>5, <4>1, <4>3, <5>1
      <4> QED BY <4>2, <4>3
    <3>7. ASSUME NEW y \in Contents, y # c, \A i \in DOMAIN q : y # q[i] PROVE element'[y] = element[y]
      BY <3>1, <3>2, <3>5, <3>7
    <3> HIDE DEF e
    <3> QED BY <1>5, <3>2, <3>4, <3>5, <3>6, <3>7 DEF Joined
  <2> QED BY <2>1, <2>2
<1> HIDE DEF n
<1>7. Chain(items', element')
  BY <1>1, <1>2, <1>4, <1>6, JoinedChain
<1>8. /\ At(items', 1) = IF n = 1 THEN c ELSE At(q, 1)
      /\ At(items', Len(items')) = IF n = Len(q) + 1 THEN c ELSE At(q, Len(q))
  BY <1>2, <1>4, WithEnds
<1>9. /\ DOMAIN list' = {"first", "last", "current", "count"}
      /\ list'.first = (IF list.first = NoItem THEN c ELSE list.first) /\ list'.last = c
      /\ list'.current = list.current /\ list'.count = list.count + 1
  BY <1>1 DEF ListAppend
<1>10. list.first = NoItem <=> n = 1
  <2>1. 1 \in DOMAIN q => q[1] # NoItem
    BY <1>3
  <2>2. 1 \in DOMAIN q <=> n # 1
    BY <1>2 DEF n
  <2> QED BY <1>1, <2>1, <2>2 DEF At
<1>11. Len(items') = Len(q) + 1
  BY <1>4 DEF With
<1>12. list'.current = NoItem \/ \E j \in DOMAIN items' : list'.current = items'[j]
  BY <1>1, <1>2, <1>4, <1>9, WithHas
<1>13. list'.first = At(items', 1) /\ list'.last = At(items', Len(items')) /\ list'.count = Len(items')
  BY <1>1, <1>8, <1>9, <1>10, <1>11 DEF n
<1> QED BY <1>7, <1>9, <1>12, <1>13 DEF ListInv

LEMMA InsertStep ==
  ASSUME ListInv, NEW c \in Contents, NEW index \in Contents, ListInsert(c, index)
  PROVE  ListInv'
<1> DEFINE q == items
           n == Position(index)
           p == element[index].prev
           e == [element EXCEPT ![c] = [next |-> index, prev |-> p], ![index].prev = c]
<1>1. /\ Chain(q, element) /\ DOMAIN list = {"first", "last", "current", "count"}
      /\ list.first = At(q, 1) /\ list.last = At(q, Len(q)) /\ list.count = Len(q)
      /\ list.current = NoItem \/ \E i \in DOMAIN q : list.current = q[i]
  BY DEF ListInv
<1>2. n \in DOMAIN q /\ q[n] = index /\ n \in 1 .. Len(q)
  BY <1>1, PositionIs DEF ListInsert
<1>3. /\ q \in Seq(Contents) /\ Len(q) \in Nat /\ DOMAIN q = 1 .. Len(q) /\ DOMAIN element = Contents
      /\ element[c] = Freed /\ n \in 1 .. Len(q) + 1
  BY <1>1, <1>2 DEF Chain, ListInsert, Allocated
<1>4. /\ \A i \in DOMAIN q : /\ q[i] \in Contents /\ q[i] # NoItem /\ q[i] # c
                             /\ element[q[i]] = [next |-> At(q, i + 1), prev |-> At(q, i - 1)]
      /\ \A i, j \in DOMAIN q : q[i] = q[j] => i = j
  <2>1. ASSUME NEW i \in DOMAIN q PROVE q[i] \in Contents /\ q[i] # NoItem /\ q[i] # c
    BY <1>1, <1>3, InChain
  <2> QED BY <1>1, <2>1 DEF Chain
<1>5. /\ element' = IF p # NoItem THEN [e EXCEPT ![p].next = c] ELSE e
      /\ items' = InsertAt(q, n, c)
  BY DEF ListInsert
<1>6. /\ DOMAIN list' = {"first", "last", "current", "count"}
      /\ list'.first = (IF p # NoItem THEN list.first ELSE c) /\ list'.last = list.last
      /\ list'.current = list.current /\ list'.count = list.count + 1
  BY <1>1 DEF ListInsert
<1>7. /\ p = At(q, n - 1) /\ At(q, n) = index /\ index # c
      /\ element[index] = [next |-> At(q, n + 1), prev |-> At(q, n - 1)]
  <2>1. q[n] # c /\ element[q[n]] = [next |-> At(q, n + 1), prev |-> At(q, n - 1)]
    BY <1>2, <1>4
  <2>2. element[index].prev = At(q, n - 1)
    BY <1>2, <2>1
  <2> HIDE DEF n
  <2> QED BY <1>2, <2>1, <2>2 DEF At
<1> HIDE DEF n
<1>8. /\ DOMAIN e = Contents /\ e[c] = [next |-> index, prev |-> p] /\ e[index] = [element[index] EXCEPT !.prev = c]
      /\ \A y \in Contents : y # c /\ y # index => e[y] = element[y]
  BY <1>3, <1>7
<1> HIDE DEF p, e
<1>9. e[index] = [next |-> At(q, n + 1), prev |-> c]
  BY <1>7, <1>8
<1>10. Joined(element', element, q, n, c)
  <2>1. CASE p = NoItem
    <3>1. n = 1
      <4>1. n - 1 \notin DOMAIN q
        BY <1>4, <1>7, <2>1 DEF At
      <4> QED BY <1>2, <1>3, <4>1
    <3>2. element' = e
      BY <1>5, <2>1
    <3>3. ASSUME NEW i \in DOMAIN q
          PROVE  e[q[i]] = [next |-> IF i = n - 1 THEN c ELSE At(q, i + 1), prev |-> IF i = n THEN c ELSE At(q, i - 1)]
      <4>1. i # n - 1
        BY <1>3, <3>1
      <4>2. CASE i = n
        BY <1>2, <1>9, <4>1, <4>2
      <4>3. CASE i # n
        <5>1. q[i] # index /\ q[i] # c /\ q[i] \in Contents
          BY <1>2, <1>4, <4>3
        <5> QED BY <1>4, <1>8, <4>1, <4>3, <5>1
      <4> QED BY <4>2, <4>3
    <3>4. ASSUME NEW y \in Contents, y # c, \A i \in DOMAIN q : y # q[i] PROVE e[y] = element[y]
      BY <1>2, <1>8, <3>4
    <3> QED BY <1>7, <1>8, <3>2, <3>3, <3>4 DEF Joined
  <2>2. CASE p # NoItem
    <3>1. n - 1 \in DOMAIN q /\ p = q[n - 1]
      BY <1>7, <2>2 DEF At
    <3>2. p \in Contents /\ p # c /\ p # index
      <4>1. n - 1 # n
        BY <1>3
      <4>2. q[n - 1] # q[n] /\ q[n - 1] \in Contents /\ q[n - 1] # c
        BY <1>2, <1>4, <3>1, <4>1
      <4> QED BY <1>2, <3>1, <4>2
    <3>3. element' = [e EXCEPT ![p].next = c]
      BY <1>5, <2>2
    <3>4. /\ DOMAIN element' = Contents /\ element'[p] = [e[p] EXCEPT !.next = c]
          /\ \A y \in Contents : y # p => element'[y] = e[y]
      BY <1>8, <3>2, <3>3
    <3>5. element'[p] = [next |-> c, prev |-> At(q, (n - 1) - 1)]
      <4>1. element[p] = [next |-> At(q, (n - 1) + 1), prev |-> At(q, (n - 1) - 1)]
        BY <1>4, <3>1
      <4>2. e[p] = element[p]
        BY <1>8, <3>2
      <4> QED BY <3>4, <4>1, <4>2
    <3>6. ASSUME NEW i \in DOMAIN q
          PROVE  element'[q[i]] = [next |-> IF i = n - 1 THEN c ELSE At(q, i + 1),
                                   prev |-> IF i = n THEN c ELSE At(q, i - 1)]
      <4>1. CASE i = n - 1
        <5>1. i # n
          BY <1>3, <4>1
        <5> QED BY <3>1, <3>5, <4>1, <5>1
      <4>2. CASE i = n
        <5>1. i # n - 1 /\ q[i] # p
          BY <1>2, <1>3, <3>2, <4>2
        <5> QED BY <1>2, <1>4, <1>9, <3>4, <4>2, <5>1
      <4>3. CASE i # n /\ i # n - 1
        <5>1. q[i] # index /\ q[i] # c /\ q[i] \in Contents /\ q[i] # p
          BY <1>2, <1>4, <3>1, <4>3
        <5> QED BY <1>4, <1>8, <3>4, <4>3, <5>1
      <4> QED BY <4>1, <4>2, <4>3
    <3>7. ASSUME NEW y \in Contents, y # c, \A i \in DOMAIN q : y # q[i] PROVE element'[y] = element[y]
      BY <1>2, <1>8, <3>1, <3>4, <3>7
    <3> QED BY <1>7, <1>8, <3>2, <3>4, <3>6, <3>7 DEF Joined
  <2> QED BY <2>1, <2>2
<1>11. With(items', q, n, c)
  BY <1>2, <1>3, <1>5, WithMade
<1>12. Chain(items', element')
  BY <1>1, <1>3, <1>10, <1>11, JoinedChain
<1>13. /\ At(items', 1) = IF n = 1 THEN c ELSE At(q, 1)
       /\ At(items', Len(items')) = IF n = Len(q) + 1 THEN c ELSE At(q, Len(q))
  BY <1>3, <1>11, WithEnds
<1>14. (p = NoItem <=> n = 1) /\ n # Len(q) + 1
  <2>1. n - 1 \in DOMAIN q => q[n - 1] # NoItem
    BY <1>4
  <2>2. n - 1 \in DOMAIN q <=> n # 1
    BY <1>2, <1>3
  <2>3. n # Len(q) + 1
    BY <1>2, <1>3
  <2> QED BY <1>7, <2>1, <2>2, <2>3 DEF At
<1>15. Len(items') = Len(q) + 1
  BY <1>11 DEF With
<1>16. list'.current = NoItem \/ \E j \in DOMAIN items' : list'.current = items'[j]
  BY <1>1, <1>3, <1>6, <1>11, WithHas
<1>17. list'.first = At(items', 1) /\ list'.last = At(items', Len(items')) /\ list'.count = Len(items')
  BY <1>1, <1>6, <1>13, <1>14, <1>15
<1> QED BY <1>6, <1>12, <1>16, <1>17 DEF ListInv

----------------------------------------------------------------------------
(* Searching *)

LEMMA LeastOf ==
  ASSUME NEW S \in SUBSET Nat, S # {}
  PROVE  \E i \in S : \A j \in S : i <= j
<1> DEFINE R == OpToRel(<, Nat)
<1>1. IsWellFoundedOn(R, Nat)
  BY NatLessThanWellFounded
<1>2. \A x, y \in Nat : y < x => <<y, x>> \in R
  BY DEF OpToRel
<1> HIDE DEF R
<1>3. PICK i \in S : \A j \in S : ~(<<j, i>> \in R)
  BY <1>1, WFMin
<1>4. ASSUME NEW j \in S
      PROVE  i <= j
  <2>1. i \in Nat /\ j \in Nat
    OBVIOUS
  <2>2. ~(j < i)
    BY <1>2, <1>3, <2>1
  <2> QED BY <2>1, <2>2
<1> QED BY <1>4

\* the i-th place of a walk: before the first element, then each of them
Place(i) == IF i = 0 THEN NoItem ELSE items[i]
Places == {c \in Contents : Allocated(c)} \cup {NoItem}

\* ListNextElement goes from place to place.
LEMMA NextPlace ==
  ASSUME ListInv, NEW i \in 0 .. Len(items)
  PROVE  Place(i) \in Places /\ ListNextElement(Place(i)) = At(items, i + 1)
<1>1. Chain(items, element) /\ list.first = At(items, 1)
  BY DEF ListInv
<1>2. DOMAIN items = 1 .. Len(items) /\ Len(items) \in Nat
  BY <1>1 DEF Chain
<1>3. CASE i = 0
  BY <1>1, <1>3 DEF Place, Places, ListNextElement
<1>4. CASE i # 0
  <2>1. i \in DOMAIN items
    BY <1>2, <1>4
  <2>2. /\ items[i] \in Contents /\ items[i] # NoItem /\ element[items[i]].next = At(items, i + 1)
        /\ element[items[i]] # Freed
    BY <1>1, <2>1, InChain
  <2> QED BY <1>4, <2>2 DEF Place, Places, ListNextElement, Allocated
<1> QED BY <1>3, <1>4

\* Every place has its number.
LEMMA PlaceOf ==
  ASSUME ListInv, NEW pos \in Places
  PROVE  \E i \in 0 .. Len(items) : pos = Place(i)
<1>1. Chain(items, element)
  BY DEF ListInv
<1>2. CASE pos = NoItem
  <2>1. 0 \in 0 .. Len(items)
    BY <1>1 DEF Chain
  <2> QED BY <1>2, <2>1 DEF Place
<1>3. CASE pos # NoItem
  <2>1. pos \in Contents /\ Allocated(pos)
    BY <1>3 DEF Places
  <2>2. Position(pos) \in 1 .. Len(items) /\ items[Position(pos)] = pos
    BY <1>1, <2>1, PositionIs
  <2>3. Position(pos) \in 0 .. Len(items) /\ Position(pos) # 0
    BY <2>2
  <2> QED BY <2>2, <2>3 DEF Place
<1> QED BY <1>2, <1>3

\* ListFindItem returns an element that matches or NULL, and never one that is
\* freed: the walk ends because the list does.
LEMMA SearchFinds ==
  ASSUME ListInv, NEW found \in SUBSET Contents
  PROVE  Search(found) = NoItem \/ \E i \in DOMAIN items : Search(found) = items[i]
<1> DEFINE W(g) == [pos \in Places |-> LET c == ListNextElement(pos) IN IF c = NoItem \/ c \in found THEN c ELSE g[c]]
           f == CHOOSE g : g = W(g)
           n == Len(items)
<1>1. Search(found) = f[NoItem]
  BY DEF Search, Places
<1>2. Chain(items, element) /\ n \in Nat /\ DOMAIN items = 1 .. n
  BY DEF ListInv, Chain
<1>3. \E g : g = W(g)
  <2> DEFINE ahead(i) == {j \in 1 .. n : j > i /\ items[j] \in found}
             least(S) == CHOOSE j \in S : \A k \in S : j <= k
             hit(i) == IF ahead(i) = {} THEN NoItem ELSE items[least(ahead(i))]
             num(pos) == CHOOSE i \in 0 .. n : pos = Place(i)
             g == [pos \in Places |-> hit(num(pos))]
  <2>1. ASSUME NEW i \in 0 .. n, NEW j \in 0 .. n, Place(i) = Place(j) PROVE i = j
    <3>1. \A k \in 1 .. n : Place(k) = items[k] /\ items[k] # NoItem
      <4>1. ASSUME NEW k \in 1 .. n PROVE items[k] # NoItem /\ k # 0
        <5>1. k \in DOMAIN items /\ k # 0
          BY <1>2, <4>1
        <5> QED BY <1>2, <5>1, InChain
      <4> QED BY <4>1 DEF Place
    <3>2. Place(0) = NoItem
      BY DEF Place
    <3>3. \A k, m \in 1 .. n : items[k] = items[m] => k = m
      BY <1>2 DEF Chain
    <3>4. i = 0 \/ i \in 1 .. n
      BY <1>2
    <3>5. j = 0 \/ j \in 1 .. n
      BY <1>2
    <3> QED BY <2>1, <3>1, <3>2, <3>3, <3>4, <3>5
  <2>2. ASSUME NEW i \in 0 .. n PROVE num(Place(i)) = i
    <3>1. num(Place(i)) \in 0 .. n /\ Place(i) = Place(num(Place(i)))
      OBVIOUS
    <3> HIDE DEF num
    <3> QED BY <2>1, <3>1
  <2>3. ASSUME NEW i \in 0 .. n
        PROVE  hit(i) = LET c == At(items, i + 1) IN IF c = NoItem \/ c \in found THEN c ELSE hit(i + 1)
    <3>1. CASE i = n
      <4>1. ahead(i) = {} /\ At(items, i + 1) = NoItem
        BY <1>2, <3>1 DEF At
      <4> HIDE DEF ahead
      <4> QED BY <4>1
    <3>2. CASE i # n
      <4>0. i + 1 \in 1 .. n
        <5>1. n \in Nat /\ i \in 0 .. n /\ i # n
          BY ZenonT(60), <1>2, <3>2
        <5> HIDE DEF n
        <5> QED BY ONLY <5>1
      <4>1. i + 1 \in 1 .. n /\ i + 1 \in DOMAIN items
        BY ONLY <1>2, <4>0
      <4>2. At(items, i + 1) = items[i + 1] /\ items[i + 1] # NoItem
        BY <1>2, <4>1, InChain DEF At
      <4>3. CASE items[i + 1] \in found
        <5>1. i + 1 \in ahead(i) /\ \A k \in ahead(i) : k \in Int /\ i + 1 <= k
          BY <4>1, <4>3
        <5> HIDE DEF ahead
        <5>2. least(ahead(i)) \in ahead(i) /\ least(ahead(i)) <= i + 1
          BY <5>1
        <5>3. least(ahead(i)) = i + 1
          <6> HIDE DEF least
          <6> QED BY <4>1, <5>1, <5>2
        <5> HIDE DEF least
        <5> QED BY <4>2, <4>3, <5>1, <5>3
      <4>4. CASE items[i + 1] \notin found
        <5>1. ahead(i) = ahead(i + 1)
          <6>1. ASSUME NEW j \in 1 .. n, items[j] \in found PROVE j > i <=> j > i + 1
            BY <1>2, <4>4, <6>1
          <6> QED BY <6>1
        <5> HIDE DEF ahead
        <5> QED BY <4>2, <4>4, <5>1
      <4> QED BY SMTT(60), <4>3, <4>4
    <3> QED BY <3>1, <3>2
  <2> HIDE DEF hit, num
  <2>4. ASSUME NEW pos \in Places
        PROVE  g[pos] = LET c == ListNextElement(pos) IN IF c = NoItem \/ c \in found THEN c ELSE g[c]
    <3>1. PICK i \in 0 .. n : pos = Place(i)
      BY PlaceOf
    <3>2. ListNextElement(pos) = At(items, i + 1) /\ g[pos] = hit(i)
      BY <2>2, <3>1, NextPlace
    <3>3. CASE i = n
      <4>1. At(items, i + 1) = NoItem
        BY <1>2, <3>3 DEF At
      <4> QED BY <2>3, <3>2, <4>1
    <3>4. CASE i # n
      <4>0. i + 1 \in 1 .. n /\ i + 1 \in 0 .. n /\ i + 1 # 0
        <5>1. n \in Nat /\ i \in 0 .. n /\ i # n
          BY ZenonT(60), <1>2, <3>4
        <5> HIDE DEF n
        <5> QED BY ONLY SMTT(60), <5>1
      <4>1. i + 1 \in 0 .. n /\ At(items, i + 1) = Place(i + 1)
        BY <1>2, <4>0 DEF At, Place
      <4>2. g[Place(i + 1)] = hit(i + 1)
        BY <2>2, <4>1, NextPlace
      <4> QED BY <2>3, <3>2, <4>1, <4>2
    <3> QED BY <3>3, <3>4
  <2> HIDE DEF g
  <2>5. g = W(g)
    <3>1. g = [pos \in Places |-> g[pos]]
      BY DEF g
    <3> QED BY <2>4, <3>1
  <2> QED BY <2>5
<1>4. f = W(f)
  BY <1>3
<1> HIDE DEF f
<1>5. \A pos \in Places : f[pos] = LET c == ListNextElement(pos) IN IF c = NoItem \/ c \in found THEN c ELSE f[c]
  BY <1>4
<1> DEFINE Good(x) == x = NoItem \/ \E i \in DOMAIN items : x = items[i]
           bad == {k \in 0 .. n : ~Good(f[Place(n - k)])}
<1>6. bad = {}
  <2> SUFFICES ASSUME bad # {} PROVE FALSE
    OBVIOUS
  <2>1. PICK k \in bad : \A j \in bad : k <= j
    <3>1. bad \in SUBSET Nat
      BY <1>2
    <3> HIDE DEF bad
    <3> QED BY <3>1, LeastOf
  <2>2. n - k \in 0 .. n /\ ~Good(f[Place(n - k)]) /\ k \in 0 .. n
    BY <1>2
  <2> DEFINE i == n - k
             c == At(items, i + 1)
  <2>3. f[Place(i)] = IF c = NoItem \/ c \in found THEN c ELSE f[c]
    <3>1. Place(i) \in Places /\ ListNextElement(Place(i)) = c
      BY <2>2, NextPlace
    <3> HIDE DEF c, i
    <3> QED BY <1>5, <3>1
  <2>4. Good(c)
    BY DEF At
  <2>5. c # NoItem /\ f[Place(i)] = f[c]
    BY <2>2, <2>3, <2>4
  <2>6. i + 1 \in DOMAIN items /\ c = items[i + 1]
    BY <2>5 DEF At
  <2>7. k - 1 \in 0 .. n /\ n - (k - 1) = i + 1 /\ i + 1 # 0 /\ k - 1 < k
    BY <1>2, <2>2, <2>6
  <2>8. f[Place(n - (k - 1))] = f[c]
    BY <2>6, <2>7 DEF Place
  <2>9. k - 1 \in bad
    BY <2>2, <2>5, <2>7, <2>8
  <2>10. k <= k - 1
    BY <2>1, <2>9
  <2> QED BY <2>2, <2>7, <2>10
<1>7. Good(f[NoItem])
  <2>1. n \in 0 .. n /\ n - n = 0 /\ Place(0) = NoItem
    BY <1>2 DEF Place
  <2>2. n \notin bad
    BY <1>6
  <2> QED BY <2>1, <2>2
<1> QED BY <1>1, <1>7

\* The element of the last search is looked at first, and is in the list.
LEMMA FindItem ==
  ASSUME ListInv, NEW found \in SUBSET Contents
  PROVE  ListFindItem(found) = NoItem \/ \E i \in DOMAIN items : ListFindItem(found) = items[i]
<1>1. CASE list.current \in found
  <2>1. list.current # NoItem
    BY <1>1, ContentsAssumption
  <2> QED BY <1>1, <2>1 DEF ListFindItem, ListInv
<1>2. CASE list.current \notin found
  BY <1>2, SearchFinds DEF ListFindItem
<1> QED BY <1>1, <1>2

LEMMA FindStep ==
  ASSUME ListInv, NEW found \in SUBSET Contents, Find(found)
  PROVE  ListInv'
<1> DEFINE c == ListFindItem(found)
<1>1. /\ list' = (IF c # NoItem THEN [list EXCEPT !.current = c] ELSE list)
      /\ UNCHANGED <<element, items>>
  BY DEF Find
<1>2. c = NoItem \/ \E i \in DOMAIN items : c = items[i]
  BY FindItem
<1> HIDE DEF c
<1>3. /\ DOMAIN list' = {"first", "last", "current", "count"}
      /\ list'.first = list.first /\ list'.last = list.last /\ list'.count = list.count
      /\ list'.current = IF c # NoItem THEN c ELSE list.current
  BY <1>1 DEF ListInv
<1> QED BY <1>1, <1>2, <1>3 DEF ListInv

\* Any removal: the list record follows the sequence, and current is the
\* element it was, or a neighbour when it was the one that is removed.
LEMMA RemovedKeeps ==
  ASSUME ListInv, NEW n \in DOMAIN items, Without(items', items, n), element' = Unlinked(items[n]),
         DOMAIN list' = {"first", "last", "current", "count"},
         list'.first = IF n = 1 THEN At(items, 2) ELSE list.first,
         list'.last = IF n = Len(items) THEN At(items, Len(items) - 1) ELSE list.last,
         list'.count = list.count - 1,
         (list'.current = list.current /\ list.current # items[n])
           \/ list'.current \in {At(items, n + 1), At(items, n - 1)}
  PROVE  ListInv'
<1>1. /\ Chain(items, element) /\ items \in Seq(Contents) /\ Len(items) \in Nat /\ DOMAIN items = 1 .. Len(items)
      /\ n \in 1 .. Len(items)
  BY DEF ListInv, Chain
<1>2. Chain(items', element')
  BY <1>1, UnlinkedChain
<1>3. /\ At(items', 1) = IF n = 1 THEN At(items, 2) ELSE At(items, 1)
      /\ At(items', Len(items')) = IF n = Len(items) THEN At(items, Len(items) - 1) ELSE At(items, Len(items))
      /\ DOMAIN items' = 1 .. Len(items) - 1 /\ Len(items') = Len(items) - 1
  <2>1. Len(items') = Len(items) - 1
    BY DEF Without
  <2> QED BY <1>1, <2>1, WithoutEnds
<1>4. list'.first = At(items', 1) /\ list'.last = At(items', Len(items')) /\ list'.count = Len(items')
  BY <1>3 DEF ListInv
<1>5. ASSUME NEW i \in DOMAIN items, i # n PROVE \E j \in DOMAIN items' : items[i] = items'[j]
  <2>1. CASE i < n
    <3>1. i \in DOMAIN items' /\ items'[i] = items[i]
      BY <1>1, <1>3, <2>1 DEF Without
    <3> QED BY <3>1
  <2>2. CASE i > n
    <3>1. i - 1 \in DOMAIN items' /\ items'[i - 1] = items[i]
      BY <1>1, <1>3, <2>2 DEF Without
    <3> QED BY <3>1
  <2> QED BY <1>1, <1>5, <2>1, <2>2
<1>6. list'.current = NoItem \/ \E i \in DOMAIN items : i # n /\ list'.current = items[i]
  <2>1. CASE list'.current = list.current /\ list.current # items[n]
    BY <2>1 DEF ListInv
  <2>2. CASE list'.current = At(items, n + 1)
    <3>1. n + 1 # n
      BY <1>1
    <3> QED BY <2>2, <3>1 DEF At
  <2>3. CASE list'.current = At(items, n - 1)
    <3>1. n - 1 # n
      BY <1>1
    <3> QED BY <2>3, <3>1 DEF At
  <2> QED BY <2>1, <2>2, <2>3
<1>7. list'.current = NoItem \/ \E j \in DOMAIN items' : list'.current = items'[j]
  BY <1>5, <1>6
<1> QED BY <1>2, <1>4, <1>7 DEF ListInv

\* Where the ends of the list are among the links of an element.
LEMMA AtEnds ==
  ASSUME ListInv, NEW n \in DOMAIN items
  PROVE  /\ element[items[n]].next = At(items, n + 1) /\ element[items[n]].prev = At(items, n - 1)
         /\ At(items, n - 1) = NoItem <=> n = 1
         /\ At(items, n + 1) = NoItem <=> n = Len(items)
         /\ items[n] \in Contents /\ items[n] # NoItem /\ n \in 1 .. Len(items) /\ items \in Seq(Contents)
<1>1. Chain(items, element)
  BY DEF ListInv
<1>2. DOMAIN items = 1 .. Len(items) /\ Len(items) \in Nat /\ items \in Seq(Contents)
  BY <1>1 DEF Chain
<1>3. \A i \in DOMAIN items : items[i] # NoItem
  BY <1>1, InChain
<1>4. (n - 1 \in DOMAIN items <=> n # 1) /\ (n + 1 \in DOMAIN items <=> n # Len(items))
  BY <1>2
<1>5. (At(items, n - 1) = NoItem <=> n = 1) /\ (At(items, n + 1) = NoItem <=> n = Len(items))
  BY <1>3, <1>4 DEF At
<1> QED BY <1>1, <1>2, <1>5, InChain

LEMMA UnlinkStep ==
  ASSUME ListInv, NEW found \in SUBSET Contents, ListUnlink(found)
  PROVE  ListInv'
<1> DEFINE c == ListFindItem(found)
<1>1. CASE c = NoItem
  <2>1. UNCHANGED listVars
    BY <1>1 DEF ListUnlink
  <2> QED BY <2>1 DEF ListInv, listVars
<1>2. CASE c # NoItem
  <2>1. /\ list' = [list EXCEPT !.first = IF element[c].prev = NoItem THEN element[c].next ELSE @,
                                !.last = IF element[c].next = NoItem THEN element[c].prev ELSE @,
                                !.current = CurrentAfter(list.current, c),
                                !.count = @ - 1]
        /\ element' = Unlinked(c) /\ items' = RemoveAt(items, Position(c))
    BY <1>2 DEF ListUnlink
  <2>2. \E i \in DOMAIN items : c = items[i]
    BY <1>2, FindItem
  <2> HIDE DEF c
  <2> DEFINE n == Position(c)
  <2>3. n \in DOMAIN items /\ items[n] = c
    BY <2>2 DEF Position
  <2> HIDE DEF n
  <2>4. /\ element[c].next = At(items, n + 1) /\ element[c].prev = At(items, n - 1)
        /\ At(items, n - 1) = NoItem <=> n = 1
        /\ At(items, n + 1) = NoItem <=> n = Len(items)
        /\ n \in 1 .. Len(items) /\ items \in Seq(Contents)
    BY <2>3, AtEnds
  <2>5. /\ DOMAIN list' = {"first", "last", "current", "count"}
        /\ list'.first = IF element[c].prev = NoItem THEN element[c].next ELSE list.first
        /\ list'.last = IF element[c].next = NoItem THEN element[c].prev ELSE list.last
        /\ list'.current = CurrentAfter(list.current, c)
        /\ list'.count = list.count - 1
    BY <2>1 DEF ListInv
  <2>6. Without(items', items, n)
    BY <2>1, <2>4, WithoutMade DEF n
  <2>7. /\ list'.first = IF n = 1 THEN At(items, 2) ELSE list.first
        /\ list'.last = IF n = Len(items) THEN At(items, Len(items) - 1) ELSE list.last
    BY <2>4, <2>5
  <2>8. (list'.current = list.current /\ list.current # items[n]) \/ list'.current \in {At(items, n + 1), At(items, n - 1)}
    BY <2>3, <2>4, <2>5 DEF CurrentAfter
  <2>9. element' = Unlinked(items[n]) /\ list'.count = list.count - 1
    BY <2>1, <2>3, <2>5
  <2> QED BY <2>3, <2>5, <2>6, <2>7, <2>8, <2>9, RemovedKeeps
<1> QED BY <1>1, <1>2

LEMMA DetachHeadStep ==
  ASSUME ListInv, ListDetachHead
  PROVE  ListInv'
<1> DEFINE c == list.first
<1>1. /\ list' = [list EXCEPT !.first = element[c].next, !.last = IF @ = c THEN NoItem ELSE @,
                              !.current = IF @ = c THEN element[c].next ELSE @, !.count = @ - 1]
      /\ element' = Unlinked(c) /\ items' = Tail(items) /\ list.count > 0
  BY DEF ListDetachHead
<1>2. /\ items \in Seq(Contents) /\ Len(items) \in Nat /\ DOMAIN items = 1 .. Len(items) /\ list.count = Len(items)
      /\ list.first = At(items, 1) /\ list.last = At(items, Len(items))
      /\ \A i, j \in DOMAIN items : items[i] = items[j] => i = j
  BY DEF ListInv, Chain
<1>3. 1 \in DOMAIN items /\ Len(items) \in DOMAIN items /\ 1 \in 1 .. Len(items)
  BY <1>1, <1>2
<1>4. c = items[1] /\ list.last = items[Len(items)]
  BY <1>2, <1>3 DEF At
<1>5. /\ DOMAIN list' = {"first", "last", "current", "count"}
      /\ list'.first = element[c].next /\ list'.last = (IF list.last = c THEN NoItem ELSE list.last)
      /\ list'.current = (IF list.current = c THEN element[c].next ELSE list.current)
      /\ list'.count = list.count - 1
  BY <1>1 DEF ListInv
<1> HIDE DEF c
<1>6. element[c].next = At(items, 2)
  <2>1. 1 + 1 = 2
    OBVIOUS
  <2> QED BY <1>3, <1>4, <2>1, AtEnds
<1>7. Without(items', items, 1)
  BY <1>1, <1>2, <1>3, WithoutMade
<1>8. list.last = c <=> Len(items) = 1
  BY <1>2, <1>3, <1>4
<1>9. list'.last = IF 1 = Len(items) THEN At(items, Len(items) - 1) ELSE list.last
  <2>1. Len(items) = 1 => At(items, Len(items) - 1) = NoItem
    BY <1>2 DEF At
  <2> QED BY <1>5, <1>8, <2>1
<1>10. list'.first = IF 1 = 1 THEN At(items, 2) ELSE list.first
  BY <1>5, <1>6
<1>11. (list'.current = list.current /\ list.current # items[1]) \/ list'.current \in {At(items, 1 + 1), At(items, 1 - 1)}
  BY <1>4, <1>5, <1>6
<1> QED BY <1>1, <1>3, <1>4, <1>5, <1>7, <1>9, <1>10, <1>11, RemovedKeeps

LEMMA PopTailStep ==
  ASSUME ListInv, ListPopTail
  PROVE  ListInv'
<1> DEFINE c == list.last
           n == Len(items)
<1>1. /\ list' = [list EXCEPT !.last = element[c].prev, !.first = IF @ = c THEN NoItem ELSE @,
                              !.current = IF @ = c THEN element[c].prev ELSE @, !.count = @ - 1]
      /\ element' = Unlinked(c) /\ items' = Front(items) /\ list.count > 0
  BY DEF ListPopTail
<1>2. /\ items \in Seq(Contents) /\ n \in Nat /\ DOMAIN items = 1 .. n /\ list.count = n
      /\ list.first = At(items, 1) /\ list.last = At(items, n)
      /\ \A i, j \in DOMAIN items : items[i] = items[j] => i = j
  BY DEF ListInv, Chain
<1>3. 1 \in DOMAIN items /\ n \in DOMAIN items /\ n \in 1 .. n
  BY <1>1, <1>2
<1>4. c = items[n] /\ list.first = items[1]
  BY <1>2, <1>3 DEF At
<1>5. /\ DOMAIN list' = {"first", "last", "current", "count"}
      /\ list'.last = element[c].prev /\ list'.first = (IF list.first = c THEN NoItem ELSE list.first)
      /\ list'.current = (IF list.current = c THEN element[c].prev ELSE list.current)
      /\ list'.count = list.count - 1
  BY <1>1 DEF ListInv
<1> HIDE DEF c
<1>6. element[c].prev = At(items, n - 1)
  BY <1>3, <1>4, AtEnds
<1>7. Without(items', items, n)
  BY <1>1, <1>2, <1>3, WithoutMade
<1>8. list.first = c <=> n = 1
  BY <1>2, <1>3, <1>4
<1>9. list'.first = IF n = 1 THEN At(items, 2) ELSE list.first
  <2>1. n = 1 => At(items, 2) = NoItem
    BY <1>2 DEF At
  <2> QED BY <1>5, <1>8, <2>1
<1>10. list'.last = IF n = Len(items) THEN At(items, Len(items) - 1) ELSE list.last
  BY <1>5, <1>6
<1>11. (list'.current = list.current /\ list.current # items[n]) \/ list'.current \in {At(items, n + 1), At(items, n - 1)}
  BY <1>4, <1>5, <1>6
<1> QED BY <1>1, <1>3, <1>4, <1>5, <1>7, <1>9, <1>10, <1>11, RemovedKeeps

\* A list without elements.
LEMMA EmptyIs ==
  ASSUME NEW l, l = [first |-> NoItem, last |-> NoItem, current |-> NoItem, count |-> 0]
  PROVE  /\ DOMAIN l = {"first", "last", "current", "count"}
         /\ Chain(<<>>, [c \in Contents |-> Freed])
         /\ l.first = At(<<>>, 1) /\ l.last = At(<<>>, Len(<<>>)) /\ l.count = Len(<<>>) /\ l.current = NoItem
BY DEF Chain, At

LEMMA ListStep == ListInv /\ [ListNext]_listVars => ListInv'
<1> SUFFICES ASSUME ListInv, [ListNext]_listVars PROVE ListInv'
  OBVIOUS
<1>1. CASE UNCHANGED listVars
  BY <1>1 DEF listVars, ListInv
<1>2. ASSUME ListEmpty PROVE ListInv'
  BY <1>2, EmptyIs DEF ListEmpty, ListInv
<1>3. ASSUME NEW found \in SUBSET Contents, Find(found) \/ ListUnlink(found) PROVE ListInv'
  BY <1>3, FindStep, UnlinkStep
<1>4. \A c \in Contents : {c} \in SUBSET Contents
  OBVIOUS
<1>5. \A k \in SearchKeys : {c \in Contents : KeyOf(c) = k} \in SUBSET Contents
  OBVIOUS
<1> QED BY <1>1, <1>2, <1>3, <1>4, <1>5, AppendStep, InsertStep, DetachHeadStep, PopTailStep DEF ListNext

\* Whatever the order of additions, searches and removals, a walk of the list in
\* either direction visits exactly the sequence it stands for, and the element
\* that the next search looks at first is never one that has been freed.
THEOREM ListsAreSequences == ListSpec => []ListIsSequence
<1>1. ListZero => ListInv
  BY EmptyIs DEF ListZero, ListInv
<1> QED BY <1>1, ListStep, ListInvMeans, PTL DEF ListSpec

----------------------------------------------------------------------------
(* The trace *)

OutputType(o) ==
  /\ DOMAIN o = {"dest", "written", "file", "backup", "rotated"}
  /\ o.written \in Nat /\ o.file \in Seq(Nat) /\ o.backup \in Seq(Nat)

\* t is what s ends with
Ends(s, t) ==
  /\ Len(t) <= Len(s)
  /\ \A i \in 1 .. Len(t) : t[i] = s[Len(s) - Len(t) + i]

\* both counters of the file stay below the limit, and what it and its backup
\* have is what was printed last
OutputInv(o, p) ==
  /\ OutputType(o) /\ p \in Seq(Nat)
  /\ o.written < MaxLines /\ Len(o.file) < MaxLines
  /\ o.dest = "file" => /\ Len(o.file) <= o.written
                        /\ o.rotated => o.backup # <<>> /\ Ends(p, o.backup \o o.file)
                        /\ ~o.rotated => o.file = p

\* the ring is empty, filling from its first slot, or full
RingInv(r, q) ==
  LET n == IF Len(q) < MaxEntries THEN Len(q) ELSE MaxEntries
  IN /\ DOMAIN r.queue = 1..MaxEntries
     /\ r.next \in 0 .. MaxEntries - 1
     /\ Len(q) = 0 => r.start = -1 /\ r.next = 0
     /\ Len(q) # 0 => r.start = (IF n < MaxEntries THEN 0 ELSE r.next) /\ (n < MaxEntries => r.next = n)
     /\ \A i \in 1..n : r.queue[Slot(r.start + i - 1)] = q[Len(q) - n + i]

TraceInv ==
  /\ logged \in Seq(Nat)
  /\ HasRing => RingInv(ring, logged)
  /\ OutputInv(output, printed)

LEMMA TraceStarts == TraceInit => TraceInv
<1> SUFFICES ASSUME TraceInit PROVE TraceInv
  OBVIOUS
<1>1. ~HasRing
  BY DEF TraceInit, HasRing, NoRing
<1>2. OutputType(output) /\ printed = <<>> /\ output.dest = "none" /\ output.written = 0 /\ output.file = <<>>
  BY DEF TraceInit, OutputType
<1> QED BY <1>1, <1>2, TraceConstants DEF TraceInv, TraceInit, OutputInv

LEMMA Appended ==
  ASSUME NEW s \in Seq(Nat), NEW x \in Nat
  PROVE  /\ Append(s, x) \in Seq(Nat) /\ Len(Append(s, x)) = Len(s) + 1 /\ Len(s) \in Nat
         /\ \A i \in 1 .. Len(s) : Append(s, x)[i] = s[i]
         /\ Append(s, x)[Len(s) + 1] = x
         /\ Append(s, x) # <<>>
<1>1. /\ Append(s, x) \in Seq(Nat) /\ Len(Append(s, x)) = Len(s) + 1 /\ Len(s) \in Nat
      /\ \A i \in 1 .. Len(s) : Append(s, x)[i] = s[i]
      /\ Append(s, x)[Len(s) + 1] = x
  OBVIOUS
<1>2. Len(<<>>) = 0
  OBVIOUS
<1> QED BY <1>1, <1>2

LEMMA ConcatIs ==
  ASSUME NEW s \in Seq(Nat), NEW t \in Seq(Nat)
  PROVE  /\ s \o t \in Seq(Nat) /\ Len(s \o t) = Len(s) + Len(t) /\ Len(s) \in Nat /\ Len(t) \in Nat
         /\ \A i \in 1 .. Len(s) : (s \o t)[i] = s[i]
         /\ \A i \in 1 .. Len(t) : (s \o t)[Len(s) + i] = t[i]
OBVIOUS

LEMMA EndsAppend ==
  ASSUME NEW s \in Seq(Nat), NEW t \in Seq(Nat), NEW x \in Nat, Ends(s, t)
  PROVE  Ends(Append(s, x), Append(t, x))
<1> DEFINE u == Append(s, x)
           v == Append(t, x)
<1>1. /\ Len(u) = Len(s) + 1 /\ Len(s) \in Nat /\ u[Len(s) + 1] = x
      /\ \A i \in 1 .. Len(s) : u[i] = s[i]
  BY Appended
<1>2. /\ Len(v) = Len(t) + 1 /\ Len(t) \in Nat /\ v[Len(t) + 1] = x
      /\ \A i \in 1 .. Len(t) : v[i] = t[i]
  BY Appended
<1> HIDE DEF u, v
<1>3. Len(t) <= Len(s) /\ \A i \in 1 .. Len(t) : t[i] = s[Len(s) - Len(t) + i]
  BY DEF Ends
<1>4. ASSUME NEW i \in 1 .. Len(v)
      PROVE  v[i] = u[Len(u) - Len(v) + i]
  <2>1. Len(u) - Len(v) + i = Len(s) - Len(t) + i
    BY <1>1, <1>2
  <2>2. CASE i = Len(t) + 1
    <3>1. Len(s) - Len(t) + i = Len(s) + 1
      BY <1>1, <1>2, <2>2
    <3> QED BY <1>1, <1>2, <2>1, <2>2, <3>1
  <2>3. CASE i # Len(t) + 1
    <3>1. i \in 1 .. Len(t) /\ Len(s) - Len(t) + i \in 1 .. Len(s)
      BY <1>1, <1>2, <1>3, <2>3
    <3> QED BY <1>1, <1>2, <1>3, <2>1, <3>1
  <2> QED BY <2>2, <2>3
<1>5. Ends(u, v)
  BY <1>1, <1>2, <1>3, <1>4 DEF Ends
<1> QED BY <1>5 DEF u, v

LEMMA EndsTail ==
  ASSUME NEW s \in Seq(Nat), NEW a \in Seq(Nat), NEW b \in Seq(Nat), Ends(s, a \o b)
  PROVE  Ends(s, b)
<1> DEFINE t == a \o b
<1>1. /\ Len(t) = Len(a) + Len(b) /\ Len(a) \in Nat /\ Len(b) \in Nat
      /\ \A i \in 1 .. Len(b) : t[Len(a) + i] = b[i]
  BY ConcatIs
<1>2. Ends(s, t) /\ Len(s) \in Nat
  OBVIOUS
<1> HIDE DEF t
<1>3. Len(t) <= Len(s) /\ \A i \in 1 .. Len(t) : t[i] = s[Len(s) - Len(t) + i]
  BY <1>2 DEF Ends
<1>4. ASSUME NEW i \in 1 .. Len(b)
      PROVE  b[i] = s[Len(s) - Len(b) + i]
  <2>1. Len(a) + i \in 1 .. Len(t) /\ Len(s) - Len(t) + (Len(a) + i) = Len(s) - Len(b) + i
    BY <1>1, <1>2
  <2> QED BY <1>1, <1>3, <2>1
<1> QED BY <1>1, <1>2, <1>3, <1>4 DEF Ends

LEMMA JoinAppend ==
  ASSUME NEW a \in Seq(Nat), NEW b \in Seq(Nat), NEW x \in Nat
  PROVE  a \o Append(b, x) = Append(a \o b, x)
OBVIOUS

LEMMA EndsItself ==
  ASSUME NEW s \in Seq(Nat)
  PROVE  Ends(s, s)
BY DEF Ends

\* Log_output keeps the end of what was printed, over a rotation too.
LEMMA OutputKeeps ==
  ASSUME NEW o, NEW p, OutputInv(o, p), NEW line \in Nat, NEW reopened \in BOOLEAN
  PROVE  /\ OutputInv(Log_output(o, line, reopened), IF o.dest = "file" THEN Append(p, line) ELSE p)
         /\ o.dest # "file" => Log_output(o, line, reopened) = o
<1> DEFINE f == Append(o.file, line)
           q == Append(p, line)
           w == [o EXCEPT !.file = f, !.written = o.written + 1]
           r == Log_output(o, line, reopened)
<1>1. CASE o.dest # "file"
  BY <1>1 DEF Log_output
<1>2. CASE o.dest = "file"
  <2>1. /\ OutputType(o) /\ p \in Seq(Nat) /\ o.written \in Nat /\ o.file \in Seq(Nat) /\ o.backup \in Seq(Nat)
    BY DEF OutputInv, OutputType
  <2>2. f \in Seq(Nat) /\ q \in Seq(Nat) /\ Len(f) = Len(o.file) + 1 /\ f # <<>>
    BY <2>1, Appended
  <2>3. r = IF w.written >= MaxLines THEN Rotate(w, reopened) ELSE w
    BY <1>2 DEF Log_output
  <2> HIDE DEF f
  <2>4. /\ OutputType(w) /\ w.dest = "file" /\ w.written = o.written + 1 /\ w.file = f
        /\ w.backup = o.backup /\ w.rotated = o.rotated
    BY <1>2, <2>1, <2>2 DEF OutputType
  <2>5. Ends(p, o.file)
    <3>1. CASE o.rotated
      <4>1. Ends(p, o.backup \o o.file)
        BY <1>2, <3>1 DEF OutputInv
      <4> QED BY <2>1, <4>1, EndsTail
    <3>2. CASE ~o.rotated
      BY <1>2, <2>1, <3>2, EndsItself DEF OutputInv
    <3> QED BY <3>1, <3>2
  <2>6. Ends(q, f)
    BY <2>1, <2>5, EndsAppend DEF f
  <2> HIDE DEF f, q, w, r
  <2>7. CASE w.written >= MaxLines
    <3>1. r = Rotate(w, reopened)
      BY <2>3, <2>7
    <3>2. f \o <<>> = f
      BY <2>2
    <3>3. OutputType(r) /\ r.written = 0 /\ r.file = <<>> /\ r.backup = f /\ r.rotated
      BY <2>2, <2>4, <3>1 DEF Rotate, OutputType
    <3>4. OutputInv(r, q)
      BY <2>2, <2>6, <3>1, <3>2, <3>3, TraceConstants DEF OutputInv
    <3> QED BY <1>2, <3>4 DEF r, q
  <2>8. CASE ~(w.written >= MaxLines)
    <3>1. r = w
      BY <2>3, <2>8
    <3>2. o.rotated => Ends(q, o.backup \o f)
      <4> SUFFICES ASSUME o.rotated PROVE Ends(q, o.backup \o f)
        OBVIOUS
      <4>1. Ends(p, o.backup \o o.file) /\ o.backup \o o.file \in Seq(Nat)
        BY <1>2, <2>1, ConcatIs DEF OutputInv
      <4>2. Ends(q, Append(o.backup \o o.file, line))
        BY <2>1, <4>1, EndsAppend DEF q
      <4> QED BY <2>1, <4>2, JoinAppend DEF f
    <3>3. o.written + 1 < MaxLines /\ Len(f) <= o.written + 1
      BY <1>2, <2>1, <2>2, <2>4, <2>8, TraceConstants, SMTT(60) DEF OutputInv
    <3>4. ~o.rotated => f = q
      BY <1>2 DEF OutputInv, f, q
    <3>5. OutputType(r)
      BY <2>1, <2>2, <2>4, <3>1 DEF OutputType
    <3>6. o.rotated => o.backup # <<>>
      BY <1>2 DEF OutputInv
    <3>7. Len(f) < MaxLines
      BY <2>2, <3>3, <2>1, TraceConstants, SMTT(60)
    <3>8. OutputInv(r, q)
      BY <2>2, <2>4, <3>1, <3>2, <3>3, <3>4, <3>5, <3>6, <3>7 DEF OutputInv
    <3> QED BY <1>2, <3>8 DEF r, q
  <2> QED BY <2>7, <2>8
<1> QED BY <1>1, <1>2

\* g is the output after each line of the banner, up to the k-th.
Heads(g, k, opened, reopened) ==
  g = [n \in 0 .. k |-> IF n = 0 THEN opened ELSE Log_output(g[n - 1], 0, reopened)]

LEMMA HeadsExist ==
  ASSUME NEW opened, NEW reopened \in BOOLEAN, NEW k \in Nat
  PROVE  \E g : Heads(g, k, opened, reopened)
<1> DEFINE Bad == {n \in Nat : ~ \E g : Heads(g, n, opened, reopened)}
<1> SUFFICES Bad = {}
  OBVIOUS
<1> SUFFICES ASSUME Bad # {} PROVE FALSE
  OBVIOUS
<1>1. PICK m \in Bad : \A j \in Bad : m <= j
  BY LeastOf
<1>2. CASE m = 0
  <2> DEFINE g == [n \in 0 .. 0 |-> opened]
  <2>1. g = [n \in 0 .. 0 |-> IF n = 0 THEN opened ELSE Log_output(g[n - 1], 0, reopened)]
    OBVIOUS
  <2>2. Heads(g, 0, opened, reopened)
    BY <2>1 DEF Heads
  <2> QED BY <1>2, <2>2
<1>3. CASE m # 0
  <2>1. m - 1 \in Nat /\ m - 1 \notin Bad /\ m \in Nat
    BY <1>1, <1>3
  <2>2. PICK g : Heads(g, m - 1, opened, reopened)
    BY <2>1
  <2> DEFINE h == [n \in 0 .. m |-> IF n = m THEN Log_output(g[m - 1], 0, reopened) ELSE g[n]]
  <2> HIDE DEF Bad
  <2>3. \A n \in 0 .. m - 1 : g[n] = IF n = 0 THEN opened ELSE Log_output(g[n - 1], 0, reopened)
    BY <2>2 DEF Heads
  <2>4. ASSUME NEW n \in 0 .. m
        PROVE  h[n] = IF n = 0 THEN opened ELSE Log_output(h[n - 1], 0, reopened)
    <3>1. CASE n = m
      <4>1. h[n - 1] = g[m - 1] /\ h[n] = Log_output(g[m - 1], 0, reopened)
        BY <1>3, <2>1, <3>1
      <4> QED BY <1>3, <3>1, <4>1
    <3>2. CASE n # m /\ n # 0
      <4>1. n \in 0 .. m - 1 /\ n - 1 \in 0 .. m /\ n - 1 # m
        BY <2>1, <3>2
      <4>2. h[n] = g[n] /\ h[n - 1] = g[n - 1]
        BY <3>2, <4>1
      <4> QED BY <2>3, <3>2, <4>1, <4>2
    <3>3. CASE n = 0
      BY <1>3, <2>1, <2>3, <3>3
    <3> QED BY <3>1, <3>2, <3>3
  <2>5. h = [n \in 0 .. m |-> h[n]]
    OBVIOUS
  <2> HIDE DEF h
  <2>6. h = [n \in 0 .. m |-> IF n = 0 THEN opened ELSE Log_output(h[n - 1], 0, reopened)]
    BY <2>4, <2>5
  <2>7. Heads(h, m, opened, reopened)
    BY <2>6 DEF Heads
  <2> QED BY <2>7 DEF Bad
<1> QED BY <1>2, <1>3

LEMMA BannerGrows ==
  ASSUME NEW n \in Nat
  PROVE  Banner(0) = <<>> /\ Banner(n) \in Seq(Nat) /\ Append(Banner(n), 0) = Banner(n + 1)
<1>1. Banner(0) = <<>>
  BY DEF Banner
<1>2. Banner(n) \in Seq(Nat) /\ Len(Banner(n)) = n
  BY DEF Banner
<1>3. Append(Banner(n), 0) = Banner(n + 1)
  BY <1>2 DEF Banner
<1> QED BY <1>1, <1>2, <1>3

\* The banner is output like any other line, whatever an earlier trace left in
\* lines_written.
LEMMA HeadedKeeps ==
  ASSUME NEW opened, NEW reopened \in BOOLEAN, OutputInv(opened, <<>>)
  PROVE  /\ OutputInv(Headed(opened, reopened), Banner(HeaderLines))
         /\ opened.dest # "file" => Headed(opened, reopened) = opened
<1> DEFINE W(g) == [n \in 0 .. HeaderLines |-> IF n = 0 THEN opened ELSE Log_output(g[n - 1], 0, reopened)]
           after == CHOOSE g : g = W(g)
<1>1. HeaderLines \in Nat
  BY TraceConstants
<1>2. \E g : g = W(g)
  <2>1. PICK g : Heads(g, HeaderLines, opened, reopened)
    BY <1>1, HeadsExist
  <2> QED BY <2>1 DEF Heads
<1>3. after = W(after)
  BY <1>2
<1>4. Headed(opened, reopened) = after[HeaderLines]
  BY DEF Headed
<1> HIDE DEF after
<1>5. \A n \in 0 .. HeaderLines : after[n] = IF n = 0 THEN opened ELSE Log_output(after[n - 1], 0, reopened)
  BY <1>3
<1> HIDE DEF W
<1> DEFINE Good(n) == OutputInv(after[n], Banner(n)) /\ (opened.dest # "file" => after[n] = opened)
           Bad == {n \in 0 .. HeaderLines : ~Good(n)}
<1>6. Bad = {}
  <2> SUFFICES ASSUME Bad # {} PROVE FALSE
    OBVIOUS
  <2>1. PICK m \in Bad : \A j \in Bad : m <= j
    <3>1. Bad \in SUBSET Nat
      OBVIOUS
    <3> HIDE DEF Bad
    <3> QED BY <3>1, LeastOf
  <2>2. CASE m = 0
    <3>1. after[0] = opened /\ Banner(0) = <<>>
      <4>1. Banner(0) = <<>>
        BY ONLY <1>1, BannerGrows
      <4>2. after[0] = opened
        BY <1>1, <1>5
      <4> QED BY <4>1, <4>2
    <3>2. OutputInv(after[0], Banner(0))
      BY ONLY OutputInv(opened, <<>>), <3>1
    <3>3. Good(0)
      BY <3>1, <3>2
    <3> QED BY <2>1, <2>2, <3>3
  <2>3. CASE m # 0
    <3> DEFINE k == m - 1
    <3>1. k \in 0 .. HeaderLines /\ k \in Nat /\ m = k + 1 /\ k \notin Bad
      BY <1>1, <2>1, <2>3
    <3>2. Good(k)
      BY <3>1
    <3>3. after[m] = Log_output(after[k], 0, reopened)
      BY <1>5, <2>1, <2>3
    <3> HIDE DEF k
    <3>4. /\ OutputInv(after[m], IF after[k].dest = "file" THEN Append(Banner(k), 0) ELSE Banner(k))
          /\ after[k].dest # "file" => after[m] = after[k]
      BY <3>2, <3>3, OutputKeeps
    <3>5. Append(Banner(k), 0) = Banner(m) /\ Banner(m) \in Seq(Nat)
      BY <3>1, BannerGrows
    <3>6. OutputInv(after[m], Banner(m))
      <4>1. CASE after[k].dest = "file"
        BY <3>4, <3>5, <4>1
      <4>2. CASE after[k].dest # "file"
        BY <3>4, <3>5, <4>2 DEF OutputInv
      <4> QED BY <4>1, <4>2
    <3>7. Good(m)
      BY <3>2, <3>4, <3>6
    <3> QED BY <2>1, <3>7
  <2> QED BY <2>2, <2>3
<1>7. Good(HeaderLines)
  BY <1>1, <1>6
<1> QED BY <1>4, <1>7

\* A new trace starts with an empty ring and the banner.
LEMMA InitializeStep ==
  ASSUME TraceInv, NEW dest \in {"none", "stdout", "file"}, NEW reopened \in BOOLEAN, Log_initialize(dest, reopened)
  PROVE  TraceInv'
<1> DEFINE opened == [output EXCEPT !.dest = dest, !.file = IF dest = "file" THEN <<>> ELSE output.file, !.rotated = FALSE]
<1>1. /\ ring' = [NoRing EXCEPT !.queue = [i \in 1..MaxEntries |-> 0]]
      /\ output' = Headed(opened, reopened) /\ logged' = <<>>
      /\ printed' = IF dest = "file" THEN Banner(HeaderLines) ELSE <<>>
  BY DEF Log_initialize
<1>2. OutputType(output) /\ output.written < MaxLines /\ Len(output.file) < MaxLines
  BY DEF TraceInv, OutputInv
<1>3. /\ OutputType(opened) /\ opened.dest = dest /\ opened.written = output.written /\ opened.rotated = FALSE
      /\ opened.file = IF dest = "file" THEN <<>> ELSE output.file
  BY <1>2 DEF OutputType
<1> HIDE DEF opened
<1>4. OutputInv(opened, <<>>)
  <2>1. Len(<<>>) = 0 /\ <<>> \in Seq(Nat)
    OBVIOUS
  <2>2. opened.written \in Nat
    BY <1>3 DEF OutputType
  <2> QED BY <1>2, <1>3, <2>1, <2>2, TraceConstants DEF OutputInv
<1>5. OutputInv(output', printed')
  <2>1. OutputInv(output', Banner(HeaderLines)) /\ (dest # "file" => output' = opened)
    BY <1>1, <1>3, <1>4, HeadedKeeps
  <2> QED BY <1>1, <1>4, <2>1
<1>6. RingInv(ring', logged')
  <2>1. ring'.queue = [i \in 1..MaxEntries |-> 0] /\ ring'.start = -1 /\ ring'.next = 0
    BY <1>1 DEF NoRing
  <2> QED BY <1>1, <2>1, TraceConstants DEF RingInv
<1> QED BY <1>1, <1>5, <1>6 DEF TraceInv

\* The oldest entry makes room for the newest.
LEMMA PretraceKeeps ==
  ASSUME RingInv(ring, logged), logged \in Seq(Nat), NEW entry \in Nat
  PROVE  RingInv(Log_pretrace(entry), Append(logged, entry))
<1> DEFINE M == MaxEntries
           L == Len(logged)
           p == Log_pretrace(entry)
           q == Append(logged, entry)
           old == IF L < M THEN L ELSE M
           new == IF L + 1 < M THEN L + 1 ELSE M
<1>1. M \in Nat /\ M >= 1 /\ L \in Nat
  BY TraceConstants
<1>2. /\ DOMAIN ring.queue = 1..M /\ ring.next \in 0 .. M - 1
      /\ L = 0 => ring.start = -1 /\ ring.next = 0
      /\ L # 0 => ring.start = (IF old < M THEN 0 ELSE ring.next) /\ (old < M => ring.next = old)
      /\ \A i \in 1..old : ring.queue[Slot(ring.start + i - 1)] = logged[L - old + i]
  BY DEF RingInv
<1>3. Len(q) = L + 1 /\ q[L + 1] = entry /\ \A i \in 1..L : q[i] = logged[i]
  BY Appended
<1>4. /\ p.queue = [ring.queue EXCEPT ![ring.next + 1] = entry]
      /\ p.start = IF ring.next = ring.start THEN Advance(ring.start) ELSE IF ring.start = -1 THEN 0 ELSE ring.start
      /\ p.next = Advance(ring.next)
  BY DEF Log_pretrace
<1>5. /\ DOMAIN p.queue = 1..M /\ p.queue[ring.next + 1] = entry
      /\ \A k \in 1..M : k # ring.next + 1 => p.queue[k] = ring.queue[k]
  BY <1>1, <1>2, <1>4
<1> HIDE DEF p, q, M, L
<1>6. p.next \in 0 .. M - 1
  BY <1>1, <1>2, <1>4 DEF Advance, M
<1>7. p.start = (IF new < M THEN 0 ELSE p.next) /\ (new < M => p.next = new)
  BY <1>1, <1>2, <1>4, SMTT(60) DEF Advance, M
<1>8. ASSUME NEW i \in 1..new
      PROVE  p.queue[Slot(p.start + i - 1)] = q[L + 1 - new + i]
  <2>1. CASE L < M
    <3>1. new = L + 1 /\ ring.next = L /\ old = L /\ Slot(p.start + i - 1) = i
      BY <1>1, <1>2, <1>4, <1>7, <2>1 DEF Slot, Advance, M
    <3>2. CASE i = L + 1
      <4>1. L + 1 - new + i = L + 1 /\ i = ring.next + 1
        BY <1>1, <3>1, <3>2
      <4>2. p.queue[i] = entry /\ q[L + 1 - new + i] = entry
        BY <1>3, <1>5, <4>1
      <4> QED BY <3>1, <4>2
    <3>3. CASE i # L + 1
      <4>1. i \in 1..L /\ i \in 1..M /\ i # ring.next + 1 /\ L # 0 /\ L - old + i = i /\ L + 1 - new + i = i
        BY <1>1, <2>1, <3>1, <3>3
      <4>2. Slot(ring.start + i - 1) = i
        BY <1>1, <1>2, <2>1, <3>1, <4>1 DEF Slot, M
      <4>3. ring.queue[Slot(ring.start + i - 1)] = logged[L - old + i]
        BY <1>2, <3>1, <4>1
      <4>4. p.queue[i] = ring.queue[i] /\ q[i] = logged[i]
        BY <1>3, <1>5, <4>1
      <4> QED BY <3>1, <4>1, <4>2, <4>3, <4>4
    <3> QED BY <3>2, <3>3
  <2>2. CASE ~(L < M)
    <3>1. new = M /\ old = M /\ ring.start = ring.next /\ p.start = Advance(ring.next) /\ L # 0
      BY <1>1, <1>2, <1>4, <2>2
    <3>2. CASE i = M
      <4>1. Slot(p.start + i - 1) = ring.next + 1 /\ L + 1 - new + i = L + 1
        BY <1>1, <1>2, <3>1, <3>2 DEF Slot, Advance, M
      <4> QED BY <1>3, <1>5, <4>1
    <3>3. CASE i # M
      <4> DEFINE k == Slot(ring.start + (i + 1) - 1)
      <4>1. i + 1 \in 1..old /\ L - old + (i + 1) = L + 1 - new + i /\ L + 1 - new + i \in 1..L
        BY <1>1, <2>2, <3>1, <3>3
      <4>2. ring.next \in Int /\ 0 <= ring.next /\ ring.next < M /\ i \in Int /\ 1 <= i /\ i < M
        BY <1>1, <1>2, <3>1, <3>3
      <4>3. k = IF ring.next + i < M THEN ring.next + i + 1 ELSE ring.next + i - M + 1
        BY <1>1, <3>1, <4>2 DEF Slot, M
      <4>4. Slot(p.start + i - 1) = k
        <5>1. CASE ring.next + 1 = M
          BY <1>1, <3>1, <4>2, <4>3, <5>1 DEF Slot, Advance, M
        <5>2. CASE ring.next + 1 # M
          BY <1>1, <3>1, <4>2, <4>3, <5>2 DEF Slot, Advance, M
        <5> QED BY <5>1, <5>2
      <4>5. k # ring.next + 1 /\ k \in 1..M
        BY <1>1, <4>2, <4>3
      <4> HIDE DEF k
      <4>6. ring.queue[k] = logged[L - old + (i + 1)]
        BY <1>2, <4>1 DEF k
      <4>7. p.queue[k] = ring.queue[k] /\ q[L + 1 - new + i] = logged[L + 1 - new + i]
        BY <1>3, <1>5, <4>1, <4>5
      <4> QED BY <4>1, <4>4, <4>6, <4>7
    <3> QED BY <3>2, <3>3
  <2> QED BY <2>1, <2>2
<1>9. RingInv(p, q)
  <2>1. new = (IF Len(q) < M THEN Len(q) ELSE M) /\ Len(q) # 0 /\ new \in Int
    BY <1>1, <1>3
  <2> HIDE DEF new
  <2>2. \A i \in 1..new : p.queue[Slot(p.start + i - 1)] = q[Len(q) - new + i]
    <3>1. Len(q) = L + 1
      BY <1>3
    <3> TAKE i \in 1..new
    <3>2. p.queue[Slot(p.start + i - 1)] = q[L + 1 - new + i]
      BY <1>8
    <3>3. L + 1 - new + i = Len(q) - new + i
      BY <1>1, <2>1, <3>1
    <3> QED BY ONLY <3>2, <3>3
  <2> QED BY <1>5, <1>6, <1>7, <2>1, <2>2 DEF RingInv, M
<1> QED BY <1>9 DEF p, q

LEMMA TraceStep == TraceInv /\ [TraceNext]_traceVars => TraceInv'
<1> SUFFICES ASSUME TraceInv, [TraceNext]_traceVars PROVE TraceInv'
  OBVIOUS
<1>1. ASSUME NEW dest \in {"none", "stdout", "file"}, NEW reopened \in BOOLEAN, Log_initialize(dest, reopened)
      PROVE  TraceInv'
  BY <1>1, InitializeStep
<1>2. CASE Log_terminate
  <2>1. ring'.queue = <<>> /\ logged' = <<>> /\ printed' = <<>>
    BY <1>2 DEF Log_terminate, NoRing
  <2>2. OutputType(output) /\ output.written < MaxLines /\ Len(output.file) < MaxLines
    BY DEF TraceInv, OutputInv
  <2>3. /\ OutputType(output') /\ output'.dest = "none" /\ output'.written = output.written
        /\ output'.file = output.file
    BY <1>2, <2>2 DEF Log_terminate, OutputType
  <2> QED BY <2>1, <2>2, <2>3 DEF TraceInv, OutputInv, HasRing
<1>3. ASSUME NEW level \in Levels, Log_setTraceLevel(level)
      PROVE  TraceInv'
  BY <1>3 DEF Log_setTraceLevel, TraceInv, HasRing
<1>4. ASSUME NEW level \in Levels, NEW reopened \in BOOLEAN, Log(level, reopened)
      PROVE  TraceInv'
  <2> DEFINE entry == Len(logged) + 1
  <2>1. /\ ring' = Log_pretrace(entry) /\ logged' = Append(logged, entry) /\ HasRing
        /\ \/ /\ output' = Log_output(output, entry, reopened)
              /\ printed' = IF output.dest = "file" THEN Append(printed, entry) ELSE printed
           \/ UNCHANGED <<output, printed>>
    BY <1>4 DEF Log
  <2>2. logged \in Seq(Nat) /\ RingInv(ring, logged) /\ OutputInv(output, printed)
    BY <2>1 DEF TraceInv
  <2>3. entry \in Nat
    BY <2>2
  <2> HIDE DEF entry
  <2>4. RingInv(ring', logged')
    BY <2>1, <2>2, <2>3, PretraceKeeps
  <2>5. OutputInv(output', printed')
    <3>1. /\ OutputInv(Log_output(output, entry, reopened),
                       IF output.dest = "file" THEN Append(printed, entry) ELSE printed)
      BY ONLY <2>2, <2>3, OutputKeeps, reopened \in BOOLEAN
    <3> QED BY ONLY <2>1, <2>2, <3>1
  <2>6. logged' \in Seq(Nat)
    BY <2>1, <2>2, <2>3, Appended
  <2> QED BY <2>4, <2>5, <2>6 DEF TraceInv
<1>5. CASE UNCHANGED traceVars
  BY <1>5 DEF traceVars, TraceInv, HasRing
<1> QED BY <1>1, <1>2, <1>3, <1>4, <1>5 DEF TraceNext

LEMMA LastIs ==
  ASSUME NEW s \in Seq(Nat), NEW k \in Nat, k <= Len(s)
  PROVE  LastOf(k, s) = [i \in 1..k |-> s[Len(s) - k + i]]
<1>1. Len(s) \in Nat
  OBVIOUS
<1> QED BY <1>1 DEF LastOf

LEMMA TraceInvMeans == TraceInv => TraceKept
<1> SUFFICES ASSUME TraceInv PROVE TraceKept
  OBVIOUS
<1> DEFINE L == Len(logged)
           n == IF L < MaxEntries THEN L ELSE MaxEntries
<1>1. logged \in Seq(Nat) /\ L \in Nat /\ MaxEntries \in Nat /\ MaxEntries >= 1
  BY TraceConstants DEF TraceInv
<1>2. ASSUME HasRing
      PROVE  Recorded = LastOf(n, logged)
  <2>1. RingInv(ring, logged)
    BY <1>2 DEF TraceInv
  <2>2. /\ ring.next \in 0 .. MaxEntries - 1
        /\ L = 0 => ring.start = -1 /\ ring.next = 0
        /\ L # 0 => ring.start = (IF n < MaxEntries THEN 0 ELSE ring.next) /\ (n < MaxEntries => ring.next = n)
        /\ \A i \in 1..n : ring.queue[Slot(ring.start + i - 1)] = logged[L - n + i]
    BY <2>1 DEF RingInv
  <2>3. LastOf(n, logged) = [i \in 1..n |-> logged[L - n + i]]
    <3>1. n \in Nat /\ n <= L
      BY <1>1
    <3> HIDE DEF n
    <3> QED BY <1>1, <3>1, LastIs
  <2>4. CASE L = 0
    BY <1>1, <2>2, <2>3, <2>4 DEF Recorded
  <2>5. CASE L # 0
    <3>1. ring.start # -1 /\ Held = n
      BY <1>1, <2>2, <2>5 DEF Held
    <3>2. Recorded = [i \in 1..n |-> ring.queue[Slot(ring.start + i - 1)]]
      BY <3>1 DEF Recorded
    <3> QED BY <2>2, <2>3, <3>2
  <2> QED BY <2>4, <2>5
<1>3. ASSUME NEW s \in Seq(Nat), NEW t \in Seq(Nat), Ends(s, t)
      PROVE  EndsWith(s, t)
  <2>1. Len(t) <= Len(s) /\ \A i \in 1 .. Len(t) : t[i] = s[Len(s) - Len(t) + i]
    BY <1>3 DEF Ends
  <2>2. LastOf(Len(t), s) = [i \in 1 .. Len(t) |-> s[Len(s) - Len(t) + i]]
    BY <2>1, LastIs
  <2>3. t = [i \in 1 .. Len(t) |-> t[i]]
    OBVIOUS
  <2> QED BY <2>1, <2>2, <2>3 DEF EndsWith
<1>4. OutputInv(output, printed)
  BY DEF TraceInv
<1>5. output.backup \o output.file \in Seq(Nat) /\ printed \in Seq(Nat)
  BY <1>4, ConcatIs DEF OutputInv, OutputType
<1>6. output.dest = "file" /\ output.rotated => EndsWith(printed, output.backup \o output.file)
  BY <1>3, <1>4, <1>5 DEF OutputInv
<1> QED BY <1>2, <1>4, <1>6 DEF TraceKept, OutputInv

\* However often the ring wraps, the file is renamed or cannot be opened again,
\* and the trace is stopped and started, the ring has the last entries in order
\* (Log.c:301-310) and the trace file with its backup the last lines printed,
\* none missing between the two (Log.c:352-375): for any size of the ring, of
\* the file and of the banner.
THEOREM TraceIsKept == TraceSpec => []TraceKept
<1>1. TraceInit => TraceInv
  BY TraceStarts
<1>2. TraceInv /\ [TraceNext]_traceVars => TraceInv'
  BY TraceStep
<1>3. TraceInv => TraceKept
  BY TraceInvMeans
<1> QED BY <1>1, <1>2, <1>3, PTL DEF TraceSpec
----------------------------------------------------------------------------
(* UTF-8 text *)

Octets == Seq(0..255)

LEMMA OctetsAre ==
  ASSUME NEW s \in Octets
  PROVE  Len(s) \in Nat /\ \A i \in 1..Len(s) : s[i] \in 0..255
<1> DEFINE S == 0..255
<1>1. s \in Seq(S)
  BY DEF Octets
<1> HIDE DEF S
<1>2. Len(s) \in Nat /\ \A i \in 1..Len(s) : s[i] \in S
  BY <1>1
<1> QED BY <1>2 DEF S

\* What is left of a text is a text.
LEMMA LastBytesAre ==
  ASSUME NEW s \in Octets, NEW k \in 0..Len(s)
  PROVE  LastBytes(s, k) \in Octets /\ Len(LastBytes(s, k)) = k
<1> DEFINE S == 0..255
<1>1. s \in Seq(S)
  BY DEF Octets
<1> HIDE DEF S
<1>2. LastBytes(s, k) \in Seq(S) /\ Len(LastBytes(s, k)) = k
  BY <1>1 DEF LastBytes
<1> QED BY <1>2 DEF S, Octets

InRow(data, row, n) == \A j \in 1..n : Signed(data[j]) \in row[j]

\* A row of the table, by its length.
LEMMA RowOfOne ==
  ASSUME NEW A
  PROVE  Len(<<A>>) = 1 /\ \A data : InRow(data, <<A>>, 1) <=> Signed(data[1]) \in A
BY DEF InRow

LEMMA RowOfTwo ==
  ASSUME NEW A, NEW B
  PROVE  /\ Len(<<A, B>>) = 2
         /\ \A data : InRow(data, <<A, B>>, 2) <=> Signed(data[1]) \in A /\ Signed(data[2]) \in B
BY DEF InRow

LEMMA RowOfThree ==
  ASSUME NEW A, NEW B, NEW C
  PROVE  /\ Len(<<A, B, C>>) = 3
         /\ \A data : InRow(data, <<A, B, C>>, 3) <=>
              Signed(data[1]) \in A /\ Signed(data[2]) \in B /\ Signed(data[3]) \in C
BY DEF InRow

LEMMA RowOfFour ==
  ASSUME NEW A, NEW B, NEW C, NEW D
  PROVE  /\ Len(<<A, B, C, D>>) = 4
         /\ \A data : InRow(data, <<A, B, C, D>>, 4) <=>
              Signed(data[1]) \in A /\ Signed(data[2]) \in B /\ Signed(data[3]) \in C /\ Signed(data[4]) \in D
BY DEF InRow

SomeRow(data, n) == \E row \in valid_ranges : Len(row) = n /\ InRow(data, row, n)

\* What the whole table says of characters of each length.
LEMMA RowsAre ==
  ASSUME NEW data
  PROVE  /\ SomeRow(data, 1) <=> Signed(data[1]) \in ByteRange(0, 127)
         /\ SomeRow(data, 2) <=> Signed(data[1]) \in ByteRange(194, 223) /\ Signed(data[2]) \in TailRange
         /\ SomeRow(data, 3) <=>
              /\ \/ Signed(data[1]) \in ByteRange(224, 224) /\ Signed(data[2]) \in ByteRange(160, 191)
                 \/ Signed(data[1]) \in ByteRange(225, 236) /\ Signed(data[2]) \in TailRange
                 \/ Signed(data[1]) \in ByteRange(237, 237) /\ Signed(data[2]) \in ByteRange(128, 159)
                 \/ Signed(data[1]) \in ByteRange(238, 239) /\ Signed(data[2]) \in TailRange
              /\ Signed(data[3]) \in TailRange
         /\ SomeRow(data, 4) <=>
              /\ \/ Signed(data[1]) \in ByteRange(240, 240) /\ Signed(data[2]) \in ByteRange(144, 191)
                 \/ Signed(data[1]) \in ByteRange(241, 243) /\ Signed(data[2]) \in TailRange
                 \/ Signed(data[1]) \in ByteRange(244, 244) /\ Signed(data[2]) \in ByteRange(128, 143)
              /\ Signed(data[3]) \in TailRange /\ Signed(data[4]) \in TailRange
<1> DEFINE r1 == << ByteRange(0, 127) >>
           r2 == << ByteRange(194, 223), TailRange >>
           r3 == << ByteRange(224, 224), ByteRange(160, 191), TailRange >>
           r4 == << ByteRange(225, 236), TailRange, TailRange >>
           r5 == << ByteRange(237, 237), ByteRange(128, 159), TailRange >>
           r6 == << ByteRange(238, 239), TailRange, TailRange >>
           r7 == << ByteRange(240, 240), ByteRange(144, 191), TailRange, TailRange >>
           r8 == << ByteRange(241, 243), TailRange, TailRange, TailRange >>
           r9 == << ByteRange(244, 244), ByteRange(128, 143), TailRange, TailRange >>
<1>1. valid_ranges = {r1, r2, r3, r4, r5, r6, r7, r8, r9}
  BY DEF valid_ranges
<1>2. Len(r1) = 1 /\ (InRow(data, r1, 1) <=> Signed(data[1]) \in ByteRange(0, 127))
  BY RowOfOne
<1>3. Len(r2) = 2 /\ (InRow(data, r2, 2) <=> Signed(data[1]) \in ByteRange(194, 223) /\ Signed(data[2]) \in TailRange)
  BY RowOfTwo
<1>4. /\ Len(r3) = 3 /\ Len(r4) = 3 /\ Len(r5) = 3 /\ Len(r6) = 3
      /\ InRow(data, r3, 3) <=> /\ Signed(data[1]) \in ByteRange(224, 224)
                                /\ Signed(data[2]) \in ByteRange(160, 191) /\ Signed(data[3]) \in TailRange
      /\ InRow(data, r4, 3) <=> /\ Signed(data[1]) \in ByteRange(225, 236)
                                /\ Signed(data[2]) \in TailRange /\ Signed(data[3]) \in TailRange
      /\ InRow(data, r5, 3) <=> /\ Signed(data[1]) \in ByteRange(237, 237)
                                /\ Signed(data[2]) \in ByteRange(128, 159) /\ Signed(data[3]) \in TailRange
      /\ InRow(data, r6, 3) <=> /\ Signed(data[1]) \in ByteRange(238, 239)
                                /\ Signed(data[2]) \in TailRange /\ Signed(data[3]) \in TailRange
  BY RowOfThree
<1>5. /\ Len(r7) = 4 /\ Len(r8) = 4 /\ Len(r9) = 4
      /\ InRow(data, r7, 4) <=> /\ Signed(data[1]) \in ByteRange(240, 240) /\ Signed(data[2]) \in ByteRange(144, 191)
                                /\ Signed(data[3]) \in TailRange /\ Signed(data[4]) \in TailRange
      /\ InRow(data, r8, 4) <=> /\ Signed(data[1]) \in ByteRange(241, 243) /\ Signed(data[2]) \in TailRange
                                /\ Signed(data[3]) \in TailRange /\ Signed(data[4]) \in TailRange
      /\ InRow(data, r9, 4) <=> /\ Signed(data[1]) \in ByteRange(244, 244) /\ Signed(data[2]) \in ByteRange(128, 143)
                                /\ Signed(data[3]) \in TailRange /\ Signed(data[4]) \in TailRange
  BY RowOfFour
<1> HIDE DEF r1, r2, r3, r4, r5, r6, r7, r8, r9
<1>6. SomeRow(data, 1) <=> InRow(data, r1, 1)
  BY <1>1, <1>2, <1>3, <1>4, <1>5, SMT DEF SomeRow
<1>7. SomeRow(data, 2) <=> InRow(data, r2, 2)
  BY <1>1, <1>2, <1>3, <1>4, <1>5, SMT DEF SomeRow
<1>8. SomeRow(data, 3) <=> InRow(data, r3, 3) \/ InRow(data, r4, 3) \/ InRow(data, r5, 3) \/ InRow(data, r6, 3)
  BY <1>1, <1>2, <1>3, <1>4, <1>5, SMT DEF SomeRow
<1>9. SomeRow(data, 4) <=> InRow(data, r7, 4) \/ InRow(data, r8, 4) \/ InRow(data, r9, 4)
  BY <1>1, <1>2, <1>3, <1>4, <1>5, SMT DEF SomeRow
<1> QED BY <1>2, <1>3, <1>4, <1>5, <1>6, <1>7, <1>8, <1>9

\* The code points with n bytes in their shortest form, and what the table has of them.
Shortest(p, least) == p >= least /\ p <= 1114111 /\ p \notin 55296..57343

ShortTwo(a, b) == a \in 192..223 /\ b \in 128..191 /\ Shortest(64 * (a % 32) + (b % 64), 128)
TableTwo(a, b) == a \in 194..223 /\ b \in 128..191

ShortThree(a, b, c) ==
  /\ a \in 224..239 /\ b \in 128..191 /\ c \in 128..191
  /\ Shortest(4096 * (a % 16) + 64 * (b % 64) + (c % 64), 2048)
TableThree(a, b, c) ==
  /\ \/ a = 224 /\ b \in 160..191
     \/ a \in 225..236 /\ b \in 128..191
     \/ a = 237 /\ b \in 128..159
     \/ a \in 238..239 /\ b \in 128..191
  /\ c \in 128..191

ShortFour(a, b, c, d) ==
  /\ a \in 240..247 /\ b \in 128..191 /\ c \in 128..191 /\ d \in 128..191
  /\ Shortest(262144 * (a % 8) + 4096 * (b % 64) + 64 * (c % 64) + (d % 64), 65536)
TableFour(a, b, c, d) ==
  /\ \/ a = 240 /\ b \in 144..191
     \/ a \in 241..243 /\ b \in 128..191
     \/ a = 244 /\ b \in 128..143
  /\ c \in 128..191 /\ d \in 128..191

\* what the rows say of bytes
LEMMA RowsAllow ==
  ASSUME NEW data \in Octets
  PROVE  /\ Len(data) >= 1 => (SomeRow(data, 1) <=> data[1] \in 0..127)
         /\ Len(data) >= 2 => (SomeRow(data, 2) <=> TableTwo(data[1], data[2]))
         /\ Len(data) >= 3 => (SomeRow(data, 3) <=> TableThree(data[1], data[2], data[3]))
         /\ Len(data) >= 4 => (SomeRow(data, 4) <=> TableFour(data[1], data[2], data[3], data[4]))
<1>1. Len(data) \in Nat /\ \A i \in 1..Len(data) : data[i] \in 0..255
  BY OctetsAre
<1>2. \A b \in 0..255 : Signed(b) \in TailRange <=> b \in 128..191
  BY SMT DEF ByteRange, Signed, TailRange
<1>3. /\ \A b \in 0..255 : Signed(b) \in ByteRange(0, 127) <=> b \in 0..127
      /\ \A b \in 0..255 : Signed(b) \in ByteRange(194, 223) <=> b \in 194..223
      /\ \A b \in 0..255 : Signed(b) \in ByteRange(224, 224) <=> b \in 224..224
      /\ \A b \in 0..255 : Signed(b) \in ByteRange(160, 191) <=> b \in 160..191
      /\ \A b \in 0..255 : Signed(b) \in ByteRange(225, 236) <=> b \in 225..236
      /\ \A b \in 0..255 : Signed(b) \in ByteRange(237, 237) <=> b \in 237..237
      /\ \A b \in 0..255 : Signed(b) \in ByteRange(128, 159) <=> b \in 128..159
      /\ \A b \in 0..255 : Signed(b) \in ByteRange(238, 239) <=> b \in 238..239
      /\ \A b \in 0..255 : Signed(b) \in ByteRange(240, 240) <=> b \in 240..240
      /\ \A b \in 0..255 : Signed(b) \in ByteRange(144, 191) <=> b \in 144..191
      /\ \A b \in 0..255 : Signed(b) \in ByteRange(241, 243) <=> b \in 241..243
      /\ \A b \in 0..255 : Signed(b) \in ByteRange(244, 244) <=> b \in 244..244
      /\ \A b \in 0..255 : Signed(b) \in ByteRange(128, 143) <=> b \in 128..143
  BY SMTT(60) DEF ByteRange, Signed
<1>4. ASSUME Len(data) >= 1
      PROVE  SomeRow(data, 1) <=> data[1] \in 0..127
  <2>1. data[1] \in 0..255
    BY <1>1, <1>4, SMTT(60)
  <2> QED BY <1>3, <2>1, RowsAre
<1>5. ASSUME Len(data) >= 2
      PROVE  SomeRow(data, 2) <=> TableTwo(data[1], data[2])
  <2>1. data[1] \in 0..255 /\ data[2] \in 0..255
    BY <1>1, <1>5
  <2> QED BY <1>2, <1>3, <2>1, RowsAre, SMTT(60) DEF TableTwo
<1>6. ASSUME Len(data) >= 3
      PROVE  SomeRow(data, 3) <=> TableThree(data[1], data[2], data[3])
  <2>1. data[1] \in 0..255 /\ data[2] \in 0..255 /\ data[3] \in 0..255
    BY <1>1, <1>6
  <2>2. (data[1] = 224 <=> data[1] \in 224..224) /\ (data[1] = 237 <=> data[1] \in 237..237)
    BY <2>1
  <2> QED BY <1>2, <1>3, <2>1, <2>2, RowsAre, SMTT(60) DEF TableThree
<1>7. ASSUME Len(data) >= 4
      PROVE  SomeRow(data, 4) <=> TableFour(data[1], data[2], data[3], data[4])
  <2>1. data[1] \in 0..255 /\ data[2] \in 0..255 /\ data[3] \in 0..255 /\ data[4] \in 0..255
    BY <1>1, <1>7
  <2>2. (data[1] = 240 <=> data[1] \in 240..240) /\ (data[1] = 244 <=> data[1] \in 244..244)
    BY <2>1
  <2> QED BY <1>2, <1>3, <2>1, <2>2, RowsAre, SMTT(60) DEF TableFour
<1> QED BY <1>4, <1>5, <1>6, <1>7

\* The table has the shortest forms of the scalar values and nothing else.
LEMMA TwoInTable ==
  ASSUME NEW a \in 0..255, NEW b \in 0..255
  PROVE  ShortTwo(a, b) <=> TableTwo(a, b)
<1>1. a \in 192..223 => a % 32 = a - 192
  BY SMT
<1>2. b \in 128..191 => b % 64 = b - 128
  BY SMT
<1> QED BY <1>1, <1>2, SMT DEF Shortest, ShortTwo, TableTwo

LEMMA ThreeInTable ==
  ASSUME NEW a \in 0..255, NEW b \in 0..255, NEW c \in 0..255
  PROVE  ShortThree(a, b, c) <=> TableThree(a, b, c)
<1>1. a \in 224..239 => a % 16 = a - 224
  BY SMT
<1>2. (b \in 128..191 => b % 64 = b - 128) /\ (c \in 128..191 => c % 64 = c - 128)
  BY SMT
<1> QED BY <1>1, <1>2, SMTT(60) DEF Shortest, ShortThree, TableThree

LEMMA FourInTable ==
  ASSUME NEW a \in 0..255, NEW b \in 0..255, NEW c \in 0..255, NEW d \in 0..255
  PROVE  ShortFour(a, b, c, d) <=> TableFour(a, b, c, d)
<1> SUFFICES ASSUME b \in 128..191, c \in 128..191, d \in 128..191
             PROVE  ShortFour(a, b, c, d) <=> TableFour(a, b, c, d)
  BY SMT DEF ShortFour, TableFour
<1>1. b % 64 = b - 128 /\ c % 64 = c - 128 /\ d % 64 = d - 128
  BY SMT
<1>2. CASE a = 240
  <2>1. a % 8 = 0
    BY <1>2
  <2> QED BY <1>1, <1>2, <2>1, SMTT(60) DEF Shortest, ShortFour, TableFour
<1>3. CASE a \in 241..243
  <2>1. a % 8 = a - 240
    BY <1>3
  <2> QED BY <1>1, <1>3, <2>1, SMTT(60) DEF Shortest, ShortFour, TableFour
<1>4. CASE a = 244
  <2>1. a % 8 = 4
    BY <1>4
  <2> QED BY <1>1, <1>4, <2>1, SMT DEF Shortest, ShortFour, TableFour
<1>5. CASE a \in 245..247
  <2>1. a % 8 = a - 240
    BY <1>5
  <2> QED BY <1>1, <1>5, <2>1, SMT DEF Shortest, ShortFour, TableFour
<1>6. CASE a \notin 240..247
  BY <1>6, SMT DEF ShortFour, TableFour
<1> QED BY <1>2, <1>3, <1>4, <1>5, <1>6

\* The definition of UTF-8, in the same terms.
LEMMA ScalarOfOne ==
  ASSUME NEW data \in Octets, Len(data) >= 1
  PROVE  ScalarValue(data, 1) <=> data[1] \in 0..127
<1>0. data[1] \in 0..255
  BY OctetsAre
<1> DEFINE p == CodePoint(data, 1)
<1>1. <<0, 128, 2048, 65536>>[1] = 0 /\ p = data[1]
  BY <1>0, SMT DEF CodePoint
<1>2. ScalarValue(data, 1) <=> data[1] \in 0..127 /\ Shortest(p, 0)
  <2> HIDE DEF p
  <2>1. ScalarValue(data, 1) <=> data[1] \in 0..127 /\ p >= <<0, 128, 2048, 65536>>[1] /\ p <= 1114111 /\ p \notin 55296..57343
    BY SMT DEF ScalarValue, p
  <2> QED BY <1>1, <2>1, SMT DEF Shortest
<1>3. data[1] \in 0..127 => Shortest(p, 0)
  <2>1. \A a \in 0..127 : Shortest(a, 0)
    BY SMTT(60) DEF Shortest
  <2>2. p = data[1]
    BY <1>1
  <2> HIDE DEF p
  <2> QED BY <2>1, <2>2, Zenon
<1> QED BY <1>2, <1>3

LEMMA ScalarOfTwo ==
  ASSUME NEW data \in Octets, Len(data) >= 2
  PROVE  ScalarValue(data, 2) <=> TableTwo(data[1], data[2])
<1>1. data[1] \in 0..255 /\ data[2] \in 0..255
  BY OctetsAre
<1> DEFINE p == 64 * (data[1] % 32) + (data[2] % 64)
<1>2. <<0, 128, 2048, 65536>>[2] = 128 /\ CodePoint(data, 2) = p
  BY SMT DEF CodePoint
<1>3. ScalarValue(data, 2) <=> ShortTwo(data[1], data[2])
  <2>1. ShortTwo(data[1], data[2]) <=> data[1] \in 192..223 /\ data[2] \in 128..191 /\ Shortest(p, 128)
    BY SMT DEF ShortTwo
  <2> HIDE DEF p
  <2> QED BY <1>2, <2>1, SMT DEF ScalarValue, Shortest
<1> QED BY <1>1, <1>3, TwoInTable, Zenon

LEMMA ScalarOfThree ==
  ASSUME NEW data \in Octets, Len(data) >= 3
  PROVE  ScalarValue(data, 3) <=> TableThree(data[1], data[2], data[3])
<1>1. data[1] \in 0..255 /\ data[2] \in 0..255 /\ data[3] \in 0..255
  BY OctetsAre
<1> DEFINE p == 4096 * (data[1] % 16) + 64 * (data[2] % 64) + (data[3] % 64)
<1>2. <<0, 128, 2048, 65536>>[3] = 2048 /\ CodePoint(data, 3) = p
  BY SMT DEF CodePoint
<1>3. ScalarValue(data, 3) <=> ShortThree(data[1], data[2], data[3])
  <2>1. ShortThree(data[1], data[2], data[3]) <=> data[1] \in 224..239 /\ data[2] \in 128..191 /\ data[3] \in 128..191 /\ Shortest(p, 2048)
    BY SMT DEF ShortThree
  <2> HIDE DEF p
  <2> QED BY <1>2, <2>1, SMT DEF ScalarValue, Shortest
<1> QED BY <1>1, <1>3, ThreeInTable, ZenonT(60)

LEMMA ScalarOfFour ==
  ASSUME NEW data \in Octets, Len(data) >= 4
  PROVE  ScalarValue(data, 4) <=> TableFour(data[1], data[2], data[3], data[4])
<1>1. data[1] \in 0..255 /\ data[2] \in 0..255 /\ data[3] \in 0..255 /\ data[4] \in 0..255
  BY OctetsAre
<1> DEFINE p == 262144 * (data[1] % 8) + 4096 * (data[2] % 64) + 64 * (data[3] % 64) + (data[4] % 64)
<1>2. <<0, 128, 2048, 65536>>[4] = 65536 /\ CodePoint(data, 4) = p
  BY SMT DEF CodePoint
<1>3. ScalarValue(data, 4) <=> ShortFour(data[1], data[2], data[3], data[4])
  <2>1. ShortFour(data[1], data[2], data[3], data[4]) <=> data[1] \in 240..247 /\ data[2] \in 128..191 /\ data[3] \in 128..191 /\ data[4] \in 128..191 /\ Shortest(p, 65536)
    BY SMT DEF ShortFour
  <2> HIDE DEF p
  <2> QED BY <1>2, <2>1, SMT DEF ScalarValue, Shortest
<1> QED BY <1>1, <1>3, FourInTable, ZenonT(60)

\* The first byte says how long a character is.
LEMMA FirstOfOne == ASSUME NEW a \in 0..127 PROVE CharLen(a) = 1
BY SMT DEF CharLen

LEMMA FirstOfTwo == ASSUME NEW a \in 0..255, NEW b \in 0..255, TableTwo(a, b) PROVE CharLen(a) = 2
BY SMT DEF CharLen, TableTwo

LEMMA FirstOfThree ==
  ASSUME NEW a \in 0..255, NEW b \in 0..255, NEW c \in 0..255, TableThree(a, b, c)
  PROVE  CharLen(a) = 3
BY SMT DEF CharLen, TableThree

LEMMA FirstOfFour ==
  ASSUME NEW a \in 0..255, NEW b \in 0..255, NEW c \in 0..255, NEW d \in 0..255, TableFour(a, b, c, d)
  PROVE  CharLen(a) = 4
BY SMT DEF CharLen, TableFour

\* A character is in the table where its first byte says it is.
LEMMA ScalarsAre ==
  ASSUME NEW data \in Octets, NEW n \in 1..4, Len(data) >= n
  PROVE  ScalarValue(data, n) <=> CharLen(data[1]) = n /\ SomeRow(data, n)
<1>1. Len(data) \in Nat /\ data[1] \in 0..255
  <2>1. Len(data) \in Nat
    BY OctetsAre
  <2>2. 1 \in 1..Len(data)
    BY <2>1
  <2> QED BY <2>1, <2>2, OctetsAre
<1>2. CASE n = 1
  <2>1. Len(data) >= 1
    BY <1>1, <1>2
  <2>2. (ScalarValue(data, 1) <=> data[1] \in 0..127) /\ (SomeRow(data, 1) <=> data[1] \in 0..127)
    BY <2>1, ScalarOfOne, RowsAllow
  <2>3. data[1] \in 0..127 => CharLen(data[1]) = 1
    BY FirstOfOne, Zenon
  <2> QED BY <1>2, <2>2, <2>3
<1>3. CASE n = 2
  <2>1. Len(data) >= 2
    BY <1>1, <1>3
  <2>2. (ScalarValue(data, 2) <=> TableTwo(data[1], data[2])) /\ (SomeRow(data, 2) <=> TableTwo(data[1], data[2]))
    BY <2>1, ScalarOfTwo, RowsAllow
  <2>3. TableTwo(data[1], data[2]) => CharLen(data[1]) = 2
    <3>1. data[1] \in 0..255 /\ data[2] \in 0..255
      BY <1>1, <2>1, OctetsAre
    <3> QED BY <3>1, FirstOfTwo, Zenon
  <2> QED BY <1>3, <2>2, <2>3
<1>4. CASE n = 3
  <2>1. Len(data) >= 3
    BY <1>1, <1>4
  <2>2. (ScalarValue(data, 3) <=> TableThree(data[1], data[2], data[3])) /\ (SomeRow(data, 3) <=> TableThree(data[1], data[2], data[3]))
    BY <2>1, ScalarOfThree, RowsAllow
  <2>3. TableThree(data[1], data[2], data[3]) => CharLen(data[1]) = 3
    <3>1. data[1] \in 0..255 /\ data[2] \in 0..255 /\ data[3] \in 0..255
      BY <1>1, <2>1, OctetsAre
    <3> QED BY <3>1, FirstOfThree, ZenonT(60)
  <2> QED BY <1>4, <2>2, <2>3
<1>5. CASE n = 4
  <2>1. Len(data) >= 4
    BY <1>1, <1>5
  <2>2. (ScalarValue(data, 4) <=> TableFour(data[1], data[2], data[3], data[4])) /\ (SomeRow(data, 4) <=> TableFour(data[1], data[2], data[3], data[4]))
    BY <2>1, ScalarOfFour, RowsAllow
  <2>3. TableFour(data[1], data[2], data[3], data[4]) => CharLen(data[1]) = 4
    <3>1. data[1] \in 0..255 /\ data[2] \in 0..255 /\ data[3] \in 0..255 /\ data[4] \in 0..255
      BY <1>1, <2>1, OctetsAre
    <3> QED BY <3>1, FirstOfFour, ZenonT(60)
  <2> QED BY <1>5, <2>2, <2>3
<1> QED BY <1>2, <1>3, <1>4, <1>5

\* UTF8_char_validate finds the one character there is, or none.
LEMMA CharIs ==
  ASSUME NEW data \in Octets, Len(data) >= 1, NEW n \in 1..4
  PROVE  CharValidate(data) = n <=> n <= Len(data) /\ ScalarValue(data, n)
<1>1. Len(data) \in Nat /\ data[1] \in 0..255 /\ CharLen(data[1]) \in 1..4
  BY OctetsAre DEF CharLen
<1>2. CharValidate(data) = IF CharLen(data[1]) > Len(data) THEN 0
                           ELSE IF SomeRow(data, CharLen(data[1])) THEN CharLen(data[1]) ELSE 0
  BY DEF CharValidate, SomeRow, InRow
<1> QED BY <1>1, <1>2, ScalarsAre

LEMMA CharIsNone ==
  ASSUME NEW data \in Octets, Len(data) >= 1
  PROVE  CharValidate(data) \in 0..4
<1>1. data[1] \in 0..255 /\ CharLen(data[1]) \in 1..4
  BY OctetsAre DEF CharLen
<1> QED BY <1>1 DEF CharValidate

\* The characters the code accepts are those of the definition, so that the two walks are the
\* same function.
LEMMA ValidIsUTF8 ==
  ASSUME NEW data \in Octets
  PROVE  UTF8_validate(data) <=> IsUTF8(data)
<1> DEFINE V(f, k) == k = 0 \/ LET n == CharValidate(LastBytes(data, k)) IN n # 0 /\ f[k - n]
           U(f, k) == k = 0 \/ \E n \in 1..4 : n <= k /\ ScalarValue(LastBytes(data, k), n) /\ f[k - n]
           Vs(f) == [k \in 0..Len(data) |-> V(f, k)]
           Us(f) == [k \in 0..Len(data) |-> U(f, k)]
<1>1. Len(data) \in Nat
  BY OctetsAre
<1>2. ASSUME NEW f, NEW k \in 0..Len(data)
      PROVE  V(f, k) = U(f, k)
  <2>1. CASE k = 0
    BY <2>1
  <2>2. CASE k # 0
    <3> DEFINE rest == LastBytes(data, k)
               c == CharValidate(rest)
    <3>1. rest \in Octets /\ Len(rest) = k /\ k \in Nat /\ k >= 1
      BY <1>1, <2>2, LastBytesAre
    <3> HIDE DEF rest
    <3>2. c \in 0..4
      BY <3>1, CharIsNone
    <3>3. \A n \in 1..4 : c = n <=> n <= k /\ ScalarValue(rest, n)
      BY <3>1, CharIs
    <3> HIDE DEF c
    <3>4. c # 0 /\ f[k - c] <=> \E n \in 1..4 : n <= k /\ ScalarValue(rest, n) /\ f[k - n]
      <4>1. CASE c = 0
        BY <3>3, <4>1
      <4>2. CASE c # 0
        <5>1. c \in 1..4
          BY <3>2, <4>2
        <5>2. c <= k /\ ScalarValue(rest, c)
          BY <3>3, <5>1
        <5>3. \A n \in 1..4 : n <= k /\ ScalarValue(rest, n) => n = c
          BY <3>3
        <5> QED BY <4>2, <5>1, <5>2, <5>3, Zenon
      <4> QED BY <4>1, <4>2
    <3>5. V(f, k) <=> (c # 0 /\ f[k - c])
      BY <2>2 DEF c, rest
    <3>6. U(f, k) <=> \E n \in 1..4 : n <= k /\ ScalarValue(rest, n) /\ f[k - n]
      BY <2>2 DEF rest
    <3>7. V(f, k) <=> U(f, k)
      BY <3>4, <3>5, <3>6, Zenon
    <3> QED BY <3>7
  <2> QED BY <2>1, <2>2
<1> HIDE DEF V, U
<1>3. \A f : Vs(f) = Us(f)
  BY <1>2, Zenon
<1> HIDE DEF Vs, Us
<1>4. (CHOOSE f : f = Vs(f)) = (CHOOSE f : f = Us(f))
  BY <1>3
<1>5. UTF8_validate(data) = (CHOOSE f : f = Vs(f))[Len(data)]
  BY DEF UTF8_validate, Vs, V
<1>6. IsUTF8(data) = (CHOOSE f : f = Us(f))[Len(data)]
  BY DEF IsUTF8, Us, U
<1> QED BY <1>4, <1>5, <1>6

----------------------------------------------------------------------------
(* Base64 *)

\* The groups of n bytes.
LEMMA GroupsOf ==
  ASSUME NEW n \in Nat
  PROVE  \E q \in Nat : \/ n = 3 * q /\ (n + 2) \div 3 = q /\ Base64_encodeLength(n) = 4 * q
                        \/ n = 3 * q - 1 /\ (n + 2) \div 3 = q /\ Base64_encodeLength(n) = 4 * q
                        \/ n = 3 * q - 2 /\ (n + 2) \div 3 = q /\ Base64_encodeLength(n) = 4 * q
<1>1. PICK q \in Nat : n = 3 * q \/ n = 3 * q + 1 \/ n = 3 * q + 2
  <2>1. n \div 3 \in Nat /\ (n = 3 * (n \div 3) \/ n = 3 * (n \div 3) + 1 \/ n = 3 * (n \div 3) + 2)
    BY SMT
  <2> QED BY <2>1
<1>2. CASE n = 3 * q
  <2>1. (n + 2) \div 3 = q /\ (4 * n) \div 3 = 4 * q /\ (4 * q + 3) \div 4 = q
    BY <1>2, SMT
  <2> QED BY <1>2, <2>1, SMT DEF Base64_encodeLength
<1>3. CASE n = 3 * q + 1
  <2>1. (n + 2) \div 3 = q + 1 /\ (4 * n) \div 3 = 4 * q + 1 /\ (4 * q + 4) \div 4 = q + 1
    BY <1>3, SMT
  <2>2. n = 3 * (q + 1) - 2 /\ Base64_encodeLength(n) = 4 * (q + 1) /\ q + 1 \in Nat
    BY <1>3, <2>1, SMT DEF Base64_encodeLength
  <2> QED BY <2>1, <2>2
<1>4. CASE n = 3 * q + 2
  <2>1. (n + 2) \div 3 = q + 1 /\ (4 * n) \div 3 = 4 * q + 2 /\ (4 * q + 5) \div 4 = q + 1
    BY <1>4, SMT
  <2>2. n = 3 * (q + 1) - 1 /\ Base64_encodeLength(n) = 4 * (q + 1) /\ q + 1 \in Nat
    BY <1>4, <2>1, SMT DEF Base64_encodeLength
  <2> QED BY <2>1, <2>2
<1> QED BY <1>1, <1>2, <1>3, <1>4

\* Three bytes in four characters and back.
LEMMA FirstByte ==
  ASSUME NEW a \in 0..255, NEW b \in 0..255
  PROVE  (((a \div 4) * 4) % 256) + ((a % 4) * 16 + b \div 16) \div 16 = a
<1>1. b \div 16 \in 0..15 /\ a % 4 \in 0..3 /\ a \div 4 \in 0..63 /\ a = 4 * (a \div 4) + (a % 4)
  BY SMT
<1>2. ((a % 4) * 16 + b \div 16) \div 16 = a % 4
  BY <1>1, SMT
<1>3. ((a \div 4) * 4) % 256 = (a \div 4) * 4
  BY <1>1, SMT
<1> QED BY <1>1, <1>2, <1>3, SMT

Second(a, b, c) == ((((a % 4) * 16 + b \div 16) % 16) * 16) + ((b % 16) * 4 + c \div 64) \div 4

LEMMA SecondByte ==
  ASSUME NEW a \in 0..255, NEW b \in 0..255, NEW c \in 0..255
  PROVE  Second(a, b, c) = b
<1>1. b \div 16 \in 0..15 /\ a % 4 \in 0..3 /\ b % 16 \in 0..15 /\ c \div 64 \in 0..3 /\ b = 16 * (b \div 16) + (b % 16)
  BY SMT
<1>2. ((a % 4) * 16 + b \div 16) % 16 = b \div 16
  BY <1>1, SMT
<1>3. ((b % 16) * 4 + c \div 64) \div 4 = b % 16
  BY <1>1, SMT
<1> QED BY <1>1, <1>2, <1>3, SMT DEF Second

LEMMA ThirdByte ==
  ASSUME NEW b \in 0..255, NEW c \in 0..255
  PROVE  ((((b % 16) * 4 + c \div 64) % 4) * 64) + (c % 64) = c
<1>1. b % 16 \in 0..15 /\ c \div 64 \in 0..3 /\ c = 64 * (c \div 64) + (c % 64)
  BY SMT
<1>2. ((b % 16) * 4 + c \div 64) % 4 = c \div 64
  BY <1>1, SMT
<1> QED BY <1>1, <1>2, SMT

LEMMA NoPadding ==
  ASSUME NEW b \in 0..255, NEW c \in 0..255
  PROVE  (b % 16) * 4 + c \div 64 # 64 /\ c % 64 # 64
<1>1. b % 16 \in 0..15 /\ c \div 64 \in 0..3 /\ c % 64 \in 0..63
  BY SMT
<1> QED BY <1>1, SMT

ByteAt(in, k) == IF k <= Len(in) THEN in[k] ELSE 0

\* The characters of the group that follows h bytes.
LEMMA GroupIs ==
  ASSUME NEW in \in Octets, NEW h \in Nat
  PROVE  LET a == ByteAt(in, h + 1)
             b == ByteAt(in, h + 2)
             c == ByteAt(in, h + 3)
         IN /\ a \in 0..255 /\ b \in 0..255 /\ c \in 0..255
            /\ EncodedChar(in, h, 0) = a \div 4
            /\ EncodedChar(in, h, 1) = (a % 4) * 16 + b \div 16
            /\ EncodedChar(in, h, 2) = IF h + 2 <= Len(in) THEN (b % 16) * 4 + c \div 64 ELSE 64
            /\ EncodedChar(in, h, 3) = IF h + 3 <= Len(in) THEN c % 64 ELSE 64
<1>1. Len(in) \in Nat /\ \A i \in 1..Len(in) : in[i] \in 0..255
  BY OctetsAre
<1>2. \A k \in 1..3 : ByteAt(in, h + k) \in 0..255
  BY <1>1 DEF ByteAt
<1>3. /\ EncodedChar(in, h, 0) = ByteAt(in, h + 1) \div 4
      /\ EncodedChar(in, h, 1) = (ByteAt(in, h + 1) % 4) * 16 + ByteAt(in, h + 2) \div 16
  BY DEF EncodedChar, ByteAt
<1>4. EncodedChar(in, h, 2) = IF h + 2 <= Len(in) THEN (ByteAt(in, h + 2) % 16) * 4 + ByteAt(in, h + 3) \div 64 ELSE 64
  BY DEF EncodedChar, ByteAt
<1>5. EncodedChar(in, h, 3) = IF h + 3 <= Len(in) THEN ByteAt(in, h + 3) % 64 ELSE 64
  BY DEF EncodedChar, ByteAt
<1> QED BY <1>2, <1>3, <1>4, <1>5

\* The number of groups, and the characters of each.
LEMMA EncodedIs ==
  ASSUME NEW in \in Octets
  PROVE  LET e == Base64_encode(in)
             q == (Len(in) + 2) \div 3
         IN /\ q \in Nat /\ Len(e) = 4 * q /\ Base64_encodeLength(Len(in)) = 4 * q
            /\ Len(in) = 3 * q \/ Len(in) = 3 * q - 1 \/ Len(in) = 3 * q - 2
            /\ \A g \in 0 .. q - 1 : \A j \in 0..3 : e[4 * g + j + 1] = EncodedChar(in, 3 * g, j)
<1> DEFINE e == Base64_encode(in)
           q == (Len(in) + 2) \div 3
<1>1. Len(in) \in Nat
  BY OctetsAre
<1>2. /\ q \in Nat /\ Base64_encodeLength(Len(in)) = 4 * q
      /\ Len(in) = 3 * q \/ Len(in) = 3 * q - 1 \/ Len(in) = 3 * q - 2
  BY <1>1, GroupsOf
<1>3. e = [i \in 1 .. 4 * q |-> EncodedChar(in, 3 * ((i - 1) \div 4), (i - 1) % 4)]
  BY DEF Base64_encode
<1> HIDE DEF e, q
<1>4. Len(e) = 4 * q
  BY <1>2, <1>3
<1>5. ASSUME NEW g \in 0 .. q - 1, NEW j \in 0..3
      PROVE  e[4 * g + j + 1] = EncodedChar(in, 3 * g, j)
  <2>1. 4 * g + j + 1 \in 1 .. 4 * q
    BY <1>2, SMT
  <2>2. ((4 * g + j + 1) - 1) \div 4 = g /\ ((4 * g + j + 1) - 1) % 4 = j
    BY <1>2, SMT
  <2>3. e[4 * g + j + 1] = EncodedChar(in, 3 * (((4 * g + j + 1) - 1) \div 4), ((4 * g + j + 1) - 1) % 4)
    BY <1>3, <2>1, Zenon
  <2> QED BY <2>2, <2>3, Zenon
<1> QED BY <1>2, <1>4, <1>5 DEF e, q

\* Where the padding is: nowhere but in the last two characters.
LEMMA PaddingIs ==
  ASSUME NEW in \in Octets
  PROVE  LET e == Base64_encode(in)
             q == (Len(in) + 2) \div 3
         IN \A g \in 0 .. q - 1 : /\ e[4 * g + 3] = 64 <=> 3 * g + 2 > Len(in)
                                  /\ e[4 * g + 4] = 64 <=> 3 * g + 3 > Len(in)
<1> DEFINE e == Base64_encode(in)
           q == (Len(in) + 2) \div 3
<1> SUFFICES ASSUME NEW g \in 0 .. q - 1
             PROVE  (e[4 * g + 3] = 64 <=> 3 * g + 2 > Len(in)) /\ (e[4 * g + 4] = 64 <=> 3 * g + 3 > Len(in))
  OBVIOUS
<1>1. q \in Nat /\ \A j \in 0..3 : e[4 * g + j + 1] = EncodedChar(in, 3 * g, j)
  BY EncodedIs
<1>2. Len(in) \in Nat
  BY OctetsAre
<1> HIDE DEF e, q
<1>3. g \in Nat /\ 4 * g + 2 + 1 = 4 * g + 3 /\ 4 * g + 3 + 1 = 4 * g + 4 /\ 3 * g \in Nat
  BY <1>1
<1>4. e[4 * g + 3] = EncodedChar(in, 3 * g, 2) /\ e[4 * g + 4] = EncodedChar(in, 3 * g, 3)
  <2>1. e[4 * g + 2 + 1] = EncodedChar(in, 3 * g, 2) /\ e[4 * g + 3 + 1] = EncodedChar(in, 3 * g, 3)
    BY <1>1
  <2> QED BY <1>3, <2>1
<1> DEFINE b == ByteAt(in, 3 * g + 2)
           c == ByteAt(in, 3 * g + 3)
<1>5. /\ b \in 0..255 /\ c \in 0..255
      /\ EncodedChar(in, 3 * g, 2) = IF 3 * g + 2 <= Len(in) THEN (b % 16) * 4 + c \div 64 ELSE 64
      /\ EncodedChar(in, 3 * g, 3) = IF 3 * g + 3 <= Len(in) THEN c % 64 ELSE 64
  BY <1>3, GroupIs, ZenonT(60)
<1> HIDE DEF b, c
<1>6. (b % 16) * 4 + c \div 64 # 64 /\ c % 64 # 64
  BY <1>5, NoPadding
<1> QED BY <1>2, <1>3, <1>4, <1>5, <1>6, SMTT(60)

\* The bytes of a group, decoded from its characters.
LEMMA ByteBack ==
  ASSUME NEW in \in Octets, NEW g \in Nat, NEW j \in 0..2, 3 * g + j + 1 <= Len(in)
  PROVE  DecodedByte(Base64_encode(in), 4 * g, j) = in[3 * g + j + 1]
<1> DEFINE e == Base64_encode(in)
           q == (Len(in) + 2) \div 3
           a == ByteAt(in, 3 * g + 1)
           b == ByteAt(in, 3 * g + 2)
           c == ByteAt(in, 3 * g + 3)
<1>1. Len(in) \in Nat
  BY OctetsAre
<1>2. /\ q \in Nat /\ (Len(in) = 3 * q \/ Len(in) = 3 * q - 1 \/ Len(in) = 3 * q - 2)
      /\ \A h \in 0 .. q - 1 : \A k \in 0..3 : e[4 * h + k + 1] = EncodedChar(in, 3 * h, k)
  BY EncodedIs
<1> HIDE DEF q
<1>3. g \in 0 .. q - 1
  BY <1>1, <1>2
<1>4. \A k \in 0..3 : e[4 * g + k + 1] = EncodedChar(in, 3 * g, k)
  BY <1>2, <1>3
<1> HIDE DEF e
<1>5. /\ e[4 * g + 1] = EncodedChar(in, 3 * g, 0) /\ e[4 * g + 2] = EncodedChar(in, 3 * g, 1)
      /\ e[4 * g + 3] = EncodedChar(in, 3 * g, 2) /\ e[4 * g + 4] = EncodedChar(in, 3 * g, 3)
  <2>1. 4 * g + 0 + 1 = 4 * g + 1 /\ 4 * g + 1 + 1 = 4 * g + 2 /\ 4 * g + 2 + 1 = 4 * g + 3 /\ 4 * g + 3 + 1 = 4 * g + 4
    OBVIOUS
  <2>2. /\ e[4 * g + 0 + 1] = EncodedChar(in, 3 * g, 0) /\ e[4 * g + 1 + 1] = EncodedChar(in, 3 * g, 1)
        /\ e[4 * g + 2 + 1] = EncodedChar(in, 3 * g, 2) /\ e[4 * g + 3 + 1] = EncodedChar(in, 3 * g, 3)
    BY <1>4
  <2> QED BY <2>1, <2>2
<1>6. /\ a \in 0..255 /\ b \in 0..255 /\ c \in 0..255
      /\ EncodedChar(in, 3 * g, 0) = a \div 4
      /\ EncodedChar(in, 3 * g, 1) = (a % 4) * 16 + b \div 16
      /\ EncodedChar(in, 3 * g, 2) = IF 3 * g + 2 <= Len(in) THEN (b % 16) * 4 + c \div 64 ELSE 64
      /\ EncodedChar(in, 3 * g, 3) = IF 3 * g + 3 <= Len(in) THEN c % 64 ELSE 64
  <2>1. 3 * g \in Nat
    OBVIOUS
  <2> QED BY <2>1, GroupIs, ZenonT(60)
<1>7. CASE j = 0
  <2>1. in[3 * g + j + 1] = a
    BY <1>7 DEF ByteAt
  <2>2. DecodedByte(e, 4 * g, j) = ((e[4 * g + 1] * 4) % 256) + e[4 * g + 2] \div 16
    BY <1>7 DEF DecodedByte
  <2> HIDE DEF a, b, c
  <2>3. DecodedByte(e, 4 * g, j) = (((a \div 4) * 4) % 256) + ((a % 4) * 16 + b \div 16) \div 16
    BY <1>5, <1>6, <2>2, ZenonT(60)
  <2>4. DecodedByte(e, 4 * g, j) = a
    <3>1. (((a \div 4) * 4) % 256) + ((a % 4) * 16 + b \div 16) \div 16 = a
      <4>1. a \in 0..255 /\ b \in 0..255 /\ c \in 0..255
        BY <1>6
      <4> QED BY <4>1, FirstByte, SMT
    <3> QED BY <2>3, <3>1, Zenon
  <2> QED BY <2>1, <2>4 DEF e
<1>8. CASE j = 1
  <2>1. in[3 * g + j + 1] = b
    BY <1>8 DEF ByteAt
  <2>2. DecodedByte(e, 4 * g, j) = (e[4 * g + 2] % 16) * 16 + e[4 * g + 3] \div 4
    BY <1>8 DEF DecodedByte
  <2> HIDE DEF a, b, c
  <2>3. DecodedByte(e, 4 * g, j) = Second(a, b, c)
    <3>1. 3 * g + 2 <= Len(in)
      BY <1>1, <1>8
    <3> QED BY <1>5, <1>6, <2>2, <3>1, ZenonT(60) DEF Second
  <2>4. DecodedByte(e, 4 * g, j) = b
    <3>1. a \in 0..255 /\ b \in 0..255 /\ c \in 0..255
      BY <1>6
    <3>2. Second(a, b, c) = b
      BY <3>1, SecondByte, ZenonT(60)
    <3> QED BY <2>3, <3>2, Zenon
  <2> QED BY <2>1, <2>4 DEF e
<1>9. CASE j = 2
  <2>1. in[3 * g + j + 1] = c
    BY <1>9 DEF ByteAt
  <2>2. DecodedByte(e, 4 * g, j) = (e[4 * g + 3] % 4) * 64 + e[4 * g + 4]
    BY <1>9 DEF DecodedByte
  <2> HIDE DEF a, b, c
  <2>3. DecodedByte(e, 4 * g, j) = ((((b % 16) * 4 + c \div 64) % 4) * 64) + (c % 64)
    BY <1>1, <1>5, <1>6, <1>9, <2>2, SMTT(60)
  <2>4. DecodedByte(e, 4 * g, j) = c
    BY <1>6, <2>3, ThirdByte, ZenonT(60)
  <2> QED BY <2>1, <2>4 DEF e
<1> QED BY <1>7, <1>8, <1>9

LEMMA OneLeast == ASSUME NEW q \in Nat PROVE Min({q}) = q
BY DEF Min

\* Decoding gives the bytes back, as many as announced.
LEMMA DecodeEncoded ==
  ASSUME NEW in \in Octets
  PROVE  /\ Base64_decode(Base64_encode(in)) = in
         /\ Base64_decodeLength(Base64_encode(in)) = Len(in)
<1> DEFINE e == Base64_encode(in)
           q == (Len(in) + 2) \div 3
           n == Len(in)
<1>1. n \in Nat /\ in = [i \in 1..n |-> in[i]]
  <2>1. n \in Nat
    BY OctetsAre
  <2>2. in \in Seq(0..255)
    BY DEF Octets
  <2> DEFINE S == 0..255
  <2>3. in \in Seq(S)
    BY <2>2
  <2> HIDE DEF S
  <2> QED BY <2>1, <2>3
<1>2. q \in Nat /\ Len(e) = 4 * q /\ (n = 3 * q \/ n = 3 * q - 1 \/ n = 3 * q - 2)
  BY EncodedIs
<1>3. \A g \in 0 .. q - 1 : (e[4 * g + 3] = 64 <=> 3 * g + 2 > n) /\ (e[4 * g + 4] = 64 <=> 3 * g + 3 > n)
  BY PaddingIs
<1>4. \A g \in Nat, j \in 0..2 : 3 * g + j + 1 <= n => DecodedByte(e, 4 * g, j) = in[3 * g + j + 1]
  BY ByteBack
<1>5. Base64_decode(e) =
        LET groups == Len(e) \div 4
            padded == {g \in 1..groups : e[4 * g - 1] = 64 \/ e[4 * g] = 64}
            last == Min(padded)
            len == IF padded = {} THEN 3 * groups ELSE 3 * last - (IF e[4 * last - 1] = 64 THEN 2 ELSE 1)
        IN [i \in 1..len |-> DecodedByte(e, 4 * ((i - 1) \div 3), (i - 1) % 3)]
  BY DEF Base64_decode
<1>6. Base64_decodeLength(e) =
        (Len(e) \div 4) * 3 - (IF Len(e) - 1 >= 1 /\ e[Len(e) - 1] = 64 THEN 1 ELSE 0)
                            - (IF Len(e) >= 1 /\ e[Len(e)] = 64 THEN 1 ELSE 0)
  BY DEF Base64_decodeLength
<1> HIDE DEF e, q, n
<1>7. Len(e) \div 4 = q
  BY <1>2
<1>8. ASSUME NEW g \in 1..q
      PROVE  (e[4 * g - 1] = 64 <=> 3 * g - 1 > n) /\ (e[4 * g] = 64 <=> 3 * g > n)
  <2>1. g - 1 \in 0 .. q - 1 /\ 4 * (g - 1) + 3 = 4 * g - 1 /\ 4 * (g - 1) + 4 = 4 * g
        /\ 3 * (g - 1) + 2 = 3 * g - 1 /\ 3 * (g - 1) + 3 = 3 * g
    BY <1>2
  <2>2. (e[4 * (g - 1) + 3] = 64 <=> 3 * (g - 1) + 2 > n) /\ (e[4 * (g - 1) + 4] = 64 <=> 3 * (g - 1) + 3 > n)
    BY <1>3, <2>1
  <2> QED BY <2>1, <2>2
<1> DEFINE padded == {g \in 1..q : e[4 * g - 1] = 64 \/ e[4 * g] = 64}
           len == IF padded = {} THEN 3 * q ELSE 3 * Min(padded) - (IF e[4 * Min(padded) - 1] = 64 THEN 2 ELSE 1)
<1>9. Base64_decode(e) = [i \in 1..len |-> DecodedByte(e, 4 * ((i - 1) \div 3), (i - 1) % 3)]
  BY <1>5, <1>7
<1>10. len = n /\ Base64_decodeLength(e) = n
  <2>1. CASE n = 3 * q
    <3>1. padded = {}
      BY <1>1, <1>2, <1>8, <2>1
    <3>2. len = n
      BY <2>1, <3>1
    <3> HIDE DEF len, padded
    <3>3. CASE q = 0
      BY <1>2, <1>6, <1>7, <2>1, <3>2, <3>3
    <3>4. CASE q # 0
      <4>1. q \in 1..q /\ 4 * q >= 1 /\ 4 * q - 1 >= 1
        BY <1>2, <3>4
      <4>2. e[4 * q - 1] # 64 /\ e[4 * q] # 64
        BY <1>1, <1>2, <1>8, <2>1, <4>1
      <4> QED BY <1>1, <1>2, <1>6, <1>7, <2>1, <3>2, <4>2
    <3> QED BY <3>3, <3>4
  <2>2. CASE n # 3 * q
    <3>1. q \in 1..q /\ 4 * q >= 1 /\ 4 * q - 1 >= 1
      BY <1>1, <1>2, <2>2
    <3>2. (e[4 * q - 1] = 64 <=> n = 3 * q - 2) /\ e[4 * q] = 64
      BY <1>1, <1>2, <1>8, <2>2, <3>1
    <3>3. padded = {q}
      <4>1. \A g \in 1..q : g # q => ~(3 * g > n) /\ ~(3 * g - 1 > n)
        BY <1>1, <1>2
      <4>2. \A g \in 1..q : g # q => e[4 * g - 1] # 64 /\ e[4 * g] # 64
        BY <1>8, <4>1
      <4> QED BY <3>1, <3>2, <4>2
    <3>4. padded # {} /\ Min(padded) = q
      BY <1>2, <3>3, OneLeast
    <3>5. len = 3 * q - (IF e[4 * q - 1] = 64 THEN 2 ELSE 1)
      BY <3>4
    <3> HIDE DEF len, padded
    <3>6. len = n
      BY <1>1, <1>2, <2>2, <3>2, <3>5
    <3>7. Base64_decodeLength(e) = n
      BY <1>1, <1>2, <1>6, <1>7, <2>2, <3>1, <3>2, SMTT(60)
    <3> QED BY <3>6, <3>7
  <2> QED BY <2>1, <2>2
<1> HIDE DEF len, padded
<1>11. ASSUME NEW i \in 1..n
       PROVE  DecodedByte(e, 4 * ((i - 1) \div 3), (i - 1) % 3) = in[i]
  <2> DEFINE g == (i - 1) \div 3
             j == (i - 1) % 3
  <2>1. g \in Nat /\ j \in 0..2 /\ 3 * g + j + 1 = i /\ i <= n
    <3>1. i \in Int /\ i <= n /\ i - 1 \in Nat
      BY <1>1
    <3>2. \A k \in Nat : k \div 3 \in Nat /\ k % 3 \in 0..2 /\ 3 * (k \div 3) + (k % 3) = k
      BY SMT
    <3>3. g \in Nat /\ j \in 0..2 /\ 3 * g + j = i - 1
      BY <3>1, <3>2
    <3> HIDE DEF g, j
    <3> QED BY <3>1, <3>3
  <2> HIDE DEF g, j
  <2>2. DecodedByte(e, 4 * g, j) = in[3 * g + j + 1]
    BY <1>4, <2>1
  <2> QED BY <2>1, <2>2 DEF g, j
<1>12. Base64_decode(e) = [i \in 1..n |-> in[i]]
  BY <1>9, <1>10, <1>11
<1> QED BY <1>1, <1>10, <1>12 DEF e, n

----------------------------------------------------------------------------
(* Texts *)

LEMMA TextGrows == ASSUME text \in Octets, TextNext PROVE text' \in Octets
<1>1. PICK b \in TextBytes : text' = Append(text, b)
  BY DEF TextNext
<1>2. b \in 0..255
  BY TextAssumption
<1> DEFINE S == 0..255
<1>3. text \in Seq(S) /\ b \in S
  BY <1>2 DEF Octets
<1> HIDE DEF S
<1>4. text' \in Seq(S)
  BY <1>1, <1>3
<1> QED BY <1>4 DEF S, Octets

\* A text of bytes has the property, however it came about.
LEMMA OctetsExact == ASSUME text \in Octets PROVE TextExact
<1>1. UTF8_validate(text) <=> IsUTF8(text)
  BY ValidIsUTF8
<1>2. Base64_decode(Base64_encode(text)) = text /\ Base64_decodeLength(Base64_encode(text)) = Len(text)
  BY DecodeEncoded
<1>3. Len(Base64_encode(text)) = Base64_encodeLength(Len(text))
  BY EncodedIs
<1> QED BY <1>1, <1>2, <1>3 DEF TextExact

\* For every text of any bytes and any length, the table of ranges accepts
\* exactly the UTF-8 of Unicode scalar values (utf-8.c:44-147), and Base64
\* gives the text back, in buffers of the lengths that are announced
\* (Base64.c:100-253).
THEOREM TextIsExact == TextSpec => []TextExact
<1>1. TextInit => text \in Octets
  BY DEF TextInit, Octets
<1>2. text \in Octets /\ [TextNext]_text => (text \in Octets)'
  BY TextGrows
<1>3. text \in Octets => TextExact
  BY OctetsExact
<1> QED BY <1>1, <1>2, <1>3, PTL DEF TextSpec
=============================================================================

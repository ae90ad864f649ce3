------------------------- MODULE AsyncConnectProofs -------------------------
(***************************************************************************)
(* Proofs about AsyncConnect, for any number of calls, server URIs of any  *)
(* number, any retry intervals and any set of MQTT versions.               *)
(***************************************************************************)
EXTENDS AsyncConnect, TLAPS

----------------------------------------------------------------------------
(* The command list *)

\* the list q without its n-th command
Cut(q, n) == SubSeq(q, 1, n - 1) \o SubSeq(q, n + 1, Len(q))

\* Removing a command from the list moves the later ones up.
LEMMA CutFacts ==
    ASSUME NEW q \in Seq(Command), NEW n \in DOMAIN q
    PROVE  /\ Cut(q, n) \in Seq(Command)
           /\ Len(Cut(q, n)) = Len(q) - 1
           /\ DOMAIN Cut(q, n) = 1 .. Len(q) - 1
           /\ \A i \in DOMAIN Cut(q, n) :
                Cut(q, n)[i] = (IF i < n THEN q[i] ELSE q[i + 1])
<1>1. n \in 1 .. Len(q) /\ Len(q) \in Nat
  OBVIOUS
<1> DEFINE a == SubSeq(q, 1, n - 1)
           b == SubSeq(q, n + 1, Len(q))
<1>2. /\ a \in Seq(Command) /\ Len(a) = n - 1
      /\ \A i \in 1 .. n - 1 : a[i] = q[i]
  BY <1>1
<1>3. /\ b \in Seq(Command) /\ Len(b) = Len(q) - n
      /\ \A i \in 1 .. Len(q) - n : b[i] = q[n + i]
  BY <1>1
<1> HIDE DEF a, b
<1>4. /\ a \o b \in Seq(Command) /\ Len(a \o b) = Len(q) - 1
      /\ \A i \in 1 .. Len(q) - 1 :
           (a \o b)[i] = IF i <= n - 1 THEN a[i] ELSE b[i - (n - 1)]
  BY SMTT(60), <1>1, <1>2, <1>3
<1>5. ASSUME NEW i \in 1 .. Len(q) - 1
      PROVE  (a \o b)[i] = IF i < n THEN q[i] ELSE q[i + 1]
  <2>1. CASE i < n
    BY <1>1, <1>2, <1>4, <2>1
  <2>2. CASE ~(i < n)
    <3> DEFINE k == i - (n - 1)
    <3>1. k \in 1 .. Len(q) - n /\ n + k = i + 1
      BY <1>1, <2>2
    <3>2. b[k] = q[n + k]
      BY <1>3, <3>1
    <3>3. QED
      BY SMTT(60), <1>1, <1>4, <2>2, <3>1, <3>2
  <2>3. QED
    BY <2>1, <2>2
<1>6. Cut(q, n) = a \o b
  BY DEF Cut, a, b
<1>7. DOMAIN (a \o b) = 1 .. Len(q) - 1
  BY <1>4
<1>8. QED
  BY <1>4, <1>5, <1>6, <1>7

\* cmd put in front of the list r
LEMMA PrependFacts ==
    ASSUME NEW r \in Seq(Command), NEW cmd \in Command
    PROVE  /\ <<cmd>> \o r \in Seq(Command)
           /\ DOMAIN (<<cmd>> \o r) = 1 .. Len(r) + 1
           /\ (<<cmd>> \o r)[1] = cmd
           /\ \A i \in 2 .. Len(r) + 1 : (<<cmd>> \o r)[i] = r[i - 1]
OBVIOUS

\* What MQTTAsync_addCommand may make of the list q: every command of x is cmd, or
\* stands for a different one of q; of several with the type of cmd it keeps no
\* more than q had; a command of another type is never lost.
Origin(f, x, q, cmd) ==
    /\ \A i \in DOMAIN x : x[i] = IF f[i] = 0 THEN cmd ELSE q[f[i]]
    /\ \A i, j \in DOMAIN x : f[i] = f[j] => i = j
    /\ \A i, j \in DOMAIN x : f[i] = 0 /\ f[j] # 0 /\ q[f[j]].type = cmd.type =>
         \E k \in DOMAIN q : k # f[j] /\ q[k].type = cmd.type
    /\ \A n \in DOMAIN q : q[n].type # cmd.type => \E i \in DOMAIN x : f[i] = n

Added(x, q, cmd) ==
    /\ x \in Seq(Command)
    /\ \E f \in [DOMAIN x -> {0} \cup DOMAIN q] : Origin(f, x, q, cmd)
    /\ cmd.type # "NONE" => \E i \in DOMAIN x : x[i].type = cmd.type

\* MQTTAsync_addCommand makes such a list, whichever of its branches it takes.
LEMMA AddHeadFacts ==
    ASSUME NEW q \in Seq(Command), NEW cmd \in Command, NEW x \in AddHead(q, cmd)
    PROVE  Added(x, q, cmd)
<1> DEFINE same == {n \in DOMAIN q : q[n].type = cmd.type}
<1>0. Len(q) \in Nat /\ DOMAIN q = 1 .. Len(q)
  OBVIOUS
<1>1. CASE x = q /\ (cmd.type # "NONE" => 1 \in same)
  <2> DEFINE f == [i \in DOMAIN q |-> i]
  <2>1. f \in [DOMAIN x -> {0} \cup DOMAIN q] /\ \A i \in DOMAIN x : f[i] = i /\ i # 0
    BY <1>0, <1>1
  <2> HIDE DEF f
  <2>2. QED
    BY <1>0, <1>1, <2>1 DEF Added, Origin
<1>2. CASE same = {} /\ x = <<cmd>> \o q
  <2> DEFINE f == [i \in 1 .. Len(q) + 1 |-> i - 1]
  <2>1. /\ x \in Seq(Command) /\ DOMAIN x = 1 .. Len(q) + 1 /\ x[1] = cmd
        /\ \A i \in 2 .. Len(q) + 1 : x[i] = q[i - 1]
    BY <1>2, PrependFacts
  <2>2. f \in [DOMAIN x -> {0} \cup DOMAIN q] /\ \A i \in DOMAIN x : f[i] = i - 1
    BY <1>0, <2>1
  <2>3. \A n \in DOMAIN q : n + 1 \in DOMAIN x /\ f[n + 1] = n
    BY <1>0, <2>1
  <2> HIDE DEF f
  <2>4. \A i \in DOMAIN x : x[i] = IF f[i] = 0 THEN cmd ELSE q[f[i]]
    BY <1>0, <2>1, <2>2
  <2>5. \A i, j \in DOMAIN x : f[i] = f[j] => i = j
    BY <1>0, <2>1, <2>2
  <2>6. \A j \in DOMAIN x : f[j] # 0 => f[j] \in DOMAIN q /\ q[f[j]].type # cmd.type
    BY <1>0, <1>2, <2>1, <2>2
  <2>7. 1 \in DOMAIN x
    BY <1>0, <2>1
  <2>8. Origin(f, x, q, cmd)
    BY <2>3, <2>4, <2>5, <2>6 DEF Origin
  <2>9. QED
    BY <2>1, <2>2, <2>7, <2>8 DEF Added
<1>3. ASSUME NEW n \in same, \A j \in same : n <= j, x = <<cmd>> \o Cut(q, n)
      PROVE  Added(x, q, cmd)
  <2> DEFINE f == [i \in 1 .. Len(q) |-> IF i = 1 THEN 0 ELSE IF i - 1 < n THEN i - 1 ELSE i]
  <2>1. /\ Cut(q, n) \in Seq(Command) /\ DOMAIN Cut(q, n) = 1 .. Len(q) - 1
        /\ Len(Cut(q, n)) = Len(q) - 1
        /\ \A i \in 1 .. Len(q) - 1 : Cut(q, n)[i] = (IF i < n THEN q[i] ELSE q[i + 1])
        /\ n \in 1 .. Len(q)
    BY ZenonT(60), <1>0, CutFacts
  <2>3. /\ x \in Seq(Command) /\ DOMAIN x = 1 .. Len(q) /\ x[1] = cmd
        /\ \A i \in 2 .. Len(q) : x[i] = Cut(q, n)[i - 1]
    <3> DEFINE r == Cut(q, n)
    <3> HIDE DEF r
    <3>1. r \in Seq(Command) /\ Len(r) + 1 = Len(q) /\ x = <<cmd>> \o r
      BY <1>0, <1>3, <2>1 DEF r
    <3>2. /\ x \in Seq(Command) /\ DOMAIN x = 1 .. Len(r) + 1 /\ x[1] = cmd
          /\ \A i \in 2 .. Len(r) + 1 : x[i] = r[i - 1]
      BY <3>1, PrependFacts
    <3>3. QED
      BY <3>1, <3>2 DEF r
  <2>4. /\ f \in [DOMAIN x -> {0} \cup DOMAIN q]
        /\ f[1] = 0
        /\ \A i \in 2 .. Len(q) : i <= n => f[i] = i - 1
        /\ \A i \in 2 .. Len(q) : i > n => f[i] = i
    BY <1>0, <2>1, <2>3
  <2> HIDE DEF f
  <2>5. ASSUME NEW i \in DOMAIN x
        PROVE  /\ x[i] = IF f[i] = 0 THEN cmd ELSE q[f[i]]
               /\ f[i] # n
               /\ i \in Int /\ f[i] \in Int
               /\ i = IF f[i] = 0 THEN 1 ELSE IF f[i] < n THEN f[i] + 1 ELSE f[i]
    <3>0. n \in Int /\ 1 <= n /\ i \in Int /\ 1 <= i /\ i <= Len(q)
      BY <1>0, <2>1, <2>3
    <3>1. CASE i = 1
      BY <2>3, <2>4, <3>0, <3>1
    <3>2. CASE i # 1 /\ i <= n
      <4>1. /\ i \in 2 .. Len(q) /\ f[i] = i - 1
            /\ i - 1 \in 1 .. Len(q) - 1 /\ i - 1 < n
        BY <1>0, <2>4, <3>0, <3>2
      <4>2. x[i] = q[i - 1]
        BY <2>1, <2>3, <4>1
      <4>3. QED
        BY <3>0, <4>1, <4>2
    <3>3. CASE i > n
      <4>1. /\ i \in 2 .. Len(q) /\ f[i] = i
            /\ i - 1 \in 1 .. Len(q) - 1 /\ ~(i - 1 < n) /\ (i - 1) + 1 = i
        BY <1>0, <2>4, <3>0, <3>3
      <4>2. x[i] = q[i]
        BY <2>1, <2>3, <4>1
      <4>3. QED
        BY <3>0, <3>3, <4>1, <4>2
    <3>4. QED
      BY <3>0, <3>1, <3>2, <3>3
  <2>6. \A i, j \in DOMAIN x : f[i] = f[j] => i = j
    BY <2>5
  <2>7. \A i \in DOMAIN x : f[i] # n
    BY <2>5
  <2>8. \A m \in DOMAIN q : m # n => \E i \in DOMAIN x : f[i] = m
    <3> SUFFICES ASSUME NEW m \in DOMAIN q, m # n PROVE \E i \in DOMAIN x : f[i] = m
      OBVIOUS
    <3>1. CASE m < n
      <4>1. m + 1 \in DOMAIN x /\ f[m + 1] = m
        BY <1>0, <2>1, <2>3, <2>4, <3>1
      <4>2. QED
        BY <4>1
    <3>2. CASE m > n
      <4>1. m \in DOMAIN x /\ f[m] = m
        BY <1>0, <2>1, <2>3, <2>4, <3>2
      <4>2. QED
        BY <4>1
    <3>3. QED
      BY <1>0, <2>1, <3>1, <3>2
  <2>9. n \in DOMAIN q /\ q[n].type = cmd.type /\ 1 \in DOMAIN x
    BY <1>0, <2>1, <2>3
  <2>10. \A i, j \in DOMAIN x : f[i] = 0 /\ f[j] # 0 /\ q[f[j]].type = cmd.type =>
           \E k \in DOMAIN q : k # f[j] /\ q[k].type = cmd.type
    BY <2>7, <2>9
  <2>11. Origin(f, x, q, cmd)
    BY <2>5, <2>6, <2>8, <2>9, <2>10 DEF Origin
  <2>12. QED
    BY SMTT(60), <2>3, <2>4, <2>9, <2>11 DEF Added
<1>4. QED
  BY <1>1, <1>2, <1>3 DEF AddHead, Cut

----------------------------------------------------------------------------
(* The inductive invariant *)

HasConnect(q) == \E n \in DOMAIN q : q[n].type = "CONNECT"
Waits(q, i) == \E n \in DOMAIN q : q[n].cb = i

\* Ix is a set of indexes that the handlers do not lead out of, like the indexes
\* of the array, or all numbers
Indexes(Ix) == 0 \in Ix /\ \A k \in Nat : k < uriCount => k \in Ix
InArray(cmd, Ix) == cmd.uri \in Ix

\* a command the library makes: never a disconnect call of the application
CmdOK(cmd, Ix) ==
    /\ InArray(cmd, Ix)
    /\ cmd.cb \notin DiscIds
    /\ cmd.type = "DISCONNECT" => cmd.internal

\* the list has at most one CONNECT and each disconnect call at most once; a
\* DISCONNECT that is not internal is such a call
QueueOK(q, Ix) ==
    /\ \A n \in DOMAIN q :
         /\ InArray(q[n], Ix)
         /\ q[n].type = "CONNECT" => q[n].cb \notin DiscIds
         /\ q[n].type = "DISCONNECT" /\ ~q[n].internal => q[n].cb \in DiscIds
    /\ \A m, n \in DOMAIN q :
         /\ q[m].type = "CONNECT" /\ q[n].type = "CONNECT" => m = n
         /\ q[m].cb \in DiscIds /\ q[m].cb = q[n].cb => m = n

\* the wait of a disconnect call is not over: m->disconnect is that call
Parting(i) == connState = "DISCONNECTING" /\ disc.cb = i

\* a disconnect call is queued, waits, or has been reported: one of these
PartInv ==
    /\ \A i \in DiscIds :
         /\ parted[i] <= 1
         /\ i \notin used => parted[i] = 0
         /\ Waits(queue, i) => i \in used /\ parted[i] = 0 /\ ~Parting(i)
         /\ Parting(i) => i \in used /\ parted[i] = 0
    /\ connState = "DISCONNECTING" => disc.cb \in DiscIds

\* what is in progress was started by a CONNECT, which nextOrClose can repeat
TryInv ==
    /\ connect.type \in {"NONE", "CONNECT"}
    /\ connState # "NOT_IN_PROGRESS" \/ connected =>
         connect.type = "CONNECT" \/ HasConnect(queue)
    /\ StillTrying

ConnectInv(Ix) == TypeOK /\ QueueOK(queue, Ix) /\ CmdOK(connect, Ix) /\ PartInv /\ TryInv

\* MQTTAsync_addCommand keeps the list in order and adds no disconnect call.
LEMMA AddedOK ==
    ASSUME NEW Ix, Indexes(Ix),
           NEW q \in Seq(Command), QueueOK(q, Ix), NEW cmd \in Command, CmdOK(cmd, Ix),
           NEW x, Added(x, q, cmd)
    PROVE  /\ x \in Seq(Command)
           /\ QueueOK(x, Ix)
           /\ \A i \in DiscIds : Waits(x, i) => Waits(q, i)
           /\ HasConnect(q) \/ cmd.type = "CONNECT" => HasConnect(x)
<1>1. PICK f \in [DOMAIN x -> {0} \cup DOMAIN q] : Origin(f, x, q, cmd)
  BY DEF Added
<1>2. ASSUME NEW i \in DOMAIN x
      PROVE  \/ f[i] = 0 /\ x[i] = cmd
             \/ f[i] # 0 /\ f[i] \in DOMAIN q /\ x[i] = q[f[i]]
  BY <1>1 DEF Origin
<1>3. ASSUME NEW n \in DOMAIN x
      PROVE  /\ InArray(x[n], Ix)
             /\ x[n].type = "CONNECT" => x[n].cb \notin DiscIds
             /\ x[n].type = "DISCONNECT" /\ ~x[n].internal => x[n].cb \in DiscIds
  BY <1>2 DEF QueueOK, CmdOK
<1>4. ASSUME NEW m \in DOMAIN x, NEW n \in DOMAIN x,
             x[m].type = "CONNECT", x[n].type = "CONNECT"
      PROVE  m = n
  <2>1. f[m] = f[n]
    BY <1>1, <1>2, <1>4 DEF QueueOK, Origin
  <2>2. QED
    BY <1>1, <2>1 DEF Origin
<1>5. ASSUME NEW m \in DOMAIN x, NEW n \in DOMAIN x,
             x[m].cb \in DiscIds, x[m].cb = x[n].cb
      PROVE  m = n
  <2>1. f[m] = f[n]
    BY <1>2, <1>5 DEF QueueOK, CmdOK
  <2>2. QED
    BY <1>1, <2>1 DEF Origin
<1>6. \A i \in DiscIds : Waits(x, i) => Waits(q, i)
  BY <1>2 DEF Waits, CmdOK
<1>7. ASSUME HasConnect(q) \/ cmd.type = "CONNECT" PROVE HasConnect(x)
  <2>1. CASE cmd.type = "CONNECT"
    BY <2>1 DEF Added, HasConnect
  <2>2. CASE cmd.type # "CONNECT"
    <3>1. PICK n \in DOMAIN q : q[n].type = "CONNECT"
      BY <1>7, <2>2 DEF HasConnect
    <3>2. PICK i \in DOMAIN x : f[i] = n
      BY <1>1, <2>2, <3>1 DEF Origin
    <3>3. x[i] = q[n]
      <4>1. DOMAIN q = 1 .. Len(q)
        OBVIOUS
      <4>2. n # 0
        BY <4>1
      <4>3. QED
        BY <1>2, <3>2, <4>2
    <3>4. QED
      BY <3>1, <3>3 DEF HasConnect
  <2>3. QED
    BY <2>1, <2>2
<1>8. QED
  BY <1>3, <1>4, <1>5, <1>6, <1>7 DEF QueueOK, Added

\* The same, of the operator the actions use.
LEMMA AddHeadOK ==
    ASSUME NEW Ix, Indexes(Ix),
           NEW q \in Seq(Command), QueueOK(q, Ix), NEW cmd \in Command, CmdOK(cmd, Ix),
           NEW x \in AddHead(q, cmd)
    PROVE  /\ x \in Seq(Command)
           /\ QueueOK(x, Ix)
           /\ \A i \in DiscIds : Waits(x, i) => Waits(q, i)
           /\ HasConnect(q) \/ cmd.type = "CONNECT" => HasConnect(x)
<1>1. Added(x, q, cmd)
  BY AddHeadFacts
<1>2. QED
  BY <1>1, AddedOK

\* processCommand takes the first command off the list.
LEMMA TailOK ==
    ASSUME NEW Ix, Indexes(Ix),
           NEW q \in Seq(Command), QueueOK(q, Ix), q # <<>>
    PROVE  /\ Head(q) \in Command /\ Tail(q) \in Seq(Command)
           /\ QueueOK(Tail(q), Ix)
           /\ \A i \in DiscIds : Waits(Tail(q), i) => Waits(q, i) /\ Head(q).cb # i
           /\ \A i \in DiscIds : Head(q).cb = i => Waits(q, i)
           /\ HasConnect(q) /\ Head(q).type # "CONNECT" => HasConnect(Tail(q))
           /\ InArray(Head(q), Ix)
           /\ Head(q).type = "CONNECT" => Head(q).cb \notin DiscIds
           /\ Head(q).type = "DISCONNECT" /\ ~Head(q).internal => Head(q).cb \in DiscIds
<1> DEFINE t == Tail(q)
<1>1. /\ Len(q) \in Nat /\ DOMAIN q = 1 .. Len(q) /\ 1 \in DOMAIN q /\ Head(q) = q[1]
      /\ t \in Seq(Command) /\ Head(q) \in Command
  OBVIOUS
<1>2. /\ DOMAIN t = 1 .. Len(q) - 1
      /\ \A i \in DOMAIN t : i + 1 \in DOMAIN q /\ i + 1 # 1 /\ t[i] = q[i + 1] /\ i \in Int
  BY <1>1
<1>3. \A n \in DOMAIN q : n # 1 => \E i \in DOMAIN t : n = i + 1
  <2> SUFFICES ASSUME NEW n \in DOMAIN q, n # 1 PROVE \E i \in DOMAIN t : n = i + 1
    OBVIOUS
  <2>1. n - 1 \in DOMAIN t /\ n = (n - 1) + 1
    BY <1>1, <1>2
  <2>2. QED
    BY <2>1
<1> HIDE DEF t
<1>4. QueueOK(t, Ix)
  BY <1>2 DEF QueueOK
<1>5. \A i \in DiscIds : Waits(t, i) => Waits(q, i) /\ Head(q).cb # i
  BY <1>1, <1>2 DEF QueueOK, Waits
<1>6. HasConnect(q) /\ Head(q).type # "CONNECT" => HasConnect(t)
  BY <1>1, <1>2, <1>3 DEF HasConnect
<1>7. QED
  BY <1>1, <1>4, <1>5, <1>6 DEF QueueOK, Waits, t

\* MQTTAsync_disconnect1 appends a call that is not in the list.
LEMMA AppendOK ==
    ASSUME NEW Ix, Indexes(Ix),
           NEW q \in Seq(Command), QueueOK(q, Ix), NEW i \in DiscIds, ~Waits(q, i),
           NEW cmd \in Command, cmd.cb = i, cmd.uri = 0, cmd.type = "DISCONNECT"
    PROVE  /\ Append(q, cmd) \in Seq(Command)
           /\ QueueOK(Append(q, cmd), Ix)
           /\ \A j \in DiscIds : Waits(Append(q, cmd), j) => Waits(q, j) \/ j = i
           /\ HasConnect(q) => HasConnect(Append(q, cmd))
<1> DEFINE a == Append(q, cmd)
<1>1. /\ a \in Seq(Command) /\ Len(q) \in Nat /\ DOMAIN q = 1 .. Len(q)
      /\ DOMAIN a = 1 .. Len(q) + 1
      /\ \A n \in DOMAIN a : \/ n \in DOMAIN q /\ a[n] = q[n]
                             \/ n = Len(q) + 1 /\ a[n] = cmd
      /\ \A n \in DOMAIN q : n \in DOMAIN a /\ a[n] = q[n]
  OBVIOUS
<1> HIDE DEF a
<1>2. QueueOK(a, Ix)
  <2>1. ASSUME NEW n \in DOMAIN a
        PROVE  /\ InArray(a[n], Ix)
               /\ a[n].type = "CONNECT" => a[n].cb \notin DiscIds
               /\ a[n].type = "DISCONNECT" /\ ~a[n].internal => a[n].cb \in DiscIds
    BY <1>1 DEF QueueOK, InArray, Indexes
  <2>2. ASSUME NEW m \in DOMAIN a, NEW n \in DOMAIN a
        PROVE  /\ a[m].type = "CONNECT" /\ a[n].type = "CONNECT" => m = n
               /\ a[m].cb \in DiscIds /\ a[m].cb = a[n].cb => m = n
    BY <1>1 DEF QueueOK, Waits
  <2>3. QED
    BY <2>1, <2>2 DEF QueueOK
<1>3. \A j \in DiscIds : Waits(a, j) => Waits(q, j) \/ j = i
  BY <1>1 DEF Waits
<1>4. HasConnect(q) => HasConnect(a)
  BY <1>1 DEF HasConnect
<1>5. QED
  BY <1>1, <1>2, <1>3, <1>4 DEF a

\* What the handlers make of a command changes its URI only where checkConn has
\* found another one, and never its callbacks.
LEMMA MadeCommands ==
    ASSUME NEW Ix, Indexes(Ix),
           TypeOK, NEW cmd \in Command, InArray(cmd, Ix), cmd.cb \notin DiscIds,
           cmd.type \in {"NONE", "CONNECT"}, NEW cs
    PROVE  /\ Stamp(cmd, cs) \in Command /\ CmdOK(Stamp(cmd, cs), Ix)
           /\ Stamp(cmd, cs).type = cmd.type
           /\ ChooseVersion(cmd) \in Command /\ CmdOK(ChooseVersion(cmd), Ix)
           /\ ChooseVersion(cmd).type = cmd.type
           /\ CheckConn(cmd) =>
                /\ Stamp(NextTry(cmd), cs) \in Command /\ CmdOK(Stamp(NextTry(cmd), cs), Ix)
                /\ Stamp(NextTry(cmd), cs).type = cmd.type
<1>0. version \in {0, 3, 4, 5} /\ cmd.ver \in {0, 3, 4, 5} /\ cmd.uri \in Nat
  BY ConnectAssumption DEF TypeOK, Command
<1>1. ASSUME NEW c \in Command
      PROVE  /\ Stamp(c, cs) \in Command /\ Stamp(c, cs).type = c.type
             /\ Stamp(c, cs).cb = c.cb /\ Stamp(c, cs).uri = c.uri
             /\ Stamp(c, cs).internal = c.internal
  BY DEF Stamp, Command
<1>2. Stamp(cmd, cs) \in Command /\ CmdOK(Stamp(cmd, cs), Ix) /\ Stamp(cmd, cs).type = cmd.type
  BY <1>1 DEF CmdOK, InArray
<1>3. /\ ChooseVersion(cmd) \in Command /\ ChooseVersion(cmd).type = cmd.type
      /\ ChooseVersion(cmd).cb = cmd.cb /\ ChooseVersion(cmd).uri = cmd.uri
  BY <1>0 DEF ChooseVersion, Command
<1>4. ASSUME CheckConn(cmd)
      PROVE  /\ NextTry(cmd) \in Command /\ NextTry(cmd).type = cmd.type
             /\ NextTry(cmd).cb = cmd.cb /\ InArray(NextTry(cmd), Ix)
  <2>1. CASE version # 0
    <3>1. NextTry(cmd) = [cmd EXCEPT !.uri = cmd.uri + 1]
      BY <2>1 DEF NextTry
    <3>2. cmd.uri + 1 \in Nat /\ (cmd.uri + 1 \in Ix)
      BY <1>0, <1>4, <2>1 DEF CheckConn, Indexes
    <3>3. QED
      BY <3>1, <3>2 DEF Command, InArray
  <2>2. CASE version = 0 /\ cmd.ver = 3
    <3>1. NextTry(cmd) = [cmd EXCEPT !.uri = cmd.uri + 1, !.ver = 0]
      BY <2>2 DEF NextTry
    <3>2. cmd.uri + 1 \in Nat /\ (cmd.uri + 1 \in Ix)
      BY <1>0, <1>4, <2>2 DEF CheckConn, Indexes
    <3>3. QED
      BY <3>1, <3>2 DEF Command, InArray
  <2>3. CASE version = 0 /\ cmd.ver # 3
    BY <2>3 DEF NextTry
  <2>4. QED
    BY <2>1, <2>2, <2>3
<1>5. CmdOK(ChooseVersion(cmd), Ix)
  BY <1>3 DEF CmdOK, InArray
<1>6. ASSUME CheckConn(cmd)
      PROVE  /\ Stamp(NextTry(cmd), cs) \in Command /\ CmdOK(Stamp(NextTry(cmd), cs), Ix)
             /\ Stamp(NextTry(cmd), cs).type = cmd.type
  BY <1>1, <1>4, <1>6 DEF CmdOK, InArray
<1>7. QED
  BY <1>2, <1>3, <1>5, <1>6

\* The client starts with nothing queued and nothing in progress.
LEMMA ConnectInit ==
    ASSUME NEW Ix, 0 \in Ix, Init
    PROVE  ConnectInv(Ix)
<1> USE ConnectAssumption
<1>1. NullCommand \in Command /\ CmdOK(NullCommand, Ix) /\ NullCommand.type = "NONE"
  BY DEF NullCommand, Command, CmdOK, InArray, Callbacks
<1>2. TypeOK
  <2>1. /\ queue \in Seq(Command) /\ connect \in Command /\ disc \in Command
        /\ connState \in ConnStates
    BY <1>1 DEF Init, ConnStates
  <2>2. /\ {shouldBeConnected, retrying, reconnectNow, net} \subseteq BOOLEAN
        /\ connected \in BOOLEAN
    BY DEF Init
  <2>3. base \in MinRetry .. MaxRetry
    BY DEF Init
  <2>4. answered \subseteq ConnIds /\ parted \in [DiscIds -> 0 .. Many]
    BY DEF Init, Many
  <2>5. QED
    BY <2>1, <2>2, <2>3, <2>4 DEF Init, TypeOK
<1>3. QueueOK(queue, Ix) /\ \A i \in DiscIds : ~Waits(queue, i)
  BY DEF Init, QueueOK, Waits
<1>4. CmdOK(connect, Ix) /\ connect.type = "NONE"
  BY <1>1 DEF Init
<1>5. PartInv
  BY <1>3 DEF Init, PartInv, Parting
<1>6. TryInv
  BY <1>4 DEF Init, TryInv, StillTrying
<1>7. QED
  BY <1>2, <1>3, <1>4, <1>5, <1>6 DEF ConnectInv

----------------------------------------------------------------------------
(* What the shared parts of the handlers keep *)

\* A callback counts for the call it belongs to and for no other.
LEMMA TickFacts ==
    ASSUME NEW S, NEW f \in [S -> 0 .. Many], NEW id
    PROVE  /\ Tick(f, id) \in [S -> 0 .. Many]
           /\ \A i \in S : i # id => Tick(f, id)[i] = f[i]
           /\ \A i \in S : f[i] = 0 => Tick(f, id)[i] <= 1
BY DEF Tick, Many

\* MQTTAsync_startConnectRetry keeps the interval between its bounds, and starts
\* the retries of a client that should be connected.
LEMMA RetryFacts ==
    ASSUME TypeOK, NEW should \in BOOLEAN, StartConnectRetry(should)
    PROVE  /\ retrying' \in BOOLEAN /\ base' \in MinRetry .. MaxRetry
           /\ retrying => retrying'
           /\ AutomaticReconnect /\ should => retrying'
<1>1. CASE AutomaticReconnect /\ should
  <2>1. base \in Int /\ MinRetry <= base /\ base <= MaxRetry /\ retrying \in BOOLEAN
    BY ConnectAssumption DEF TypeOK
  <2>2. base' \in MinRetry .. MaxRetry
    BY <1>1, <2>1, ConnectAssumption DEF StartConnectRetry
  <2>3. QED
    BY <1>1, <2>2 DEF StartConnectRetry
<1>2. CASE ~(AutomaticReconnect /\ should)
  BY <1>2 DEF StartConnectRetry, TypeOK
<1>3. QED
  BY <1>1, <1>2

\* The command m->connect is one nextOrClose and reconnect may repeat.
LEMMA ConnectFacts ==
    ASSUME NEW Ix, Indexes(Ix),
           ConnectInv(Ix)
    PROVE  /\ connect \in Command /\ InArray(connect, Ix) /\ connect.cb \notin DiscIds
           /\ connect.type \in {"NONE", "CONNECT"}
           /\ [connect EXCEPT !.cb = None] \in Command
           /\ CmdOK([connect EXCEPT !.cb = None], Ix)
           /\ [connect EXCEPT !.cb = None].type = connect.type
<1>1. connect \in Command /\ CmdOK(connect, Ix) /\ connect.type \in {"NONE", "CONNECT"}
  BY DEF ConnectInv, TypeOK, TryInv
<1>2. QED
  BY <1>1, ConnectAssumption DEF CmdOK, InArray, Command, Callbacks

\* nextOrClose, whichever thread calls it and whatever was in progress.
LEMMA NextOrCloseKeeps ==
    ASSUME NEW Ix, Indexes(Ix),
           ConnectInv(Ix), NextOrClose, connState # "NOT_IN_PROGRESS" \/ connected,
           UNCHANGED <<disc, shouldBeConnected, reconnectNow, appVars, net, parted>>,
           sendPc' \in {"drain", "check"}
    PROVE  ConnectInv(Ix)'
<1> DEFINE cmd == Stamp(NextTry(connect), connState')
<1>0. TypeOK /\ QueueOK(queue, Ix) /\ PartInv /\ TryInv /\ queue \in Seq(Command)
  BY DEF ConnectInv, TypeOK
<1>1. connState' = "NOT_IN_PROGRESS" /\ connected' = FALSE
  BY DEF NextOrClose, Close
<1>2. event' \in {"none", "connected", "connectionLost", "disconnected"}
  BY DEF NextOrClose, ReportLost
<1>3. connect.type = "CONNECT" \/ HasConnect(queue)
  BY <1>0 DEF TryInv
<1>4. /\ queue' \in Seq(Command) /\ QueueOK(queue', Ix)
      /\ \A i \in DiscIds : Waits(queue', i) => Waits(queue, i)
      /\ connect' \in Command /\ CmdOK(connect', Ix) /\ connect'.type = connect.type
      /\ answered' \subseteq ConnIds
      /\ retrying' \in BOOLEAN /\ base' \in MinRetry .. MaxRetry
      /\ AutomaticReconnect /\ shouldBeConnected => retrying' \/ HasConnect(queue')
  <2>1. CASE CheckConn(connect)
    <3>1. cmd \in Command /\ CmdOK(cmd, Ix) /\ cmd.type = connect.type
      BY <1>0, <2>1, ConnectFacts, MadeCommands
    <3>2. queue' \in AddHead(queue, cmd) /\ UNCHANGED <<connect, answered, retrying, base>>
      BY <2>1 DEF NextOrClose
    <3> HIDE DEF cmd
    <3>3. /\ queue' \in Seq(Command) /\ QueueOK(queue', Ix)
          /\ \A i \in DiscIds : Waits(queue', i) => Waits(queue, i)
          /\ HasConnect(queue) \/ cmd.type = "CONNECT" => HasConnect(queue')
      BY <1>0, <3>1, <3>2, AddHeadOK
    <3>4. QED
      BY <1>0, <1>3, <3>1, <3>2, <3>3 DEF ConnectInv, TypeOK
  <2>2. CASE ~CheckConn(connect)
    <3>1. /\ answered' = Answer(connect.cb)
          /\ connect' = [connect EXCEPT !.cb = None]
          /\ StartConnectRetry(shouldBeConnected)
          /\ queue' = queue
      BY <2>2 DEF NextOrClose
    <3>2. answered' \subseteq ConnIds
      BY <1>0, <3>1 DEF Answer, TypeOK
    <3>3. /\ retrying' \in BOOLEAN /\ base' \in MinRetry .. MaxRetry
          /\ AutomaticReconnect /\ shouldBeConnected => retrying'
      BY <1>0, <3>1, RetryFacts DEF TypeOK
    <3>4. QED
      BY <1>0, <3>1, <3>2, <3>3, ConnectFacts
  <2>3. QED
    BY <2>1, <2>2
<1>5. TypeOK'
  BY <1>0, <1>1, <1>2, <1>4 DEF TypeOK, ConnStates, appVars
<1>6. PartInv'
  BY <1>0, <1>1, <1>4 DEF PartInv, Parting, appVars
<1>7. TryInv'
  BY <1>0, <1>1, <1>4, ConnectFacts DEF TryInv, StillTrying, HasConnect, appVars
<1>8. QED
  BY <1>4, <1>5, <1>6, <1>7 DEF ConnectInv

\* MQTTAsync_reconnect and checkTimeouts repeat m->connect.
LEMMA AgainFacts ==
    ASSUME NEW Ix, Indexes(Ix),
           ConnectInv(Ix), NEW cs
    PROVE  Again(cs) \in Command /\ CmdOK(Again(cs), Ix) /\ Again(cs).type = connect.type
<1> DEFINE c == [connect EXCEPT !.ver = IF version = 0 THEN 0 ELSE @]
<1>1. c \in Command /\ InArray(c, Ix) /\ c.cb \notin DiscIds /\ c.type = connect.type
  BY ConnectFacts DEF Command, InArray
<1> HIDE DEF c
<1>2. TypeOK
  BY DEF ConnectInv
<1>3. Stamp(c, cs) \in Command /\ CmdOK(Stamp(c, cs), Ix) /\ Stamp(c, cs).type = c.type
  BY <1>1, <1>2, ConnectFacts, MadeCommands
<1>4. QED
  BY <1>1, <1>3 DEF Again, c

\* The automatic reconnect adds at most a CONNECT to the list.
LEMMA AutoReconnectFacts ==
    ASSUME NEW Ix, Indexes(Ix),
           ConnectInv(Ix), NEW due \in BOOLEAN, AutoReconnect(due)
    PROVE  /\ queue' \in Seq(Command) /\ QueueOK(queue', Ix)
           /\ \A i \in DiscIds : Waits(queue', i) => Waits(queue, i)
           /\ HasConnect(queue) => HasConnect(queue')
           /\ reconnectNow' \in BOOLEAN
<1>0. TypeOK /\ QueueOK(queue, Ix) /\ queue \in Seq(Command)
  BY DEF ConnectInv, TypeOK
<1>1. CASE due /\ AutomaticReconnect /\ retrying'
  <2>1. queue' \in AddHead(queue, Again(connState')) /\ reconnectNow' = FALSE
    BY <1>1 DEF AutoReconnect
  <2>2. QED
    BY <1>0, <2>1, AgainFacts, AddHeadOK
<1>2. CASE ~(due /\ AutomaticReconnect /\ retrying')
  BY <1>0, <1>2 DEF AutoReconnect, TypeOK
<1>3. QED
  BY <1>1, <1>2

\* MQTTAsync_checkDisconnect answers the call it ends, and only that one; an
\* internal disconnect starts the retries instead.
LEMMA CheckDisconnectFacts ==
    ASSUME NEW Ix, Indexes(Ix),
           ConnectInv(Ix), NEW cmd \in Command, CheckDisconnect(cmd),
           ~cmd.internal => cmd.cb \in DiscIds /\ parted[cmd.cb] = 0
    PROVE  /\ connState' = "NOT_IN_PROGRESS" /\ connected' = FALSE
           /\ event' \in {"none", "connected", "connectionLost", "disconnected"}
           /\ retrying' \in BOOLEAN /\ base' \in MinRetry .. MaxRetry
           /\ cmd.internal /\ AutomaticReconnect /\ shouldBeConnected => retrying'
           /\ parted' \in [DiscIds -> 0 .. Many]
           /\ \A i \in DiscIds : parted'[i] <= 1
           /\ \A i \in DiscIds : i # cmd.cb => parted'[i] = parted[i]
<1>0. /\ TypeOK /\ parted \in [DiscIds -> 0 .. Many]
      /\ \A i \in DiscIds : parted[i] <= 1
      /\ cmd.internal \in BOOLEAN /\ shouldBeConnected \in BOOLEAN
  BY DEF ConnectInv, TypeOK, PartInv, Command
<1>1. /\ connState' = "NOT_IN_PROGRESS" /\ connected' = FALSE
      /\ event' \in {"none", "connected", "connectionLost", "disconnected"}
  BY DEF CheckDisconnect, Close, ReportLost
<1>2. CASE cmd.internal
  <2>1. StartConnectRetry(shouldBeConnected) /\ parted' = parted
    BY <1>2 DEF CheckDisconnect
  <2>2. QED
    BY <1>0, <1>1, <2>1, RetryFacts
<1>3. CASE ~cmd.internal
  <2>1. parted' = Tick(parted, cmd.cb) /\ UNCHANGED <<retrying, base>>
    BY <1>3 DEF CheckDisconnect
  <2>2. /\ parted' \in [DiscIds -> 0 .. Many]
        /\ \A i \in DiscIds : i # cmd.cb => parted'[i] = parted[i]
        /\ \A i \in DiscIds : parted[i] = 0 => parted'[i] <= 1
    BY <1>0, <2>1, TickFacts
  <2>3. \A i \in DiscIds : parted'[i] <= 1
    BY <1>0, <1>3, <2>2
  <2>4. retrying' \in BOOLEAN /\ base' \in MinRetry .. MaxRetry
    BY <1>0, <2>1 DEF TypeOK
  <2>5. QED
    BY <1>1, <1>3, <2>2, <2>3, <2>4
<1>4. QED
  BY <1>0, <1>2, <1>3

----------------------------------------------------------------------------
(* One lemma for each group of actions *)

\* The application's calls keep the invariant.
LEMMA ApplicationKeeps ==
    ASSUME NEW Ix, Indexes(Ix),
           ConnectInv(Ix), Application
    PROVE  ConnectInv(Ix)'
<1>0. /\ TypeOK /\ QueueOK(queue, Ix) /\ PartInv /\ TryInv /\ queue \in Seq(Command)
      /\ CmdOK(connect, Ix) /\ connect \in Command
  BY DEF ConnectInv, TypeOK
<1>1. ASSUME NEW id \in ConnIds, ConnectBegin(id) PROVE ConnectInv(Ix)'
  <2>1. /\ connect' \in Command /\ CmdOK(connect', Ix) /\ connect'.type = connect.type
    <3>1. connect' = [connect EXCEPT !.cb = id] /\ id \notin DiscIds /\ id \in Callbacks
      BY <1>1, ConnectAssumption DEF ConnectBegin, Callbacks
    <3>2. QED
      BY <1>0, <3>1 DEF Command, CmdOK, InArray
  <2>2. TypeOK'
    BY <1>0, <1>1, <2>1 DEF ConnectBegin, TypeOK, retryVars, histVars
  <2>3. used' \cap DiscIds = used \cap DiscIds
    BY <1>1, ConnectAssumption DEF ConnectBegin
  <2>4. PartInv'
    BY <1>0, <1>1, <2>3 DEF ConnectBegin, PartInv, Parting, Waits, histVars
  <2>5. TryInv'
    BY <1>0, <1>1, <2>1, <2>3 DEF ConnectBegin, TryInv, StillTrying, HasConnect, retryVars
  <2>6. QED
    BY <1>0, <1>1, <2>1, <2>2, <2>4, <2>5 DEF ConnectInv, ConnectBegin
<1>2. ASSUME ConnectAdd PROVE ConnectInv(Ix)'
  <2> DEFINE c == [NullCommand EXCEPT !.type = "CONNECT", !.cb = calling]
             cmd == Stamp(c, connState)
  <2>1. c \in Command /\ InArray(c, Ix) /\ c.cb \notin DiscIds /\ c.type = "CONNECT"
    <3>1. calling \in ConnIds
      BY <1>0, <1>2 DEF ConnectAdd, TypeOK
    <3>2. QED
      BY <3>1, ConnectAssumption DEF NullCommand, Command, InArray, Indexes, Callbacks
  <2>2. queue' \in AddHead(queue, cmd)
    BY <1>2 DEF ConnectAdd
  <2> HIDE DEF c
  <2>3. cmd \in Command /\ CmdOK(cmd, Ix) /\ cmd.type = "CONNECT"
    BY <1>0, <2>1, MadeCommands
  <2> HIDE DEF cmd
  <2>4. /\ queue' \in Seq(Command) /\ QueueOK(queue', Ix)
        /\ \A i \in DiscIds : Waits(queue', i) => Waits(queue, i)
        /\ HasConnect(queue')
    BY <1>0, <2>2, <2>3, AddHeadOK
  <2>5. TypeOK'
    BY <1>0, <1>2, <2>4 DEF ConnectAdd, TypeOK, connVars, retryVars, histVars
  <2>6. PartInv'
    BY <1>0, <1>2, <2>4 DEF ConnectAdd, PartInv, Parting, connVars, histVars
  <2>7. TryInv'
    BY <1>0, <1>2, <2>4 DEF ConnectAdd, TryInv, StillTrying, HasConnect, connVars
  <2>8. QED
    BY <1>0, <1>2, <2>4, <2>5, <2>6, <2>7 DEF ConnectInv, ConnectAdd, connVars
<1>3. ASSUME NEW id \in DiscIds, Disconnect(id) PROVE ConnectInv(Ix)'
  <2> DEFINE cmd == [NewDisconnect EXCEPT !.cb = id]
  <2>1. cmd \in Command /\ cmd.cb = id /\ cmd.uri = 0 /\ cmd.type = "DISCONNECT"
    BY DEF NewDisconnect, NullCommand, Command, Callbacks
  <2>2. queue' = Append(queue, cmd) \/ queue' = queue
    BY <1>3 DEF Disconnect
  <2> HIDE DEF cmd
  <2>3. id \notin used /\ ~Waits(queue, id) /\ used' = used \cup {id}
    BY <1>0, <1>3 DEF Disconnect, PartInv
  <2>4. /\ queue' \in Seq(Command) /\ QueueOK(queue', Ix)
        /\ \A i \in DiscIds : Waits(queue', i) => Waits(queue, i) \/ i = id
        /\ HasConnect(queue) => HasConnect(queue')
    <3>1. CASE queue' = Append(queue, cmd)
      <4>1. /\ Append(queue, cmd) \in Seq(Command) /\ QueueOK(Append(queue, cmd), Ix)
            /\ \A i \in DiscIds : Waits(Append(queue, cmd), i) => Waits(queue, i) \/ i = id
            /\ HasConnect(queue) => HasConnect(Append(queue, cmd))
        BY <1>0, <1>3, <2>1, <2>3, AppendOK
      <4>2. QED
        BY <3>1, <4>1
    <3>2. CASE queue' = queue
      BY <1>0, <3>2
    <3>3. QED
      BY <2>2, <3>1, <3>2
  <2>5. TypeOK'
    <3>1. used' \subseteq ConnIds \cup DiscIds
      BY <1>0, <2>3 DEF TypeOK
    <3>2. QED
      BY <1>0, <1>3, <2>4, <3>1 DEF Disconnect, TypeOK, connVars, retryVars, histVars
  <2>6. PartInv'
    BY <1>0, <1>3, <2>3, <2>4 DEF Disconnect, PartInv, Parting, connVars, histVars
  <2>7. TryInv'
    BY <1>0, <1>3, <2>4 DEF Disconnect, TryInv, StillTrying, HasConnect, connVars
  <2>8. QED
    BY <1>0, <1>3, <2>4, <2>5, <2>6, <2>7 DEF ConnectInv, Disconnect, connVars
<1>4. ASSUME Reconnect PROVE ConnectInv(Ix)'
  <2>1. /\ queue' \in Seq(Command) /\ QueueOK(queue', Ix)
        /\ \A i \in DiscIds : Waits(queue', i) => Waits(queue, i)
        /\ HasConnect(queue) => HasConnect(queue')
        /\ retrying' \in BOOLEAN /\ (retrying => retrying')
        /\ reconnectNow' \in BOOLEAN /\ base' \in MinRetry .. MaxRetry
    <3>1. CASE AutomaticReconnect
      BY <1>0, <1>4, <3>1, ConnectAssumption DEF Reconnect, TypeOK
    <3>2. CASE ~AutomaticReconnect
      BY <1>0, <1>4, <3>2, AgainFacts, AddHeadOK DEF Reconnect, TypeOK, retryVars
    <3>3. QED
      BY <3>1, <3>2
  <2>2. TypeOK'
    BY <1>0, <1>4, <2>1 DEF Reconnect, TypeOK, connVars, appVars, histVars
  <2>3. PartInv'
    BY <1>0, <1>4, <2>1 DEF Reconnect, PartInv, Parting, connVars, appVars, histVars
  <2>4. TryInv'
    BY <1>0, <1>4, <2>1 DEF Reconnect, TryInv, StillTrying, HasConnect, connVars, appVars
  <2>5. QED
    BY <1>0, <1>4, <2>1, <2>2, <2>3, <2>4 DEF ConnectInv, Reconnect, connVars
<1>5. ASSUME ConnectOptions PROVE ConnectInv(Ix)'
  <2>1. /\ stored' = TRUE /\ version' \in Versions /\ shouldBeConnected' = TRUE
        /\ uriCount' \in URICounts /\ event' = "none"
        /\ UNCHANGED <<queue, connVars, retryVars, calling, net, used, histVars, sendPc>>
    BY <1>5 DEF ConnectOptions
  <2>2. TypeOK'
    BY <1>0, <2>1 DEF TypeOK, connVars, retryVars, histVars
  <2>3. PartInv'
    BY <1>0, <2>1 DEF PartInv, Parting, connVars, histVars
  <2>4. TryInv'
    BY <1>0, <2>1 DEF TryInv, StillTrying, HasConnect, connVars
  <2>5. QED
    BY <1>0, <2>1, <2>2, <2>3, <2>4 DEF ConnectInv, connVars
<1>6. QED
  BY <1>1, <1>2, <1>3, <1>4, <1>5 DEF Application

\* The send thread's handling of CONNECT and DISCONNECT keeps the invariant.
LEMMA ProcessKeeps ==
    ASSUME NEW Ix, Indexes(Ix),
           ConnectInv(Ix), ProcessCommand
    PROVE  ConnectInv(Ix)'
<1> DEFINE hd == Head(queue)
           tl == Tail(queue)
<1>0. /\ TypeOK /\ QueueOK(queue, Ix) /\ PartInv /\ TryInv /\ queue \in Seq(Command)
      /\ CmdOK(connect, Ix) /\ connect \in Command
  BY DEF ConnectInv, TypeOK
<1>1. queue # <<>>
  BY DEF ProcessCommand, ProcessConnectAgain, ProcessConnect, ProcessConnectFails,
         ProcessDisconnect
<1>2. /\ hd \in Command /\ tl \in Seq(Command) /\ QueueOK(tl, Ix)
      /\ \A i \in DiscIds : Waits(tl, i) => Waits(queue, i) /\ hd.cb # i
      /\ \A i \in DiscIds : hd.cb = i => Waits(queue, i)
      /\ HasConnect(queue) /\ hd.type # "CONNECT" => HasConnect(tl)
      /\ InArray(hd, Ix)
      /\ hd.type = "CONNECT" => hd.cb \notin DiscIds
      /\ hd.type = "DISCONNECT" /\ ~hd.internal => hd.cb \in DiscIds
  BY <1>0, <1>1, TailOK
<1> HIDE DEF hd, tl
<1>3. ASSUME ProcessConnectAgain PROVE ConnectInv(Ix)'
  <2>1. hd.type = "CONNECT" /\ connect' = hd /\ queue' = tl
    BY <1>3 DEF ProcessConnectAgain, hd, tl
  <2>2. TypeOK'
    BY <1>0, <1>2, <1>3, <2>1 DEF ProcessConnectAgain, TypeOK, retryVars, appVars, histVars
  <2>3. PartInv'
    BY <1>0, <1>2, <1>3, <2>1 DEF ProcessConnectAgain, PartInv, Parting, appVars, histVars
  <2>4. TryInv'
    BY <1>0, <1>2, <1>3, <2>1 DEF ProcessConnectAgain, TryInv, StillTrying
  <2>5. QED
    BY <1>2, <2>1, <2>2, <2>3, <2>4 DEF ConnectInv, CmdOK
<1>4. ASSUME NEW s \in UnderWay, ProcessConnect(s) PROVE ConnectInv(Ix)'
  <2>1. hd.type = "CONNECT" /\ connect' = ChooseVersion(hd) /\ queue' = tl
    BY <1>4 DEF ProcessConnect, hd, tl
  <2>2. connect' \in Command /\ CmdOK(connect', Ix) /\ connect'.type = "CONNECT"
    BY <1>0, <1>2, <2>1, MadeCommands
  <2>3. connState' = s /\ s \in ConnStates /\ s # "DISCONNECTING" /\ s # "NOT_IN_PROGRESS"
    BY <1>4 DEF ProcessConnect, UnderWay, ConnStates
  <2>4. TypeOK'
    BY <1>0, <1>2, <1>4, <2>1, <2>2, <2>3 DEF ProcessConnect, TypeOK, retryVars, appVars, histVars
  <2>5. PartInv'
    BY <1>0, <1>2, <1>4, <2>1, <2>3 DEF ProcessConnect, PartInv, Parting, appVars, histVars
  <2>6. TryInv'
    BY <2>2, <2>3 DEF TryInv, StillTrying
  <2>7. QED
    BY <1>2, <2>1, <2>2, <2>4, <2>5, <2>6 DEF ConnectInv
<1>5. ASSUME NEW s \in Failed, ProcessConnectFails(s) PROVE ConnectInv(Ix)'
  <2> DEFINE cmd == ChooseVersion(hd)
             next == Stamp(NextTry(cmd), s)
  <2>1. hd.type = "CONNECT"
    BY <1>5 DEF ProcessConnectFails, hd
  <2>2. cmd \in Command /\ CmdOK(cmd, Ix) /\ cmd.type = "CONNECT"
    BY <1>0, <1>2, <2>1, MadeCommands
  <2>3. connState' = s /\ s \in ConnStates /\ s # "DISCONNECTING"
    BY <1>5 DEF ProcessConnectFails, Failed, ConnStates
  <2>4. /\ queue' \in Seq(Command) /\ QueueOK(queue', Ix)
        /\ \A i \in DiscIds : Waits(queue', i) => Waits(queue, i)
        /\ connect' \in Command /\ CmdOK(connect', Ix)
        /\ answered' \subseteq ConnIds
        /\ retrying' \in BOOLEAN /\ base' \in MinRetry .. MaxRetry
        /\ connect'.type \in {"NONE", "CONNECT"}
        /\ connect'.type = "CONNECT" \/ HasConnect(queue')
        /\ AutomaticReconnect => retrying' \/ HasConnect(queue')
    <3>1. CASE CheckConn(cmd)
      <4>1. queue' \in AddHead(tl, next) /\ UNCHANGED <<connect, answered, retrying, base>>
        BY <1>5, <3>1 DEF ProcessConnectFails, hd, tl
      <4>2. next \in Command /\ CmdOK(next, Ix) /\ next.type = "CONNECT"
        <5> HIDE DEF cmd
        <5>1. QED
          BY <1>0, <2>2, <3>1, MadeCommands DEF CmdOK
      <4> HIDE DEF next, cmd
      <4>3. /\ queue' \in Seq(Command) /\ QueueOK(queue', Ix)
            /\ \A i \in DiscIds : Waits(queue', i) => Waits(tl, i)
            /\ HasConnect(queue')
        BY <1>2, <4>1, <4>2, AddHeadOK
      <4>4. QED
        BY <1>0, <1>2, <4>1, <4>3, ConnectFacts DEF TypeOK
    <3>2. CASE ~CheckConn(cmd)
      <4>1. /\ queue' = tl /\ answered' = Answer(cmd.cb) /\ connect' = cmd
            /\ StartConnectRetry(TRUE)
        BY <1>5, <3>2 DEF ProcessConnectFails, hd, tl
      <4> HIDE DEF cmd
      <4>2. answered' \subseteq ConnIds
        BY <1>0, <4>1 DEF Answer, TypeOK
      <4>3. /\ retrying' \in BOOLEAN /\ base' \in MinRetry .. MaxRetry
            /\ AutomaticReconnect => retrying'
        BY <1>0, <4>1, RetryFacts
      <4>4. QED
        BY <1>2, <2>2, <4>1, <4>2, <4>3
    <3>3. QED
      BY <3>1, <3>2
  <2>5. TypeOK'
    BY <1>0, <1>5, <2>3, <2>4 DEF ProcessConnectFails, TypeOK, appVars
  <2>6. PartInv'
    BY <1>0, <1>5, <2>3, <2>4 DEF ProcessConnectFails, PartInv, Parting, appVars
  <2>7. TryInv'
    BY <2>4 DEF TryInv, StillTrying, HasConnect
  <2>8. QED
    BY <2>4, <2>5, <2>6, <2>7 DEF ConnectInv
<1>6. ASSUME NEW drained \in BOOLEAN, ProcessDisconnect(drained) PROVE ConnectInv(Ix)'
  <2>1. hd.type = "DISCONNECT" /\ queue' = tl /\ disc' = hd /\ hd.internal \in BOOLEAN
    BY <1>2, <1>6 DEF ProcessDisconnect, hd, tl, Command
  <2>2. /\ ~hd.internal => hd.cb \in DiscIds /\ hd.cb \in used /\ parted[hd.cb] = 0
        /\ \A i \in DiscIds : Waits(tl, i) => i # hd.cb /\ i \in used /\ parted[i] = 0
    BY <1>0, <1>2, <2>1 DEF PartInv
  <2>3. /\ connect' \in Command /\ CmdOK(connect', Ix) /\ connect'.type = connect.type
        /\ answered' \subseteq ConnIds
    <3>1. \/ connect' = connect /\ answered' = answered
          \/ connect' = [connect EXCEPT !.cb = None] /\ answered' = Answer(connect.cb)
      BY <1>6 DEF ProcessDisconnect, histVars
    <3>2. answered \subseteq ConnIds
      BY <1>0 DEF TypeOK
    <3>3. Answer(connect.cb) \subseteq ConnIds
      BY <3>2 DEF Answer
    <3>4. QED
      BY <1>0, <3>1, <3>2, <3>3, ConnectFacts
  <2>4. UNCHANGED <<shouldBeConnected, reconnectNow, appVars, net, sendPc>>
    BY <1>6 DEF ProcessDisconnect
  <2>5. CASE connState = "NOT_IN_PROGRESS" /\ ~connected
    <3>1. /\ event' = "none"
          /\ UNCHANGED <<connState, connected, connect, histVars, retrying, base>>
      BY <1>6, <2>5 DEF ProcessDisconnect
    <3>2. TypeOK'
      BY <1>0, <1>2, <2>1, <2>4, <3>1 DEF TypeOK, appVars, histVars
    <3>3. PartInv'
      BY <1>0, <1>2, <2>1, <2>4, <2>5, <3>1 DEF PartInv, Parting, appVars, histVars
    <3>4. TryInv'
      BY <1>0, <1>2, <2>1, <2>3, <2>4, <2>5, <3>1
         DEF TryInv, StillTrying, HasConnect, appVars
    <3>5. QED
      BY <1>2, <2>1, <2>3, <3>2, <3>3, <3>4 DEF ConnectInv
  <2>6. CASE ~(connState = "NOT_IN_PROGRESS" /\ ~connected) /\ (hd.internal \/ drained)
    <3>1. CheckDisconnect(hd)
      BY <1>6, <2>6 DEF ProcessDisconnect, hd
    <3>2. /\ connState' = "NOT_IN_PROGRESS" /\ connected' = FALSE
          /\ event' \in {"none", "connected", "connectionLost", "disconnected"}
          /\ retrying' \in BOOLEAN /\ base' \in MinRetry .. MaxRetry
          /\ hd.internal /\ AutomaticReconnect /\ shouldBeConnected => retrying'
          /\ parted' \in [DiscIds -> 0 .. Many]
          /\ \A i \in DiscIds : parted'[i] <= 1
          /\ \A i \in DiscIds : i # hd.cb => parted'[i] = parted[i]
      BY <1>2, <2>2, <3>1, CheckDisconnectFacts
    <3>3. TypeOK'
      BY <1>0, <1>2, <2>1, <2>3, <2>4, <3>2 DEF TypeOK, appVars, ConnStates
    <3>4. PartInv'
      <4>1. ASSUME NEW i \in DiscIds, i \notin used PROVE parted'[i] = 0
        <5>1. hd.cb = i => i \in used
          BY <1>0, <1>2 DEF PartInv
        <5>2. QED
          BY <1>0, <3>2, <4>1, <5>1 DEF PartInv
      <4>2. QED
        BY <2>1, <2>2, <2>4, <3>2, <4>1 DEF PartInv, Parting, appVars
    <3>5. TryInv'
      BY <1>0, <2>1, <2>2, <2>3, <2>4, <3>2 DEF TryInv, StillTrying, appVars
    <3>6. QED
      BY <1>2, <2>1, <2>3, <3>3, <3>4, <3>5 DEF ConnectInv
  <2>7. CASE ~(connState = "NOT_IN_PROGRESS" /\ ~connected) /\ ~(hd.internal \/ drained)
    <3>1. /\ connState' = "DISCONNECTING" /\ event' = "none"
          /\ UNCHANGED <<connected, parted, retrying, base>>
      BY <1>6, <2>7 DEF ProcessDisconnect, hd
    <3>2. TypeOK'
      BY <1>0, <1>2, <2>1, <2>3, <2>4, <3>1 DEF TypeOK, appVars, ConnStates
    <3>3. PartInv'
      BY <1>0, <2>1, <2>2, <2>4, <2>7, <3>1 DEF PartInv, Parting, appVars
    <3>4. TryInv'
      BY <1>0, <1>2, <2>1, <2>3, <2>7, <3>1 DEF TryInv, StillTrying
    <3>5. QED
      BY <1>2, <2>1, <2>3, <3>2, <3>3, <3>4 DEF ConnectInv
  <2>8. QED
    BY <2>5, <2>6, <2>7
<1>7. QED
  BY <1>3, <1>4, <1>5, <1>6 DEF ProcessCommand

\* checkTimeouts, and the end of a round of the send thread, keep the invariant.
LEMMA TimeoutsKeep ==
    ASSUME NEW Ix, Indexes(Ix),
           ConnectInv(Ix), CheckTimeouts \/ SendWait
    PROVE  ConnectInv(Ix)'
<1>0. /\ TypeOK /\ QueueOK(queue, Ix) /\ PartInv /\ TryInv /\ queue \in Seq(Command)
      /\ CmdOK(connect, Ix) /\ connect \in Command /\ disc \in Command
  BY DEF ConnectInv, TypeOK
<1>1. ASSUME NEW due \in BOOLEAN, DisconnectTimeout(due) PROVE ConnectInv(Ix)'
  <2>1. /\ CheckDisconnect(disc) /\ AutoReconnect(due) /\ sendPc' = "drain"
        /\ UNCHANGED <<connect, disc, shouldBeConnected, appVars, net, answered>>
    BY <1>1 DEF DisconnectTimeout
  <2>2. Parting(disc.cb) /\ disc.cb \in DiscIds /\ disc.cb \in used /\ parted[disc.cb] = 0
    BY <1>0, <1>1 DEF DisconnectTimeout, PartInv, Parting
  <2>3. /\ connState' = "NOT_IN_PROGRESS" /\ connected' = FALSE
        /\ event' \in {"none", "connected", "connectionLost", "disconnected"}
        /\ retrying' \in BOOLEAN /\ base' \in MinRetry .. MaxRetry
        /\ parted' \in [DiscIds -> 0 .. Many]
        /\ \A i \in DiscIds : parted'[i] <= 1
        /\ \A i \in DiscIds : i # disc.cb => parted'[i] = parted[i]
    BY <1>0, <2>1, <2>2, CheckDisconnectFacts
  <2>4. /\ queue' \in Seq(Command) /\ QueueOK(queue', Ix)
        /\ \A i \in DiscIds : Waits(queue', i) => Waits(queue, i)
        /\ reconnectNow' \in BOOLEAN
    BY <2>1, AutoReconnectFacts
  <2>5. TypeOK'
    BY <1>0, <2>1, <2>3, <2>4 DEF TypeOK, appVars, ConnStates
  <2>6. PartInv'
    BY <1>0, <2>1, <2>2, <2>3, <2>4 DEF PartInv, Parting, appVars
  <2>7. TryInv'
    BY <1>0, <2>1, <2>2, <2>3 DEF TryInv, StillTrying, appVars
  <2>8. QED
    BY <1>0, <2>1, <2>4, <2>5, <2>6, <2>7 DEF ConnectInv
<1>2. ASSUME ConnectTimeout PROVE ConnectInv(Ix)'
  BY <1>2, NextOrCloseKeeps DEF ConnectTimeout
<1>3. ASSUME NEW due \in BOOLEAN, NoTimeout(due) PROVE ConnectInv(Ix)'
  <2>1. /\ AutoReconnect(due) /\ sendPc' = "drain" /\ event' = "none"
        /\ UNCHANGED <<connVars, shouldBeConnected, retrying, base, appVars, net, histVars>>
    BY <1>3 DEF NoTimeout
  <2>2. /\ queue' \in Seq(Command) /\ QueueOK(queue', Ix)
        /\ \A i \in DiscIds : Waits(queue', i) => Waits(queue, i)
        /\ HasConnect(queue) => HasConnect(queue')
        /\ reconnectNow' \in BOOLEAN
    BY <2>1, AutoReconnectFacts
  <2>3. TypeOK'
    BY <1>0, <2>1, <2>2 DEF TypeOK, connVars, appVars, histVars
  <2>4. PartInv'
    BY <1>0, <2>1, <2>2 DEF PartInv, Parting, connVars, appVars, histVars
  <2>5. TryInv'
    BY <1>0, <2>1, <2>2 DEF TryInv, StillTrying, HasConnect, connVars, appVars
  <2>6. QED
    BY <1>0, <2>1, <2>2, <2>3, <2>4, <2>5 DEF ConnectInv, connVars
<1>4. ASSUME SendWait PROVE ConnectInv(Ix)'
  BY <1>0, <1>4 DEF SendWait, ConnectInv, TypeOK, PartInv, Parting, TryInv, StillTrying,
                    HasConnect, connVars, retryVars, appVars, histVars
<1>5. QED
  BY <1>1, <1>2, <1>3, <1>4 DEF CheckTimeouts

\* What the receive thread and the network do keeps the invariant.
LEMMA ReceiveKeeps ==
    ASSUME NEW Ix, Indexes(Ix),
           ConnectInv(Ix), Receive \/ InternalDisconnect \/ Network
    PROVE  ConnectInv(Ix)'
<1>0. /\ TypeOK /\ QueueOK(queue, Ix) /\ PartInv /\ TryInv /\ queue \in Seq(Command)
      /\ CmdOK(connect, Ix) /\ connect \in Command /\ sendPc \in {"drain", "check"}
  BY DEF ConnectInv, TypeOK
<1>1. ASSUME NEW s \in {"HANDSHAKE", "WAIT_FOR_CONNACK"}, Connecting(s) PROVE ConnectInv(Ix)'
  <2>1. /\ connState \in {"TCP_IN_PROGRESS", "HANDSHAKE"} /\ connState' = s /\ event' = "none"
        /\ UNCHANGED <<queue, connected, connect, disc, shouldBeConnected, retryVars,
                       appVars, net, histVars, sendPc>>
    BY <1>1 DEF Connecting
  <2>2. TypeOK'
    BY <1>0, <2>1 DEF TypeOK, retryVars, appVars, histVars, ConnStates
  <2>3. PartInv'
    BY <1>0, <2>1 DEF PartInv, Parting, appVars, histVars
  <2>4. TryInv'
    BY <1>0, <2>1 DEF TryInv, StillTrying, HasConnect, retryVars, appVars
  <2>5. QED
    BY <1>0, <2>1, <2>2, <2>3, <2>4 DEF ConnectInv
<1>2. ASSUME ConnectingFails PROVE ConnectInv(Ix)'
  BY <1>0, <1>2, NextOrCloseKeeps DEF ConnectingFails
<1>3. ASSUME Connack PROVE ConnectInv(Ix)'
  <2>1. /\ connect' \in Command /\ CmdOK(connect', Ix) /\ connect'.type = connect.type
        /\ answered' \subseteq ConnIds
    BY <1>0, <1>3, ConnectFacts DEF Answer, Connack, TypeOK
  <2>2. TypeOK'
    BY <1>0, <1>3, <2>1 DEF Connack, TypeOK, appVars, ConnStates
  <2>3. PartInv'
    BY <1>0, <1>3 DEF Connack, PartInv, Parting, appVars
  <2>4. TryInv'
    BY <1>0, <1>3, <2>1 DEF Connack, TryInv, StillTrying, HasConnect
  <2>5. QED
    BY <1>0, <1>3, <2>1, <2>2, <2>3, <2>4 DEF ConnectInv, Connack
<1>4. ASSUME SocketError PROVE ConnectInv(Ix)'
  BY <1>0, <1>4, NextOrCloseKeeps DEF SocketError
<1>5. ASSUME InternalDisconnect PROVE ConnectInv(Ix)'
  <2> DEFINE cmd == [NewDisconnect EXCEPT !.internal = TRUE]
  <2>1. cmd \in Command /\ CmdOK(cmd, Ix)
    BY ConnectAssumption DEF NewDisconnect, NullCommand, Command, CmdOK, InArray, Indexes,
                             Callbacks
  <2>2. queue' \in AddHead(queue, cmd)
    BY <1>5 DEF InternalDisconnect
  <2> HIDE DEF cmd
  <2>3. /\ queue' \in Seq(Command) /\ QueueOK(queue', Ix)
        /\ \A i \in DiscIds : Waits(queue', i) => Waits(queue, i)
        /\ HasConnect(queue) => HasConnect(queue')
    BY <1>0, <2>1, <2>2, AddHeadOK
  <2>4. TypeOK'
    BY <1>0, <1>5, <2>3 DEF InternalDisconnect, TypeOK, connVars, retryVars, appVars, histVars
  <2>5. PartInv'
    BY <1>0, <1>5, <2>3 DEF InternalDisconnect, PartInv, Parting, connVars, appVars, histVars
  <2>6. TryInv'
    BY <1>0, <1>5, <2>3 DEF InternalDisconnect, TryInv, StillTrying, HasConnect, connVars,
                            retryVars, appVars
  <2>7. QED
    BY <1>0, <1>5, <2>3, <2>4, <2>5, <2>6 DEF ConnectInv, InternalDisconnect, connVars
<1>6. ASSUME Network PROVE ConnectInv(Ix)'
  BY <1>0, <1>6 DEF Network, ConnectInv, TypeOK, PartInv, Parting, TryInv, StillTrying,
                    HasConnect, connVars, retryVars, appVars, histVars
<1>7. QED
  BY <1>1, <1>2, <1>3, <1>4, <1>5, <1>6 DEF Receive

\* Every step keeps the invariant.
LEMMA ConnectStep ==
    ASSUME NEW Ix, Indexes(Ix),
           ConnectInv(Ix), [Next]_vars
    PROVE  ConnectInv(Ix)'
<1>1. CASE Next
  BY <1>1, ApplicationKeeps, ProcessKeeps, TimeoutsKeep, ReceiveKeeps DEF Next
<1>2. CASE UNCHANGED vars
  BY <1>2 DEF ConnectInv, TypeOK, PartInv, Parting, TryInv, StillTrying, HasConnect, vars,
              connVars, retryVars, appVars, histVars
<1>3. QED
  BY <1>1, <1>2

----------------------------------------------------------------------------
(* Theorems *)

\* Every reachable state of the connection satisfies the invariant, with any
\* index.
LEMMA ConnectInvariant == Spec => []ConnectInv(Nat)
<1>1. Init => ConnectInv(Nat)
  BY ConnectInit
<1>2. ConnectInv(Nat) /\ [Next]_vars => ConnectInv(Nat)'
  BY ConnectStep DEF Indexes
<1>3. QED
  BY <1>1, <1>2, PTL DEF Spec

\* Every variable keeps its type; the interval between automatic reconnects in
\* particular stays between minRetryInterval and maxRetryInterval.
THEOREM ConnectTypes == Spec => []TypeOK
<1>1. ConnectInv(Nat) => TypeOK
  BY DEF ConnectInv
<1>2. QED
  BY <1>1, ConnectInvariant, PTL

\* nextOrClose, MQTTAsync_processCommand and the retries never lead an index past
\* the end of serverURIs, whatever the number of URIs and however the application
\* mixes connect, reconnect and disconnect calls: an index of m->connect or of a
\* queued command gets there only when a connect call brings a shorter list.
THEOREM URIsInBounds == Spec => URIInBounds
<1> DEFINE Array == {0} \cup {k \in Nat : k < uriCount}
<1>1. ASSUME ConnectInv(Nat), [Next]_vars, URIsInArray, uriCount' >= uriCount
      PROVE  URIsInArray'
  <2>1. PICK Ix : Ix = Array
    OBVIOUS
  <2>2. Indexes(Ix)
    BY <2>1 DEF Indexes
  <2>3. /\ connect.uri \in Nat /\ connect.uri \in Ix
        /\ \A n \in DOMAIN queue : queue[n].uri \in Nat /\ queue[n].uri \in Ix
    <3>1. /\ connect.uri \in Nat
          /\ \A n \in DOMAIN queue : queue[n].uri \in Nat
      BY <1>1 DEF ConnectInv, QueueOK, CmdOK, InArray
    <3>2. QED
      BY <1>1, <2>1, <3>1 DEF URIsInArray
  <2>4. ConnectInv(Ix)
    BY <1>1, <2>3 DEF ConnectInv, QueueOK, CmdOK, InArray
  <2>5. ConnectInv(Ix)'
    BY <1>1, <2>2, <2>4, ConnectStep
  <2>6. /\ connect'.uri \in Ix
        /\ \A n \in DOMAIN queue' : queue'[n].uri \in Ix
    BY <2>5 DEF ConnectInv, QueueOK, CmdOK, InArray
  <2>7. uriCount \in Nat /\ uriCount' \in Nat
    BY <1>1, <2>5, ConnectAssumption DEF ConnectInv, TypeOK
  <2>8. \A k \in Ix : k = 0 \/ k < uriCount'
    BY <1>1, <2>1, <2>7
  <2>9. QED
    BY <2>6, <2>8 DEF URIsInArray
<1>2. ConnectInv(Nat) /\ [Next]_vars =>
        [URIsInArray /\ uriCount' >= uriCount => URIsInArray']_vars
  BY <1>1
<1>3. QED
  BY <1>2, ConnectInvariant, PTL DEF Spec, URIInBounds

\* MQTTAsync_addCommand never leaves two CONNECT commands of a client in the list.
THEOREM OneConnect == Spec => []OneConnectQueued
<1>1. ConnectInv(Nat) => OneConnectQueued
  BY DEF ConnectInv, QueueOK, OneConnectQueued
<1>2. QED
  BY <1>1, ConnectInvariant, PTL

\* A disconnect call gets at most one callback, for any number of calls in
\* progress at once.
THEOREM DisconnectOnce == Spec => []DisconnectReportedOnce
<1>1. ConnectInv(Nat) => DisconnectReportedOnce
  BY DEF ConnectInv, PartInv, DisconnectReportedOnce
<1>2. QED
  BY <1>1, ConnectInvariant, PTL

\* With automatic reconnect, something is always under way that will connect a
\* client that was asked to connect and never to disconnect.
THEOREM AlwaysTrying == Spec => []StillTrying
<1>1. ConnectInv(Nat) => StillTrying
  BY DEF ConnectInv, TryInv
<1>2. QED
  BY <1>1, ConnectInvariant, PTL

\* No step takes a connection away without a callback in the same step.
THEOREM LossIsReported == Spec => NoSilentLoss
<1>1. ASSUME TypeOK, Next, connected, ~connected'
      PROVE  event' \in {"connectionLost", "disconnected"}
  <2>0. connected \in BOOLEAN
    BY <1>1 DEF TypeOK
  <2>1. ASSUME NextOrClose PROVE event' \in {"connectionLost", "disconnected"}
    BY <1>1, <2>1 DEF NextOrClose, ReportLost
  <2>2. ASSUME NEW cmd, CheckDisconnect(cmd)
        PROVE  event' \in {"connectionLost", "disconnected"}
    BY <1>1, <2>2 DEF CheckDisconnect, ReportLost
  <2>3. CASE Application
    BY <1>1, <2>3 DEF Application, ConnectBegin, ConnectOptions, ConnectAdd, Disconnect,
                      Reconnect, connVars
  <2>4. CASE ProcessCommand
    BY <1>1, <2>2, <2>4 DEF ProcessCommand, ProcessConnectAgain, ProcessConnect,
                            ProcessConnectFails, ProcessDisconnect
  <2>5. CASE SendWait \/ CheckTimeouts
    BY <1>1, <2>1, <2>2, <2>5 DEF SendWait, CheckTimeouts, DisconnectTimeout, ConnectTimeout,
                                  NoTimeout, connVars
  <2>6. CASE Receive \/ InternalDisconnect \/ Network
    BY <1>1, <2>1, <2>6 DEF Receive, Connecting, ConnectingFails, Connack, SocketError,
                            InternalDisconnect, Network, connVars
  <2>7. QED
    BY <1>1, <2>3, <2>4, <2>5, <2>6 DEF Next
<1>2. TypeOK /\ [Next]_vars =>
        [connected /\ ~connected' => event' \in {"connectionLost", "disconnected"}]_vars
  BY <1>1
<1>3. QED
  BY <1>2, ConnectTypes, PTL DEF Spec, NoSilentLoss

====

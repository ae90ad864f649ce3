------------------------------ MODULE FileStore ------------------------------
(***************************************************************************)
(* The default persistence: a directory with one file per message          *)
(* (MQTTPersistenceDefault.c), and the calls of MQTTPersistence.c that use *)
(* it.  One call runs at a time, under the client's mutex; the process may *)
(* stop between two of its system calls and open the store again.  A file  *)
(* is Absent, Torn (cut off) or has the value that was put.                *)
(***************************************************************************)
EXTENDS Integers, FiniteSets

CONSTANTS MsgIds,      \* message ids
          Values,      \* the packets that are put
          MaxCalls     \* bound on the number of puts and removes

VARIABLES disk,        \* the directories: client (or NoDir) and cwd, functions key -> file
          handle,      \* clientDir, TRUE while the store is open
          call,        \* the put under way, or Idle
          windows,     \* the platform the library is built for
          stored,      \* ghost: key -> what the last put or remove to return said
          unflushed,   \* ghost: keys of which fclose in the last put to return failed
          cleared,     \* ghost: a clear has returned 0 and nothing was put since
          calls        \* number of calls so far

storeVars == <<disk, handle, call, windows, stored, unflushed, cleared, calls>>

\* PERSISTENCE_PUBLISH_SENT, PERSISTENCE_PUBREL and PERSISTENCE_PUBLISH_RECEIVED
KeyPrefixes == {"s", "sc", "r"}
Keys == KeyPrefixes \X MsgIds
Absent == "absent"
Torn == "torn"
Unknown == "unknown"

ASSUME ValuesAssumption == Values \cap {Absent, Torn, Unknown} = {}

Idle == [key |-> <<>>, value |-> Absent]
NoDir == [k \in {} |-> Absent]
EmptyDir == [k \in Keys |-> Absent]
Files(dir) == {k \in DOMAIN dir : dir[k] # Absent}

StoreInit ==
  /\ windows \in BOOLEAN
  /\ \E name \in SUBSET {<<"s", i>> : i \in MsgIds} :   \* files of the same name where the process runs
       disk = [client |-> NoDir, cwd |-> [k \in Keys |-> IF k \in name THEN Torn ELSE Absent]]
  /\ handle = FALSE /\ call = Idle /\ calls = 0 /\ cleared = FALSE
  /\ stored = [k \in Keys |-> Absent] /\ unflushed = {}

\* the key MQTTPersistence_putPacket makes of a packet it sends or (scr = 1) receives
KeyFor(scr, htype, id) == <<IF scr = 1 THEN "r" ELSE IF htype = "PUBREL" THEN "sc" ELSE "s", id>>

(***************************************************************************)
(* Opening and closing.                                                    *)
(***************************************************************************)
pstmkdir(dir) == IF dir = NoDir THEN EmptyDir ELSE dir   \* EEXIST is no error

\* popen of MQTTPersistence_initialize
pstopen ==
  /\ ~handle
  /\ handle' = TRUE
  /\ disk' = [disk EXCEPT !.client = pstmkdir(@)]
  /\ UNCHANGED <<call, windows, stored, unflushed, cleared, calls>>

\* MQTTPersistence_close: the directory goes if it is empty
pstclose ==
  /\ handle /\ call = Idle
  /\ handle' = FALSE
  /\ disk' = [disk EXCEPT !.client = IF Files(@) = {} THEN NoDir ELSE @]
  /\ UNCHANGED <<call, windows, stored, unflushed, cleared, calls>>

(***************************************************************************)
(* Reading.                                                                *)
(***************************************************************************)
pstkeys == Files(disk.client)
pstcontainskey(k) == k \in pstkeys
\* a file that is cut off is read as it is, without an error
pstget(k) == IF pstcontainskey(k) THEN [rc |-> 0, value |-> disk.client[k]] ELSE [rc |-> -2, value |-> Absent]

(***************************************************************************)
(* Putting: fopen truncates the file, the buffers are written and the file *)
(* is closed.  fwrite collects what is short and writes it in fclose.      *)
(***************************************************************************)
CanCall == handle /\ call = Idle /\ calls < MaxCalls

\* MQTTPersistence_putPacket up to fopen; beforeWrite or fopen may refuse
putPacket(scr, htype, id, v) ==
  LET k == KeyFor(scr, htype, id)
  IN /\ CanCall
     /\ calls' = calls + 1
     /\ \/ UNCHANGED <<disk, call, stored, cleared>>      \* an error, and the old file is still there
        \/ /\ disk' = [disk EXCEPT !.client[k] = Torn]
           /\ call' = [key |-> k, value |-> v]
           /\ stored' = [stored EXCEPT ![k] = Unknown]
           /\ cleared' = FALSE
     /\ UNCHANGED <<handle, windows, unflushed>>

\* how the rest of pstput may go: everything is written; fwrite fails, which the count of bytes
\* shows, and pstremove removes the file or fails too; fclose fails, which nobody asks
Outcomes == {"whole", "removed", "left", "unflushed"}
FileAfter(outcome) ==
  [whole |-> call.value, removed |-> Absent, left |-> Torn, unflushed |-> Torn][outcome]

\* what the return code says of the file; MQTTCLIENT_PERSISTENCE_ERROR with the file left, nothing
Answer(outcome) ==
  [whole |-> call.value, removed |-> Absent, left |-> Unknown, unflushed |-> call.value][outcome]

\* A put that does not compare what was written with what should have been.
PutReturnsUnchecked(outcome) ==
  /\ call # Idle
  /\ disk' = [disk EXCEPT !.client[call.key] = IF outcome = "whole" THEN call.value ELSE Torn]
  /\ stored' = [stored EXCEPT ![call.key] = call.value]
  /\ unflushed' = IF outcome = "unflushed" THEN unflushed \cup {call.key} ELSE unflushed \ {call.key}
  /\ call' = Idle
  /\ UNCHANGED <<handle, windows, cleared, calls>>

PutReturns(outcome) ==
  /\ call # Idle
  /\ disk' = [disk EXCEPT !.client[call.key] = FileAfter(outcome)]
  /\ stored' = [stored EXCEPT ![call.key] = Answer(outcome)]
  /\ unflushed' = IF outcome = "unflushed" THEN unflushed \cup {call.key} ELSE unflushed \ {call.key}
  /\ call' = Idle
  /\ UNCHANGED <<handle, windows, cleared, calls>>

\* premove of MQTTPersistence_remove: a file that is not there is no error, any other error keeps it
pstremove(k, unlinked) ==
  /\ CanCall
  /\ calls' = calls + 1
  /\ IF unlinked THEN /\ disk' = [disk EXCEPT !.client[k] = Absent]
                      /\ stored' = [stored EXCEPT ![k] = Absent]
                 ELSE UNCHANGED <<disk, stored>>
  /\ UNCHANGED <<handle, call, windows, unflushed, cleared>>

(***************************************************************************)
(* Clearing.  clearWin32 removes the files of the client's directory.      *)
(* clearUnix reads the names in that directory but passes them to lstat    *)
(* and remove without it, so that they are looked up where the process     *)
(* runs.                                                                   *)
(***************************************************************************)
clearWin32(gone) == [disk EXCEPT !.client = [k \in Keys |-> IF k \in gone THEN Absent ELSE @[k]]]
clearUnix(gone) == [disk EXCEPT !.cwd = [k \in Keys |-> IF k \in gone THEN Absent ELSE @[k]]]

\* MQTTPersistence_clear: an error of remove ends it after some of the names, gone, are done
pstclear(gone) ==
  /\ CanCall
  /\ calls' = calls + 1
  /\ disk' = IF windows THEN clearWin32(gone) ELSE clearUnix(gone)
  /\ stored' = [k \in Keys |-> Unknown]
  /\ cleared' = (gone = pstkeys)
  /\ UNCHANGED <<handle, call, windows, unflushed>>

\* the process stops, in a put or between two calls
Crash ==
  /\ handle
  /\ handle' = FALSE /\ call' = Idle
  /\ UNCHANGED <<disk, windows, stored, unflushed, cleared, calls>>

StoreNext ==
  \/ pstopen
  \/ pstclose
  \/ \E scr \in {0, 1}, htype \in {"PUBLISH", "PUBREL"}, id \in MsgIds, v \in Values :
       (scr = 1 => htype = "PUBLISH") /\ putPacket(scr, htype, id, v)
  \/ \E outcome \in Outcomes : PutReturns(outcome)
  \/ \E k \in Keys, unlinked \in BOOLEAN : pstremove(k, unlinked)
  \/ \E gone \in SUBSET pstkeys : pstclear(gone)
  \/ Crash

StoreSpec == StoreInit /\ [][StoreNext]_storeVars

(***************************************************************************)
(* What must hold.                                                         *)
(***************************************************************************)
\* A put that returned 0 has left its file, and it is the packet whole unless fclose failed in
\* that very put (MQTTPersistenceDefault.c:235 does not ask); a file that was removed is not found
\* again.  That stays so after failed calls, calls on other keys, closing, opening and stops of the
\* process (195-365).  On Windows a clear that returned 0 leaves nothing for the next restore (568);
\* on Unix it leaves everything (634-638).
StoredIsFound ==
  handle =>
    /\ \A k \in Keys :
         /\ stored[k] \in Values =>
              pstget(k) = [rc |-> 0, value |-> IF k \in unflushed THEN Torn ELSE stored[k]]
         /\ stored[k] = Absent => ~pstcontainskey(k)
    /\ windows /\ cleared => pstkeys = {}
=============================================================================
